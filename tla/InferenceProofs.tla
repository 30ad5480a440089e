------------------------- MODULE InferenceProofs -------------------------
(***************************************************************************)
(* Two parts of the inference that stand by themselves: Core, the search   *)
(* for an unsat core (the first part), and WeakenLemmaSet, the weakening   *)
(* of the lemmas of a set of domains (the second part).                    *)
(***************************************************************************)
EXTENDS Core, WeakenLemmaSet, FiniteSetTheorems, WellFoundedInduction, TLAPS

(* Without the flag gradual every hypothesis is assumed from the start, so *)
(* that no counter-model is ever recorded and nothing is ever reduced.     *)
NotGradual ==
  /\ pc = "reduce" => conf.gradual
  /\ ~conf.gradual => /\ participants = Formulas
                      /\ counter_models = <<>>
                      /\ DOMAIN to_counter_models = {}

(* The inductive invariant: the maps must be exact for AllBlocked to       *)
(* survive a reduction, and AllBlocked is what makes a new model new.      *)
IInv ==
  /\ TypeOK
  /\ NotGradual
  /\ MapsAgree
  /\ AllBlocked
  /\ NoRepetition
  /\ LocallyMinimal
  /\ ResultSound

(* It holds at first.                                                      *)
LEMMA InitInv == Init => IInv
BY DEF Init, IInv, TypeOK, NotGradual, MapsAgree, AllBlocked, NoRepetition, LocallyMinimal,
       ResultSound, Confs, Model, Formulas, Indices, NoResult

----------------------------------------------------------------------------
(* Blocking a new model: the maps learn of it and of its participant.      *)
LEMMA BlockMaps ==
  ASSUME TypeOK, NotGradual, MapsAgree,
         NEW m \in Unblocked(participants), NEW p \in m \ participants, Block(m, p)
  PROVE  /\ participants' \in SUBSET Formulas
         /\ counter_models' \in Seq(Model)
         /\ Indices' = Indices \cup {Len(counter_models) + 1}
         /\ \A i \in Indices : counter_models'[i] = counter_models[i]
         /\ counter_models'[Len(counter_models) + 1] = m
         /\ to_participants' \in [Indices' -> SUBSET Formulas]
         /\ DOMAIN to_counter_models' = DOMAIN to_counter_models \cup {p}
         /\ \A q \in DOMAIN to_counter_models' : to_counter_models'[q] \in SUBSET Indices'
         /\ \A i \in Indices' : to_participants'[i] = counter_models'[i] \cap participants'
         /\ \A q \in DOMAIN to_counter_models' :
              to_counter_models'[q] = {i \in Indices' : q \in counter_models'[i]}
<1> DEFINE n == Len(counter_models) + 1
           blocked == {i \in 1 .. n - 1 : p \in counter_models[i]} \cup {n}
<1>1. m \in Model /\ m \cap participants = {} /\ models \in SUBSET Model
  BY DEF Unblocked, TypeOK
<1>2. conf.gradual /\ DOMAIN to_counter_models = participants
  <2>1. conf.gradual
    BY <1>1 DEF NotGradual, Model, TypeOK, Confs
  <2> QED BY <2>1 DEF MapsAgree
<1>3. /\ counter_models \in Seq(Model) /\ Len(counter_models) \in Nat /\ n \in Nat /\ n - 1 = Len(counter_models)
      /\ p \in Formulas /\ participants \in SUBSET Formulas
  BY <1>1 DEF TypeOK, Model
<1>4. /\ participants' = participants \cup {p}
      /\ counter_models' = Append(counter_models, m)
      /\ to_participants' = [i \in 1 .. n |->
           (IF i = n THEN {} ELSE to_participants[i]) \cup (IF i \in blocked THEN {p} ELSE {})]
      /\ to_counter_models' = [q \in DOMAIN to_counter_models \cup {p} |->
           IF q = p THEN blocked ELSE to_counter_models[q]]
  BY DEF Block
<1>5. participants' \in SUBSET Formulas
  BY <1>3, <1>4
<1>6. counter_models' \in Seq(Model) /\ Len(counter_models') = n
  BY <1>1, <1>3, <1>4
<1>7. Indices = 1 .. n - 1 /\ Indices' = 1 .. n /\ Indices' = Indices \cup {n} /\ n \notin Indices
  BY <1>3, <1>6 DEF Indices
<1>8. /\ \A i \in Indices : counter_models'[i] = counter_models[i]
      /\ counter_models'[n] = m
  BY <1>1, <1>3, <1>4, <1>7
<1> HIDE DEF n
<1>9. \A i \in Indices' : to_participants'[i] = counter_models'[i] \cap participants'
  <2> SUFFICES ASSUME NEW i \in Indices'
               PROVE  to_participants'[i] = counter_models'[i] \cap participants'
    OBVIOUS
  <2>1. to_participants'[i] =
          (IF i = n THEN {} ELSE to_participants[i]) \cup (IF i \in blocked THEN {p} ELSE {})
    BY <1>4, <1>7
  <2>2. CASE i = n
    <3>1. i \in blocked
      BY <2>2
    <3> QED BY <2>1, <2>2, <3>1, <1>8, <1>1, <1>4
  <2>3. CASE i # n
    <3>1. i \in Indices
      BY <2>3, <1>7
    <3>2. to_participants[i] = counter_models[i] \cap participants
      BY <3>1 DEF MapsAgree
    <3>3. i \in blocked <=> p \in counter_models[i]
      BY <3>1, <2>3, <1>7
    <3> QED BY <2>1, <2>3, <3>1, <3>2, <3>3, <1>8, <1>4
  <2> QED BY <2>2, <2>3
<1>10. DOMAIN to_counter_models' = DOMAIN to_counter_models \cup {p}
  BY <1>4
<1>11. \A q \in DOMAIN to_counter_models' :
         to_counter_models'[q] = {i \in Indices' : q \in counter_models'[i]}
  <2> SUFFICES ASSUME NEW q \in DOMAIN to_counter_models'
               PROVE  to_counter_models'[q] = {i \in Indices' : q \in counter_models'[i]}
    OBVIOUS
  <2>1. to_counter_models'[q] = IF q = p THEN blocked ELSE to_counter_models[q]
    BY <1>4, <1>10
  <2>2. CASE q = p
    BY <2>1, <2>2, <1>7, <1>8
  <2>3. CASE q # p
    <3>1. q \in DOMAIN to_counter_models /\ q \in participants /\ q \notin m
      BY <2>3, <1>10, <1>2, <1>1
    <3>2. to_counter_models[q] = {i \in Indices : q \in counter_models[i]}
      BY <3>1 DEF MapsAgree
    <3> QED BY <2>1, <2>3, <3>1, <3>2, <1>7, <1>8
  <2> QED BY <2>2, <2>3
<1>12. to_participants' \in [Indices' -> SUBSET Formulas]
  <2>1. \A i \in Indices' : to_participants'[i] \in SUBSET Formulas
    BY <1>5, <1>9
  <2> QED BY <2>1, <1>4, <1>7
<1>13. \A q \in DOMAIN to_counter_models' : to_counter_models'[q] \in SUBSET Indices'
  BY <1>11
<1> QED BY <1>5, <1>6, <1>7, <1>8, <1>9, <1>10, <1>11, <1>12, <1>13 DEF n

(* A new counter-model is blocked and unlike the older ones, which stay    *)
(* blocked.                                                                *)
LEMMA BlockInv ==
  ASSUME IInv, pc = "query",
         NEW m \in Unblocked(participants), NEW p \in m \ participants, Block(m, p),
         pc' = (IF conf.minimal THEN "reduce" ELSE "query"),
         UNCHANGED <<conf, models, result>>
  PROVE  IInv'
<1> DEFINE n == Len(counter_models) + 1
<1>1. /\ TypeOK /\ NotGradual /\ MapsAgree /\ AllBlocked /\ NoRepetition /\ ResultSound
  BY DEF IInv
<1>2. /\ participants' \in SUBSET Formulas
      /\ counter_models' \in Seq(Model)
      /\ Indices' = Indices \cup {n}
      /\ \A i \in Indices : counter_models'[i] = counter_models[i]
      /\ counter_models'[n] = m
      /\ to_participants' \in [Indices' -> SUBSET Formulas]
      /\ DOMAIN to_counter_models' = DOMAIN to_counter_models \cup {p}
      /\ \A q \in DOMAIN to_counter_models' : to_counter_models'[q] \in SUBSET Indices'
      /\ \A i \in Indices' : to_participants'[i] = counter_models'[i] \cap participants'
      /\ \A q \in DOMAIN to_counter_models' :
           to_counter_models'[q] = {i \in Indices' : q \in counter_models'[i]}
  BY <1>1, BlockMaps
<1> HIDE DEF n
<1>3. participants' = participants \cup {p} /\ m \cap participants = {} /\ p \in m
  BY DEF Block, Unblocked
<1>4. conf.gradual
  BY <1>1, <1>3 DEF NotGradual, TypeOK, Unblocked, Model, Confs
<1>5. TypeOK'
  <2>1. DOMAIN to_counter_models' \in SUBSET Formulas
    BY <1>1, <1>2, <1>3 DEF TypeOK
  <2>2. pc' \in {"query", "reduce", "done"}
    OBVIOUS
  <2> QED BY <1>1, <1>2, <2>1, <2>2 DEF TypeOK
<1>6. NotGradual'
  BY <1>4 DEF NotGradual
<1>7. MapsAgree'
  BY <1>1, <1>2, <1>3, <1>4 DEF MapsAgree
<1>8. AllBlocked'
  <2> SUFFICES ASSUME NEW i \in Indices'
               PROVE  counter_models'[i] \cap participants' # {}
    BY DEF AllBlocked
  <2> QED BY <1>1, <1>2, <1>3 DEF AllBlocked
<1>9. NoRepetition'
  <2>1. \A i \in Indices : counter_models'[i] # m
    BY <1>1, <1>2, <1>3 DEF AllBlocked
  <2> QED BY <1>1, <1>2, <2>1 DEF NoRepetition
<1>10. LocallyMinimal'
  BY DEF LocallyMinimal
<1>11. ResultSound'
  BY <1>1 DEF ResultSound
<1> QED BY <1>5, <1>6, <1>7, <1>8, <1>9, <1>10, <1>11 DEF IInv

----------------------------------------------------------------------------
(* Taking a redundant participant out keeps the maps exact and every       *)
(* counter-model blocked.                                                  *)
LEMMA ReduceInv == IInv /\ Reduce => IInv'
<1> SUFFICES ASSUME IInv, Reduce PROVE IInv'
  OBVIOUS
<1>1. /\ TypeOK /\ NotGradual /\ MapsAgree /\ AllBlocked /\ NoRepetition /\ ResultSound
  BY DEF IInv
<1>2. /\ pc = "reduce" /\ pc' = "reduce" /\ conf.gradual
      /\ UNCHANGED <<conf, models, counter_models, pc, result>> /\ Indices' = Indices
  BY <1>1 DEF Reduce, NotGradual, Indices
<1>3. PICK p \in Redundant :
        /\ participants' = participants \ {p}
        /\ to_counter_models' = [q \in DOMAIN to_counter_models \ {p} |-> to_counter_models[q]]
        /\ to_participants' = [i \in DOMAIN to_participants |->
             IF i \in to_counter_models[p] THEN to_participants[i] \ {p} ELSE to_participants[i]]
  BY DEF Reduce
<1>4. p \in participants /\ \A i \in to_counter_models[p] : to_participants[i] \ {p} # {}
  BY <1>3 DEF Redundant
<1>5. /\ DOMAIN to_counter_models = participants
      /\ \A i \in Indices : to_participants[i] = counter_models[i] \cap participants
      /\ \A q \in participants : to_counter_models[q] = {i \in Indices : q \in counter_models[i]}
      /\ DOMAIN to_participants = Indices
  BY <1>1, <1>2 DEF MapsAgree, TypeOK
<1>6. \A i \in Indices : to_participants'[i] = counter_models[i] \cap participants'
  <2> SUFFICES ASSUME NEW i \in Indices
               PROVE  to_participants'[i] = counter_models[i] \cap participants'
    OBVIOUS
  <2>1. to_participants[i] = counter_models[i] \cap participants
    BY <1>5
  <2>2. i \in to_counter_models[p] <=> p \in counter_models[i]
    BY <1>4, <1>5
  <2>3. to_participants'[i] =
          IF i \in to_counter_models[p] THEN to_participants[i] \ {p} ELSE to_participants[i]
    BY <1>3, <1>5
  <2> QED BY <2>1, <2>2, <2>3, <1>3
<1>7. /\ DOMAIN to_counter_models' = participants'
      /\ \A q \in participants' : to_counter_models'[q] = {i \in Indices : q \in counter_models[i]}
  BY <1>3, <1>5
<1>8. TypeOK'
  <2>1. participants' \in SUBSET Formulas
    BY <1>1, <1>3 DEF TypeOK
  <2>2. to_participants' \in [Indices -> SUBSET Formulas]
    <3>1. DOMAIN to_participants' = Indices /\ \A i \in Indices : to_participants'[i] \in SUBSET Formulas
      BY <1>3, <1>5, <1>6, <2>1
    <3>2. to_participants' = [i \in Indices |-> to_participants'[i]]
      BY <3>1, <1>3, <1>5
    <3> QED BY <3>1, <3>2
  <2>3. \A q \in DOMAIN to_counter_models' : to_counter_models'[q] \in SUBSET Indices
    BY <1>7
  <2> QED BY <1>1, <1>2, <1>7, <2>1, <2>2, <2>3 DEF TypeOK
<1>9. NotGradual'
  BY <1>2 DEF NotGradual
<1>10. MapsAgree'
  BY <1>2, <1>6, <1>7 DEF MapsAgree
<1>11. AllBlocked'
  <2> SUFFICES ASSUME NEW i \in Indices
               PROVE  counter_models[i] \cap participants' # {}
    BY <1>2 DEF AllBlocked
  <2>1. counter_models[i] \cap participants # {}
    BY <1>1 DEF AllBlocked
  <2>2. CASE p \in counter_models[i]
    <3>1. to_participants[i] \ {p} # {}
      BY <1>4, <1>5, <2>2
    <3> QED BY <3>1, <1>3, <1>5
  <2>3. CASE p \notin counter_models[i]
    BY <2>1, <2>3, <1>3
  <2> QED BY <2>2, <2>3
<1>12. NoRepetition'
  BY <1>1, <1>2 DEF NoRepetition
<1>13. LocallyMinimal'
  BY <1>2 DEF LocallyMinimal
<1>14. ResultSound'
  BY <1>1, <1>2 DEF ResultSound
<1> QED BY <1>8, <1>9, <1>10, <1>11, <1>12, <1>13, <1>14 DEF IInv

(* When nothing is redundant the core is locally minimal.                  *)
LEMMA ReducedInv == IInv /\ Reduced => IInv'
<1> SUFFICES ASSUME IInv, Reduced PROVE IInv'
  OBVIOUS
<1>1. /\ UNCHANGED <<conf, models, participants, counter_models, to_participants,
                     to_counter_models, result>>
      /\ pc' = "query" /\ Redundant = {} /\ Indices' = Indices
  BY DEF Reduced, Indices
<1>2. TypeOK' /\ NotGradual'
  BY <1>1 DEF IInv, TypeOK, NotGradual
<1>3. MapsAgree' /\ AllBlocked' /\ NoRepetition' /\ ResultSound'
  BY <1>1 DEF IInv, MapsAgree, AllBlocked, NoRepetition, ResultSound
<1>4. LocallyMinimal'
  <2> SUFFICES ASSUME conf.gradual, NEW p \in participants
               PROVE  \E i \in to_counter_models[p] : to_participants[i] = {p}
    BY <1>1 DEF LocallyMinimal
  <2>1. PICK i \in to_counter_models[p] : to_participants[i] \ {p} = {}
    BY <1>1 DEF Redundant
  <2>2. /\ to_counter_models[p] = {j \in Indices : p \in counter_models[j]}
        /\ to_participants[i] = counter_models[i] \cap participants
    BY <2>1 DEF IInv, MapsAgree
  <2>3. p \in to_participants[i]
    BY <2>1, <2>2
  <2> QED BY <2>1, <2>3
<1> QED BY <1>2, <1>3, <1>4 DEF IInv

----------------------------------------------------------------------------
(* Ending the search leaves the core alone; the result must be sound.      *)
LEMMA FinishInv ==
  ASSUME IInv, NEW r, Finish(r),
         \/ r \in [kind : {"none", "Unknown", "Canceled"}]
         \/ r \in [kind : {"Cex"}, model : Model]
         \/ r \in [kind : {"UnsatCore"}, core : SUBSET Formulas],
         r.kind = "UnsatCore" => \A m \in models : m \cap r.core # {},
         r.kind = "Cex" => r.model \in models /\ r.model = {}
  PROVE  IInv'
<1>1. /\ pc' = "done" /\ result' = r /\ Indices' = Indices
      /\ UNCHANGED <<conf, models, participants, counter_models, to_participants, to_counter_models>>
  BY DEF Finish, Indices
<1>2. TypeOK'
  BY <1>1 DEF IInv, TypeOK
<1>3. NotGradual' /\ LocallyMinimal'
  BY <1>1 DEF IInv, NotGradual, LocallyMinimal
<1>4. MapsAgree' /\ AllBlocked' /\ NoRepetition'
  BY <1>1 DEF IInv, MapsAgree, AllBlocked, NoRepetition
<1>5. ResultSound'
  BY <1>1 DEF ResultSound
<1> QED BY <1>2, <1>3, <1>4, <1>5 DEF IInv

(* Every step keeps it.                                                    *)
LEMMA StepInv == IInv /\ [Next]_vars => IInv'
<1> SUFFICES ASSUME IInv, [Next]_vars PROVE IInv'
  OBVIOUS
<1>1. CASE AddCounterModel
  <2>1. PICK m \in Unblocked(participants) :
          \/ m \ participants = {} /\ Finish([kind |-> "Cex", model |-> m])
          \/ /\ \E p \in m \ participants : Block(m, p)
             /\ pc' = IF conf.minimal THEN "reduce" ELSE "query"
             /\ UNCHANGED <<conf, models, result>>
    BY <1>1 DEF AddCounterModel
  <2>2. m \in models /\ m \in Model /\ m \cap participants = {}
    BY <2>1 DEF Unblocked, IInv, TypeOK
  <2>3. CASE m \ participants = {} /\ Finish([kind |-> "Cex", model |-> m])
    <3>1. m = {}
      BY <2>2, <2>3
    <3> DEFINE r == [kind |-> "Cex", model |-> m]
    <3>2. r \in [kind : {"Cex"}, model : Model] /\ r.kind = "Cex" /\ r.model = m /\ Finish(r)
      BY <2>2, <2>3
    <3> HIDE DEF r
    <3> QED BY <3>1, <3>2, <2>2, FinishInv
  <2>4. CASE /\ \E p \in m \ participants : Block(m, p)
             /\ pc' = IF conf.minimal THEN "reduce" ELSE "query"
             /\ UNCHANGED <<conf, models, result>>
    <3>1. pc = "query"
      BY <1>1 DEF AddCounterModel
    <3> QED BY <2>4, <3>1, BlockInv
  <2> QED BY <2>1, <2>3, <2>4
<1>2. CASE AnswerUnsat
  <2>1. PICK core \in SUBSET participants :
          Unblocked(core) = {} /\ Finish([kind |-> "UnsatCore", core |-> core])
    BY <1>2 DEF AnswerUnsat
  <2>2. core \in SUBSET Formulas /\ \A m \in models : m \cap core # {}
    BY <2>1 DEF IInv, TypeOK, Unblocked
  <2> DEFINE r == [kind |-> "UnsatCore", core |-> core]
  <2>3. /\ r \in [kind : {"UnsatCore"}, core : SUBSET Formulas]
        /\ r.kind = "UnsatCore" /\ r.core = core /\ Finish(r)
    BY <2>1, <2>2
  <2> HIDE DEF r
  <2> QED BY <2>2, <2>3, FinishInv
<1>3. CASE AnswerUnknown
  <2> DEFINE r == [kind |-> "Unknown"]
  <2>1. r \in [kind : {"none", "Unknown", "Canceled"}] /\ r.kind = "Unknown" /\ Finish(r)
    BY <1>3 DEF AnswerUnknown
  <2> HIDE DEF r
  <2> QED BY <2>1, FinishInv
<1>4. CASE AnswerKilled
  <2> DEFINE r == [kind |-> "Canceled"]
  <2>1. r \in [kind : {"none", "Unknown", "Canceled"}] /\ r.kind = "Canceled" /\ Finish(r)
    BY <1>4 DEF AnswerKilled
  <2> HIDE DEF r
  <2> QED BY <2>1, FinishInv
<1>5. CASE Reduce
  BY <1>5, ReduceInv
<1>6. CASE Reduced
  BY <1>6, ReducedInv
<1>7. CASE UNCHANGED vars
  BY <1>7 DEF vars, IInv, TypeOK, NotGradual, MapsAgree, AllBlocked, NoRepetition,
              LocallyMinimal, ResultSound, Indices
<1> QED BY <1>1, <1>2, <1>3, <1>4, <1>5, <1>6, <1>7 DEF Next

(* It always holds.                                                        *)
LEMMA Invariance == Spec => []IInv
<1>1. Init => IInv
  BY InitInv
<1>2. IInv /\ [Next]_vars => IInv'
  BY StepInv
<1> QED BY <1>1, <1>2, PTL DEF Spec

----------------------------------------------------------------------------
(* Core::to_participants and Core::to_counter_models always say exactly    *)
(* which participant blocks which counter-model.                           *)
THEOREM MapsExact == Spec => [](TypeOK /\ MapsAgree)
<1>1. IInv => TypeOK /\ MapsAgree
  BY DEF IInv
<1> QED BY <1>1, Invariance, PTL

(* No reduction ever unblocks a counter-model (add_counter_model, reduce). *)
THEOREM StaysBlocked == Spec => []AllBlocked
<1>1. IInv => AllBlocked
  BY DEF IInv
<1> QED BY <1>1, Invariance, PTL

(* Every sat answer of the query loop brings a model not seen before.      *)
THEOREM NeverRepeats == Spec => []NoRepetition
<1>1. IInv => NoRepetition
  BY DEF IInv
<1> QED BY <1>1, Invariance, PTL

(* The assertion at the end of add_counter_model never fails.              *)
THEOREM MinimalCore == Spec => []LocallyMinimal
<1>1. IInv => LocallyMinimal
  BY DEF IInv
<1> QED BY <1>1, Invariance, PTL

(* The CexResult of trans_cex and implication_cex is right.                *)
THEOREM SoundResult == Spec => []ResultSound
<1>1. IInv => ResultSound
  BY DEF IInv
<1> QED BY <1>1, Invariance, PTL

-----------------------------------------------------------------------------
(* Recursive functions                                                     *)

(* A set of natural numbers has a least one.                               *)
LEMMA LeastNat ==
  ASSUME NEW T \in SUBSET Nat, T # {}
  PROVE  \E x \in T : \A y \in T : x <= y
<1>1. PICK x \in T : \A y \in T : ~ (<<y, x>> \in OpToRel(<, Nat))
  BY NatLessThanWellFounded, WFMin
<1>2. \A y \in T : ~(y < x)
  BY <1>1 DEF OpToRel
<1> QED BY <1>2

(* f goes up from t, by G, through the sets of Ty.                         *)
Ascends(f, n, Ty, t, G) ==
  /\ f = [k \in 0 .. n |-> f[k]]
  /\ f[0] = t
  /\ \A k \in 1 .. n : f[k] = G[<<k, f[k - 1]>>]
  /\ \A k \in 0 .. n : f[k] \in Ty[k]

(* There is such an f: what a recursive function is has to be shown by a   *)
(* function that satisfies its equation.                                   *)
LEMMA Ascent ==
  ASSUME NEW n \in Nat, NEW Ty, NEW t \in Ty[0], NEW G,
         \A k \in 1 .. n : \A s \in Ty[k - 1] : G[<<k, s>>] \in Ty[k]
  PROVE  \E f : Ascends(f, n, Ty, t, G)
<1> DEFINE Bad == {k \in 0 .. n : ~\E f : Ascends(f, k, Ty, t, G)}
<1>1. SUFFICES ASSUME Bad # {} PROVE FALSE
  <2>1. n \in 0 .. n
    OBVIOUS
  <2> QED BY <2>1
<1>2. PICK k \in Bad : \A j \in Bad : k <= j
  <2>1. Bad \in SUBSET Nat
    OBVIOUS
  <2> QED BY <1>1, <2>1, LeastNat
<1>3. CASE k = 0
  <2> DEFINE f == [j \in 0 .. 0 |-> t]
  <2>1. f = [j \in 0 .. 0 |-> f[j]] /\ f[0] = t
    OBVIOUS
  <2>2. \A j \in 0 .. 0 : f[j] \in Ty[j]
    <3>1. \A j \in 0 .. 0 : j = 0
      OBVIOUS
    <3> QED BY <2>1, <3>1
  <2>3. 1 .. 0 = {}
    OBVIOUS
  <2> HIDE DEF f
  <2>4. Ascends(f, 0, Ty, t, G)
    BY <2>1, <2>2, <2>3 DEF Ascends
  <2> QED BY <1>2, <1>3, <2>4
<1>4. CASE k # 0
  <2>1. k - 1 \in 0 .. n /\ k - 1 \notin Bad /\ k - 1 \in Nat /\ k \in 1 .. n /\ k \in Nat
    <3>1. k \in 1 .. n /\ k - 1 \in 0 .. n /\ ~(k <= k - 1)
      BY <1>2, <1>4
    <3> QED BY <1>2, <3>1
  <2>2. PICK g : Ascends(g, k - 1, Ty, t, G)
    BY <2>1
  <2> DEFINE f == [j \in 0 .. k |-> IF j = k THEN G[<<k, g[k - 1]>>] ELSE g[j]]
  <2>3. f = [j \in 0 .. k |-> f[j]]
    OBVIOUS
  <2>4. \A j \in 0 .. k - 1 : f[j] = g[j] /\ g[j] \in Ty[j]
    BY <2>1, <2>2 DEF Ascends
  <2>5. f[k] = G[<<k, g[k - 1]>>]
    BY <2>1
  <2>6. k - 1 \in 0 .. k - 1 /\ 0 \in 0 .. k - 1
    BY <2>1
  <2> HIDE DEF f
  <2>7. f[0] = t
    BY <2>2, <2>4, <2>6 DEF Ascends
  <2>8. f[k] \in Ty[k] /\ f[k] = G[<<k, f[k - 1]>>]
    BY <2>1, <2>4, <2>5, <2>6
  <2>9. \A j \in 1 .. k : f[j] = G[<<j, f[j - 1]>>]
    <3> TAKE j \in 1 .. k
    <3>1. CASE j = k
      BY <2>8, <3>1
    <3>2. CASE j # k
      <4>1. j \in 1 .. k - 1 /\ j \in 0 .. k - 1 /\ j - 1 \in 0 .. k - 1
        BY <2>1, <3>2
      <4>2. g[j] = G[<<j, g[j - 1]>>]
        BY <2>2, <4>1 DEF Ascends
      <4> QED BY <2>4, <4>1, <4>2
    <3> QED BY <3>1, <3>2
  <2>10. \A j \in 0 .. k : f[j] \in Ty[j]
    <3> TAKE j \in 0 .. k
    <3>1. CASE j = k
      BY <2>8, <3>1
    <3>2. CASE j # k
      <4>1. j \in 0 .. k - 1
        BY <2>1, <3>2
      <4> QED BY <2>4, <4>1
    <3> QED BY <3>1, <3>2
  <2>11. Ascends(f, k, Ty, t, G)
    BY <2>3, <2>7, <2>9, <2>10 DEF Ascends
  <2> QED BY <1>2, <2>11
<1> QED BY <1>3, <1>4

(* What holds of the first index and passes on to the next one.            *)
LEMMA Along ==
  ASSUME NEW n \in Nat, NEW P, 0 \in P, \A k \in 1 .. n : k - 1 \in P => k \in P
  PROVE  \A k \in 0 .. n : k \in P
<1> DEFINE Bad == {k \in 0 .. n : k \notin P}
<1>1. SUFFICES ASSUME Bad # {} PROVE FALSE
  OBVIOUS
<1>2. PICK k \in Bad : \A j \in Bad : k <= j
  <2>1. Bad \in SUBSET Nat
    OBVIOUS
  <2> QED BY <1>1, <2>1, LeastNat
<1>3. k \in 1 .. n /\ k - 1 \in 0 .. n /\ ~(k <= k - 1)
  <2>1. k # 0
    BY <1>2
  <2> QED BY <1>2, <2>1
<1> QED BY <1>2, <1>3

(* f goes down to 1 from t at n + 1.                                       *)
Descends(f, n, Ty, t, G) ==
  /\ f = [i \in 1 .. n + 1 |-> f[i]]
  /\ f[n + 1] = t
  /\ \A i \in 1 .. n : f[i] = G[<<i, f[i + 1]>>]
  /\ \A i \in 1 .. n + 1 : f[i] \in Ty[i]

(* There is such an f.                                                     *)
LEMMA Descent ==
  ASSUME NEW n \in Nat, NEW Ty, NEW t \in Ty[n + 1], NEW G,
         \A i \in 1 .. n : \A s \in Ty[i + 1] : G[<<i, s>>] \in Ty[i]
  PROVE  \E f : Descends(f, n, Ty, t, G)
<1> DEFINE Up == [k \in 0 .. n |-> Ty[n + 1 - k]]
           H == [p \in (1 .. n) \X UNION {Up[k] : k \in 0 .. n} |-> G[<<n + 1 - p[1], p[2]>>]]
<1>1. Up[0] = Ty[n + 1] /\ \A k \in 0 .. n : Up[k] = Ty[n + 1 - k]
  OBVIOUS
<1>2. \A k \in 1 .. n : \A s \in Up[k - 1] : H[<<k, s>>] = G[<<n + 1 - k, s>>] /\ H[<<k, s>>] \in Up[k]
  <2> TAKE k \in 1 .. n
  <2>1. k - 1 \in 0 .. n /\ k \in 0 .. n /\ n + 1 - k \in 1 .. n /\ n + 1 - (k - 1) = (n + 1 - k) + 1
    OBVIOUS
  <2> TAKE s \in Up[k - 1]
  <2>2. s \in Ty[(n + 1 - k) + 1]
    BY <1>1, <2>1
  <2>3. G[<<n + 1 - k, s>>] \in Ty[n + 1 - k]
    BY <2>1, <2>2
  <2>4. H[<<k, s>>] = G[<<n + 1 - k, s>>]
    <3> HIDE DEF Up
    <3>1. <<k, s>> \in (1 .. n) \X UNION {Up[j] : j \in 0 .. n}
      BY <2>1
    <3> QED BY <3>1
  <2> QED BY <1>1, <2>1, <2>3, <2>4
<1> HIDE DEF Up, H
<1>3. PICK g : Ascends(g, n, Up, t, H)
  <2>1. t \in Up[0]
    BY <1>1
  <2> QED BY <1>2, <2>1, Ascent
<1> DEFINE f == [i \in 1 .. n + 1 |-> g[n + 1 - i]]
<1>4. f = [i \in 1 .. n + 1 |-> f[i]]
  OBVIOUS
<1>5. \A i \in 1 .. n + 1 : n + 1 - i \in 0 .. n /\ f[i] = g[n + 1 - i] /\ n + 1 - (n + 1 - i) = i
  OBVIOUS
<1>6. f[n + 1] = g[0]
  <2>1. n + 1 \in 1 .. n + 1 /\ n + 1 - (n + 1) = 0
    OBVIOUS
  <2> QED BY <2>1
<1> HIDE DEF f
<1>7. f[n + 1] = t
  BY <1>3, <1>6 DEF Ascends
<1>8. \A i \in 1 .. n + 1 : f[i] \in Ty[i]
  <2> TAKE i \in 1 .. n + 1
  <2> DEFINE k == n + 1 - i
  <2>1. k \in 0 .. n /\ f[i] = g[k] /\ n + 1 - k = i
    BY <1>5
  <2> HIDE DEF k
  <2>2. g[k] \in Up[k]
    BY <1>3, <2>1 DEF Ascends
  <2> QED BY <1>1, <2>1, <2>2
<1>9. \A i \in 1 .. n : f[i] = G[<<i, f[i + 1]>>]
  <2> TAKE i \in 1 .. n
  <2>1. /\ n + 1 - i \in 1 .. n /\ (n + 1 - i) - 1 = n + 1 - (i + 1) /\ i + 1 \in 1 .. n + 1
        /\ n + 1 - (n + 1 - i) = i /\ (n + 1 - i) - 1 \in 0 .. n /\ i \in 1 .. n + 1
    OBVIOUS
  <2> DEFINE k == n + 1 - i
  <2>2. g[k] = H[<<k, g[k - 1]>>] /\ g[k - 1] \in Up[k - 1]
    BY <1>3, <2>1 DEF Ascends
  <2>3. H[<<k, g[k - 1]>>] = G[<<n + 1 - k, g[k - 1]>>]
    BY <1>2, <2>1, <2>2
  <2>4. f[i] = g[k] /\ f[i + 1] = g[k - 1]
    BY <1>5, <2>1
  <2> QED BY <2>1, <2>2, <2>3, <2>4
<1> QED BY <1>4, <1>7, <1>8, <1>9 DEF Descends

(* What holds of the last index and passes on to the one before.           *)
LEMMA Back ==
  ASSUME NEW n \in Nat, NEW P, n + 1 \in P, \A i \in 1 .. n : i + 1 \in P => i \in P
  PROVE  \A i \in 1 .. n + 1 : i \in P
<1> DEFINE T == {k \in 0 .. n : n + 1 - k \in P}
<1>1. 0 \in T
  OBVIOUS
<1>2. \A k \in 1 .. n : k - 1 \in T => k \in T
  <2> TAKE k \in 1 .. n
  <2>1. k \in 0 .. n /\ k - 1 \in 0 .. n /\ n + 1 - k \in 1 .. n /\ n + 1 - (k - 1) = (n + 1 - k) + 1
    OBVIOUS
  <2> QED BY <2>1
<1>3. \A k \in 0 .. n : k \in T
  <2> HIDE DEF T
  <2> QED BY <1>1, <1>2, Along
<1> QED
  <2> TAKE i \in 1 .. n + 1
  <2>1. n + 1 - i \in 0 .. n /\ n + 1 - (n + 1 - i) = i
    OBVIOUS
  <2> QED BY <1>3, <2>1

-----------------------------------------------------------------------------
(* Assignments                                                             *)

(* The numbers from 1 to k * n are the pairs of a number up to k and a     *)
(* remainder.                                                              *)
LEMMA Digits ==
  ASSUME NEW n \in Nat, NEW m \in Nat
  PROVE  /\ \A k \in 1 .. m * n : ((k - 1) \div n) + 1 \in 1 .. m /\ (k - 1) % n \in 0 .. n - 1
         /\ \A j \in 1 .. m, e \in 0 .. n - 1 :
              \E k \in 1 .. m * n : ((k - 1) \div n) + 1 = j /\ (k - 1) % n = e
<1>1. ASSUME NEW k \in 1 .. m * n
      PROVE  ((k - 1) \div n) + 1 \in 1 .. m /\ (k - 1) % n \in 0 .. n - 1
  <2>1. n # 0 /\ n \in Nat \ {0} /\ m * n \in Nat
    OBVIOUS
  <2>2. k - 1 \in Nat /\ k - 1 < m * n
    BY <2>1
  <2> DEFINE q == (k - 1) \div n
             r == (k - 1) % n
  <2>3. q \in Nat /\ r \in 0 .. n - 1 /\ k - 1 = n * q + r
    BY <2>1, <2>2
  <2> HIDE DEF q, r
  <2>4. n * q < m * n
    BY <2>1, <2>2, <2>3
  <2>5. q < m
    BY <2>1, <2>3, <2>4
  <2> QED BY <2>3, <2>5 DEF q, r
<1>2. ASSUME NEW j \in 1 .. m, NEW e \in 0 .. n - 1
      PROVE  \E k \in 1 .. m * n : ((k - 1) \div n) + 1 = j /\ (k - 1) % n = e
  <2> DEFINE k == (j - 1) * n + e + 1
  <2>1. n \in Nat \ {0} /\ j - 1 \in Nat
    OBVIOUS
  <2>2. (j - 1) * n \in Nat /\ (j - 1) * n + n <= m * n
    BY <2>1
  <2>3. k \in 1 .. m * n
    BY <2>1, <2>2
  <2>4. (((j - 1) * n + e) \div n) = j - 1 /\ ((j - 1) * n + e) % n = e
    BY <2>1, <2>2
  <2>5. k - 1 = (j - 1) * n + e
    BY <2>2
  <2> HIDE DEF k
  <2>6. ((k - 1) \div n) = j - 1 /\ (k - 1) % n = e
    BY <2>4, <2>5
  <2> QED BY <2>1, <2>3, <2>6
<1> QED BY <1>1, <1>2

(* The assignments to X and Y that agree with asgn on what is not in Y.    *)
Agreeing(asgn, X, Y, V) == {a \in [X \cup Y -> V] : \A x \in X \ Y : a[x] = asgn[x]}

(* B is A with one more name assigned.                                     *)
OneMore(A, B, x, V) ==
  /\ \A a \in A, e \in V : Assign(a, x, e) \in B
  /\ \A b \in B : \E a \in A, e \in V : b = Assign(a, x, e)

(* The assignments that agree with one outside of some names: one name     *)
(* more, and each is assigned every value.                                 *)
LEMMA AgreeingOne ==
  ASSUME NEW X, NEW Y, NEW V, NEW asgn \in [X -> V], NEW x
  PROVE  OneMore(Agreeing(asgn, X, Y, V), Agreeing(asgn, X, Y \cup {x}, V), x, V)
<1>1. ASSUME NEW a \in Agreeing(asgn, X, Y, V), NEW e \in V
      PROVE  Assign(a, x, e) \in Agreeing(asgn, X, Y \cup {x}, V)
  <2>1. Assign(a, x, e) = [y \in X \cup (Y \cup {x}) |-> IF y = x THEN e ELSE a[y]]
    BY DEF Assign, Agreeing
  <2>2. Assign(a, x, e) \in [X \cup (Y \cup {x}) -> V]
    BY <2>1 DEF Agreeing
  <2>3. \A y \in X \ (Y \cup {x}) : Assign(a, x, e)[y] = asgn[y]
    BY <2>1 DEF Agreeing
  <2> QED BY <2>2, <2>3 DEF Agreeing
<1>2. ASSUME NEW b \in Agreeing(asgn, X, Y \cup {x}, V)
      PROVE  \E a \in Agreeing(asgn, X, Y, V), e \in V : b = Assign(a, x, e)
  <2> DEFINE a == [y \in X \cup Y |-> IF y \in X \ Y THEN asgn[y] ELSE b[y]]
  <2>1. b \in [X \cup (Y \cup {x}) -> V] /\ \A y \in X \ (Y \cup {x}) : b[y] = asgn[y]
    BY DEF Agreeing
  <2>2. a \in Agreeing(asgn, X, Y, V)
    BY <2>1 DEF Agreeing
  <2>3. Assign(a, x, b[x]) = [y \in X \cup (Y \cup {x}) |-> IF y = x THEN b[x] ELSE a[y]]
    BY DEF Assign
  <2>4. b = [y \in X \cup (Y \cup {x}) |-> IF y = x THEN b[x] ELSE a[y]]
    <3>1. \A y \in X \cup (Y \cup {x}) : b[y] = IF y = x THEN b[x] ELSE a[y]
      BY <2>1
    <3> QED BY <2>1, <3>1
  <2>5. b[x] \in V
    BY <2>1
  <2> QED BY <2>2, <2>3, <2>4, <2>5
<1> QED BY <1>1, <1>2 DEF OneMore

(* The sequences of all the elements of S.                                 *)
Lists(S) == {s \in Seq(S) : S = {s[k] : k \in 1 .. Len(s)}}

(* A list of a set is a sequence of all its elements.                      *)
LEMMA ListsIs ==
  ASSUME NEW S, NEW s
  PROVE  s \in Lists(S) <=> s \in Seq(S) /\ S = {s[k] : k \in 1 .. Len(s)}
BY DEF Lists

(* A sequence from its elements.                                           *)
LEMMA IsSeq ==
  ASSUME NEW B, NEW l \in Nat, NEW t, t = [k \in 1 .. l |-> t[k]], \A k \in 1 .. l : t[k] \in B
  PROVE  t \in Seq(B) /\ Len(t) = l /\ DOMAIN t = 1 .. l
<1>1. t \in [1 .. l -> B]
  OBVIOUS
<1>2. t \in Seq(B)
  BY <1>1
<1>3. DOMAIN t = 1 .. l /\ DOMAIN t = 1 .. Len(t) /\ Len(t) \in Nat
  BY <1>1, <1>2
<1> QED BY <1>2, <1>3

(* One turn of the loop of ExtendAssignment.                               *)
Spread(s, x, n) == [k \in 1 .. Len(s) * n |-> Assign(s[((k - 1) \div n) + 1], x, (k - 1) % n)]

(* One name more: from a list of the assignments before to a list of those *)
(* after.                                                                  *)
LEMMA ExtendOnce ==
  ASSUME NEW n \in Nat, NEW A, NEW B, NEW x, NEW s \in Lists(A),
         OneMore(A, B, x, 0 .. n - 1)
  PROVE  Spread(s, x, n) \in Lists(B)
<1> DEFINE t == Spread(s, x, n)
<1>0. s \in Seq(A) /\ A = {s[j] : j \in 1 .. Len(s)}
  BY DEF Lists
<1>1. Len(s) \in Nat /\ Len(s) * n \in Nat
  <2>1. Len(s) \in Nat
    BY <1>0
  <2> QED BY <2>1
<1>2. /\ \A k \in 1 .. Len(s) * n : ((k - 1) \div n) + 1 \in 1 .. Len(s) /\ (k - 1) % n \in 0 .. n - 1
      /\ \A j \in 1 .. Len(s), e \in 0 .. n - 1 :
           \E k \in 1 .. Len(s) * n : ((k - 1) \div n) + 1 = j /\ (k - 1) % n = e
  BY <1>1, Digits
<1>3. \A j \in 1 .. Len(s) : s[j] \in A
  BY <1>0
<1>4. /\ t = [k \in 1 .. Len(s) * n |-> t[k]]
      /\ \A k \in 1 .. Len(s) * n : t[k] = Assign(s[((k - 1) \div n) + 1], x, (k - 1) % n)
  BY DEF Spread
<1> HIDE DEF t
<1>5. \A k \in 1 .. Len(s) * n : t[k] \in B
  <2>1. \A a \in A, e \in 0 .. n - 1 : Assign(a, x, e) \in B
    BY DEF OneMore
  <2> TAKE k \in 1 .. Len(s) * n
  <2> DEFINE a == s[((k - 1) \div n) + 1]
             e == (k - 1) % n
  <2>2. a \in A /\ e \in 0 .. n - 1
    BY <1>2, <1>3
  <2>3. t[k] = Assign(a, x, e)
    BY <1>4
  <2> HIDE DEF a, e
  <2> QED BY <2>1, <2>2, <2>3
<1>6. t \in Seq(B) /\ Len(t) = Len(s) * n
  <2> DEFINE l == Len(s) * n
  <2>1. l \in Nat /\ t = [k \in 1 .. l |-> t[k]] /\ \A k \in 1 .. l : t[k] \in B
    BY <1>1, <1>4, <1>5
  <2> HIDE DEF l
  <2>2. t \in Seq(B) /\ Len(t) = l
    BY <2>1, IsSeq
  <2> QED BY <2>2 DEF l
<1>7. \A b \in B : \E k \in 1 .. Len(t) : b = t[k]
  <2> TAKE b \in B
  <2>1. PICK a \in A, e \in 0 .. n - 1 : b = Assign(a, x, e)
    BY DEF OneMore
  <2>2. PICK j \in 1 .. Len(s) : a = s[j]
    BY <1>0
  <2>3. PICK k \in 1 .. Len(s) * n : ((k - 1) \div n) + 1 = j /\ (k - 1) % n = e
    BY <1>2
  <2>4. b = t[k]
    BY <1>4, <2>1, <2>2, <2>3
  <2> QED BY <1>6, <2>4
<1>8. B = {t[k] : k \in 1 .. Len(t)}
  BY <1>5, <1>6, <1>7
<1>9. t \in Lists(B)
  BY <1>6, <1>8, ListsIs
<1> QED BY <1>9 DEF t

(* All extensions of an assignment, one after the other.                   *)
LEMMA ExtendAssignmentIs ==
  ASSUME NEW n \in Nat, NEW names, names \in Seq(Range(names)), NEW X, NEW asgn \in [X -> 0 .. n - 1]
  PROVE  ExtendAssignment(asgn, names, n) \in Lists(Agreeing(asgn, X, Range(names), 0 .. n - 1))
<1> DEFINE L == Len(names)
           V == 0 .. n - 1
           N(i) == {names[j] : j \in 1 .. i}
           Agr(i) == Agreeing(asgn, X, N(i), V)
           Ty == [i \in 0 .. L |-> Lists(Agr(i))]
           E(s, x) == Spread(s, x, n)
           G == [p \in (1 .. L) \X UNION {Ty[k] : k \in 0 .. L} |-> E(p[2], names[p[1]])]
           F(f) == [i \in 0 .. L |-> IF i = 0 THEN <<asgn>> ELSE E(f[i - 1], names[i])]
           f == CHOOSE g : g = F(g)
<1>1. L \in Nat /\ DOMAIN names = 1 .. L
  OBVIOUS
<1>2. \A i \in 0 .. L : Ty[i] = Lists(Agr(i))
  OBVIOUS
<1> HIDE DEF Ty
<1>3. \A i \in 1 .. L : \A s \in Ty[i - 1] : E(s, names[i]) \in Ty[i]
  <2> TAKE i \in 1 .. L
  <2> TAKE s \in Ty[i - 1]
  <2>1. i \in 0 .. L /\ i - 1 \in 0 .. L /\ N(i) = N(i - 1) \cup {names[i]}
    BY <1>1
  <2>2. s \in Lists(Agr(i - 1))
    BY <1>2, <2>1
  <2>3. OneMore(Agr(i - 1), Agr(i), names[i], V)
    <3> DEFINE Y == N(i - 1)
               x == names[i]
    <3>1. N(i) = Y \cup {x} /\ asgn \in [X -> V]
      BY <2>1
    <3> HIDE DEF N, Y, V, x
    <3>2. OneMore(Agreeing(asgn, X, Y, V), Agreeing(asgn, X, Y \cup {x}, V), x, V)
      BY <3>1, AgreeingOne
    <3> QED BY <3>1, <3>2 DEF Y, x
  <2> DEFINE A == Agr(i - 1)
             B == Agr(i)
             x == names[i]
  <2>4. OneMore(A, B, x, 0 .. n - 1) /\ s \in Lists(A)
    BY <2>2, <2>3
  <2> HIDE DEF A, B, x
  <2>5. Spread(s, x, n) \in Lists(B)
    BY <2>4, ExtendOnce
  <2> QED BY <1>2, <2>1, <2>5 DEF B, x
<1>4. <<asgn>> \in Ty[0]
  <2>1. N(0) = {}
    OBVIOUS
  <2>2. Agr(0) = {asgn}
    <3> HIDE DEF N
    <3>1. asgn \in Agr(0)
      BY <2>1 DEF Agreeing
    <3>2. \A a \in Agr(0) : a = asgn
      BY <2>1 DEF Agreeing
    <3> QED BY <3>1, <3>2
  <2> HIDE DEF Agr
  <2>3. <<asgn>> \in Lists(Agr(0))
    BY <2>2 DEF Lists
  <2>4. 0 \in 0 .. L
    BY <1>1
  <2> HIDE DEF L
  <2> QED BY <1>2, <2>3, <2>4
<1> HIDE DEF Agr, E, N, V
<1>5. PICK g : Ascends(g, L, Ty, <<asgn>>, G)
  <2>1. \A i \in 1 .. L : \A s \in Ty[i - 1] : G[<<i, s>>] = E(s, names[i])
    <3> TAKE i \in 1 .. L
    <3> TAKE s \in Ty[i - 1]
    <3>1. i - 1 \in 0 .. L
      BY <1>1
    <3> DEFINE p == <<i, s>>
    <3>2. p \in (1 .. L) \X UNION {Ty[k] : k \in 0 .. L}
      BY <3>1
    <3>3. p[1] = i /\ p[2] = s
      OBVIOUS
    <3> HIDE DEF p
    <3>4. G[p] = E(p[2], names[p[1]])
      BY <3>2
    <3> QED BY <3>3, <3>4 DEF p
  <2> HIDE DEF G, L
  <2>2. \A i \in 1 .. L : \A s \in Ty[i - 1] : G[<<i, s>>] \in Ty[i]
    BY <1>3, <2>1
  <2> QED BY <1>1, <1>4, <2>2, Ascent
<1>6. g = F(g)
  <2>1. \A i \in 1 .. L : g[i] = E(g[i - 1], names[i])
    <3> TAKE i \in 1 .. L
    <3>1. g[i] = G[<<i, g[i - 1]>>] /\ g[i - 1] \in Ty[i - 1] /\ i - 1 \in 0 .. L
      <4> HIDE DEF G
      <4>1. i - 1 \in 0 .. L
        BY <1>1
      <4> QED BY <1>5, <4>1 DEF Ascends
    <3> QED BY <3>1
  <2>2. g = [i \in 0 .. L |-> g[i]] /\ g[0] = <<asgn>>
    BY <1>5 DEF Ascends
  <2>3. \A i \in 0 .. L : g[i] = F(g)[i]
    <3> TAKE i \in 0 .. L
    <3>1. CASE i = 0
      BY <2>2, <3>1
    <3>2. CASE i # 0
      <4>1. i \in 1 .. L
        BY <1>1, <3>2
      <4> QED BY <2>1, <3>2, <4>1
    <3> QED BY <3>1, <3>2
  <2> QED BY <2>2, <2>3
<1>7. f = F(f)
  <2> HIDE DEF F
  <2> QED BY <1>6
<1>8. ExtendAssignment(asgn, names, n) = f[L]
  BY DEF ExtendAssignment, E, Spread
<1> HIDE DEF f
<1>9. \A i \in 0 .. L : f[i] \in Ty[i]
  <2>1. \A i \in 0 .. L : f[i] = IF i = 0 THEN <<asgn>> ELSE E(f[i - 1], names[i])
    <3> DEFINE H == F(f)
    <3>1. \A i \in 0 .. L : H[i] = IF i = 0 THEN <<asgn>> ELSE E(f[i - 1], names[i])
      OBVIOUS
    <3>2. f = H
      BY <1>7
    <3> HIDE DEF H
    <3> QED BY <3>1, <3>2
  <2>2. 0 \in 0 .. L /\ \A i \in 1 .. L : i \in 0 .. L /\ i # 0
    BY <1>1
  <2> HIDE DEF L
  <2>3. f[0] = <<asgn>> /\ \A i \in 1 .. L : f[i] = E(f[i - 1], names[i])
    BY <2>1, <2>2
  <2> DEFINE P == {i \in 0 .. L : f[i] \in Ty[i]}
  <2>4. \A i \in 1 .. L : i - 1 \in P => i \in P
    BY <1>3, <2>2, <2>3
  <2>5. 0 \in P
    BY <1>4, <2>2, <2>3
  <2>6. \A i \in 0 .. L : i \in P
    <3> HIDE DEF P
    <3> QED BY <1>1, <2>4, <2>5, Along
  <2> QED BY <2>6
<1>10. N(L) = Range(names)
  BY <1>1 DEF N, Range
<1>11. f[L] \in Lists(Agr(L))
  <2>1. L \in 0 .. L
    BY <1>1
  <2> HIDE DEF L
  <2> QED BY <1>2, <1>9, <2>1
<1> QED BY <1>8, <1>10, <1>11 DEF Agr, V

-----------------------------------------------------------------------------
(* The formula of a body                                                   *)

(* The number of blocks.                                                   *)
Depth(D) == Len(Prefix(D))

(* A domain has a finite prefix, with finitely many names in each block.   *)
LEMMA DomainIs ==
  ASSUME NEW D, IsDomain(D)
  PROVE  /\ Depth(D) \in Nat /\ DOMAIN Prefix(D) = 1 .. Depth(D)
         /\ \A i \in 1 .. Depth(D) : /\ Prefix(D)[i].names \in Seq(Range(Prefix(D)[i].names))
                                     /\ Range(Prefix(D)[i].names) = NamesOf(D, i)
<1>1. Depth(D) \in Nat /\ DOMAIN Prefix(D) = 1 .. Depth(D)
  <2> DEFINE s == Prefix(D)
  <2>1. s \in Seq(Range(s))
    BY DEF IsDomain
  <2> HIDE DEF s
  <2>2. Len(s) \in Nat /\ DOMAIN s = 1 .. Len(s)
    BY <2>1
  <2> QED BY <2>2 DEF s, Depth
<1>2. ASSUME NEW i \in 1 .. Depth(D)
      PROVE  /\ Prefix(D)[i].names \in Seq(Range(Prefix(D)[i].names))
             /\ Range(Prefix(D)[i].names) = NamesOf(D, i)
  <2>1. Range(Prefix(D)[i].names) = NamesOf(D, i)
    BY DEF Range, NamesOf
  <2>2. Prefix(D)[i].names \in Seq(NamesOf(D, i))
    BY <1>1 DEF IsDomain
  <2> QED BY <2>1, <2>2
<1> QED BY <1>1, <1>2

(* extend_assignment lists the extensions of an assignment, which the      *)
(* semantics of the quantifiers ranges over.                               *)
LEMMA ExtensionsAre ==
  ASSUME NEW D, IsDomain(D), NEW m, NEW i \in 1 .. Depth(D), NEW a \in Assignments(D, m, i)
  PROVE  /\ Extensions(D, m, a, i) \subseteq Assignments(D, m, i + 1)
         /\ m.size \in Nat => Extended(D, m, a, i) \in Lists(Extensions(D, m, a, i))
<1>1. Extensions(D, m, a, i) \subseteq Assignments(D, m, i + 1)
  BY DEF Extensions
<1>2. ASSUME m.size \in Nat
      PROVE  Extended(D, m, a, i) \in Lists(Extensions(D, m, a, i))
  <2> DEFINE X == UNION {NamesOf(D, j) : j \in 1 .. i - 1}
             names == Prefix(D)[i].names
             V == 0 .. m.size - 1
  <2>1. i \in Nat \ {0}
    BY DomainIs
  <2>2. UNION {NamesOf(D, j) : j \in 1 .. (i + 1) - 1} = X \cup NamesOf(D, i)
    <3>1. 1 .. (i + 1) - 1 = (1 .. i - 1) \cup {i}
      BY <2>1
    <3> QED BY <3>1
  <2>3. a \in [X -> V] /\ DOMAIN a = X
    BY DEF Assignments
  <2>4. Assignments(D, m, i + 1) = [X \cup NamesOf(D, i) -> V]
    BY <2>2 DEF Assignments
  <2>5. Range(names) = NamesOf(D, i) /\ names \in Seq(Range(names))
    BY DomainIs
  <2> HIDE DEF X, V, names
  <2>6. Extensions(D, m, a, i) = Agreeing(a, X, Range(names), V)
    BY <2>3, <2>4, <2>5 DEF Extensions, Agreeing
  <2>7. ExtendAssignment(a, names, m.size) \in Lists(Agreeing(a, X, Range(names), 0 .. m.size - 1))
    <3> DEFINE n == m.size
    <3>1. n \in Nat /\ a \in [X -> 0 .. n - 1]
      BY <1>2, <2>3 DEF V
    <3> HIDE DEF n
    <3>2. ExtendAssignment(a, names, n) \in Lists(Agreeing(a, X, Range(names), 0 .. n - 1))
      BY <2>5, <3>1, ExtendAssignmentIs
    <3> QED BY <3>2 DEF n
  <2> QED BY <2>6, <2>7 DEF Extended, V, names
<1> QED BY <1>1, <1>2

(* What TrueFrom says at each block of the prefix.                         *)
LEMMA TrueFromIs ==
  ASSUME NEW D, IsDomain(D), NEW b, NEW m
  PROVE  /\ \A a \in Assignments(D, m, Depth(D) + 1) :
              TrueFrom(D, b, m, a, Depth(D) + 1) = TrueUnder(D, b, m, a)
         /\ \A i \in 1 .. Depth(D) : \A a \in Assignments(D, m, i) :
              TrueFrom(D, b, m, a, i) =
                IF Prefix(D)[i].quantifier = "forall"
                THEN \A e \in Extensions(D, m, a, i) : TrueFrom(D, b, m, e, i + 1)
                ELSE \E e \in Extensions(D, m, a, i) : TrueFrom(D, b, m, e, i + 1)
<1> DEFINE n == Depth(D)
           A(i) == Assignments(D, m, i)
           Ex(a, i) == Extensions(D, m, a, i)
           All(i) == Prefix(D)[i].quantifier = "forall"
           T(a) == TrueUnder(D, b, m, a)
           Ty == [i \in 1 .. n + 1 |-> [A(i) -> BOOLEAN]]
           t == [a \in A(n + 1) |-> T(a)]
           E(i, s) == [a \in A(i) |-> IF All(i) THEN \A e \in Ex(a, i) : s[e] ELSE \E e \in Ex(a, i) : s[e]]
           G == [p \in (1 .. n) \X UNION {Ty[k] : k \in 1 .. n + 1} |-> E(p[1], p[2])]
           F(f) == [i \in 1 .. n + 1 |->
                      [a \in A(i) |->
                         IF i = n + 1 THEN T(a)
                         ELSE IF All(i) THEN \A e \in Ex(a, i) : f[i + 1][e]
                         ELSE \E e \in Ex(a, i) : f[i + 1][e]]]
           f == CHOOSE g : g = F(g)
<1>1. n \in Nat
  BY DomainIs
<1>2. \A i \in 1 .. n + 1 : Ty[i] = [A(i) -> BOOLEAN]
  OBVIOUS
<1>3. \A a : T(a) \in BOOLEAN
  BY DEF TrueUnder, IsDomain, Cnf, Naive, PDnf
<1> HIDE DEF n, A, Ex, All, T, Ty
<1>4. t \in Ty[n + 1]
  <2>1. n + 1 \in 1 .. n + 1
    BY <1>1
  <2>2. t \in [A(n + 1) -> BOOLEAN]
    BY <1>3
  <2> QED BY <1>2, <2>1, <2>2
<1>5. \A i \in 1 .. n : \A s \in Ty[i + 1] : E(i, s) \in Ty[i] /\ G[<<i, s>>] = E(i, s)
  <2> TAKE i \in 1 .. n
  <2> TAKE s \in Ty[i + 1]
  <2>1. i \in 1 .. n + 1 /\ i + 1 \in 1 .. n + 1
    BY <1>1
  <2>2. E(i, s) \in [A(i) -> BOOLEAN]
    OBVIOUS
  <2>3. G[<<i, s>>] = E(i, s)
    <3> HIDE DEF E
    <3> DEFINE p == <<i, s>>
    <3>1. p \in (1 .. n) \X UNION {Ty[k] : k \in 1 .. n + 1}
      BY <2>1
    <3>2. p[1] = i /\ p[2] = s
      OBVIOUS
    <3> HIDE DEF p
    <3>3. G[p] = E(p[1], p[2])
      BY <3>1
    <3> QED BY <3>2, <3>3 DEF p
  <2> QED BY <1>2, <2>1, <2>2, <2>3
<1>6. PICK g : Descends(g, n, Ty, t, G)
  <2> HIDE DEF G, E, t
  <2>1. \A i \in 1 .. n : \A s \in Ty[i + 1] : G[<<i, s>>] \in Ty[i]
    BY <1>5
  <2> QED BY <1>1, <1>4, <2>1, Descent
<1>7. g = F(g)
  <2>1. \A i \in 1 .. n : g[i] = E(i, g[i + 1])
    <3> HIDE DEF G, E
    <3> TAKE i \in 1 .. n
    <3>1. i + 1 \in 1 .. n + 1
      BY <1>1
    <3>2. g[i] = G[<<i, g[i + 1]>>] /\ g[i + 1] \in Ty[i + 1]
      BY <1>6, <3>1 DEF Descends
    <3> QED BY <1>5, <3>2
  <2>2. g = [i \in 1 .. n + 1 |-> g[i]] /\ g[n + 1] = t
    BY <1>6 DEF Descends
  <2>3. \A i \in 1 .. n + 1 : g[i] = F(g)[i]
    <3> TAKE i \in 1 .. n + 1
    <3>1. CASE i = n + 1
      BY <2>2, <3>1
    <3>2. CASE i # n + 1
      <4>1. i \in 1 .. n
        BY <1>1, <3>2
      <4> QED BY <2>1, <3>2, <4>1
    <3> QED BY <3>1, <3>2
  <2> QED BY <2>2, <2>3
<1>8. f = F(f)
  <2> HIDE DEF F
  <2> QED BY <1>7
<1>9. \A i, a : TrueFrom(D, b, m, a, i) = f[i][a]
  BY DEF TrueFrom, n, A, Ex, All, T, Depth
<1> HIDE DEF f
<1>10. /\ \A a \in A(n + 1) : f[n + 1][a] = T(a)
       /\ \A i \in 1 .. n : \A a \in A(i) :
            f[i][a] = IF All(i) THEN \A e \in Ex(a, i) : f[i + 1][e] ELSE \E e \in Ex(a, i) : f[i + 1][e]
  <2> DEFINE H == F(f)
  <2>1. \A i \in 1 .. n + 1 : \A a \in A(i) :
          H[i][a] = IF i = n + 1 THEN T(a)
                    ELSE IF All(i) THEN \A e \in Ex(a, i) : f[i + 1][e]
                    ELSE \E e \in Ex(a, i) : f[i + 1][e]
    OBVIOUS
  <2>2. f = H
    BY <1>8
  <2> HIDE DEF H
  <2>3. \A i \in 1 .. n + 1 : \A a \in A(i) :
          f[i][a] = IF i = n + 1 THEN T(a)
                    ELSE IF All(i) THEN \A e \in Ex(a, i) : f[i + 1][e]
                    ELSE \E e \in Ex(a, i) : f[i + 1][e]
    BY <2>1, <2>2
  <2>4. n + 1 \in 1 .. n + 1 /\ \A i \in 1 .. n : i \in 1 .. n + 1 /\ i # n + 1
    BY <1>1
  <2> QED BY <2>3, <2>4
<1>11. \A a \in A(n + 1) : TrueFrom(D, b, m, a, n + 1) = T(a)
  BY <1>9, <1>10
<1>12. \A i \in 1 .. n : \A a \in A(i) :
         TrueFrom(D, b, m, a, i) =
           IF All(i) THEN \A e \in Ex(a, i) : TrueFrom(D, b, m, e, i + 1)
                     ELSE \E e \in Ex(a, i) : TrueFrom(D, b, m, e, i + 1)
  <2> TAKE i \in 1 .. n
  <2> TAKE a \in A(i)
  <2> DEFINE P(e) == TrueFrom(D, b, m, e, i + 1)
  <2>1. TrueFrom(D, b, m, a, i) = f[i][a] /\ \A e : P(e) = f[i + 1][e]
    BY <1>9
  <2> HIDE DEF P
  <2>2. f[i][a] = IF All(i) THEN \A e \in Ex(a, i) : f[i + 1][e] ELSE \E e \in Ex(a, i) : f[i + 1][e]
    BY <1>10
  <2>3. CASE All(i)
    <3>1. f[i][a] = \A e \in Ex(a, i) : f[i + 1][e]
      BY <2>2, <2>3
    <3>2. TrueFrom(D, b, m, a, i) = \A e \in Ex(a, i) : P(e)
      BY <2>1, <3>1
    <3> QED BY <2>3, <3>2 DEF P
  <2>4. CASE ~All(i)
    <3>1. f[i][a] = \E e \in Ex(a, i) : f[i + 1][e]
      BY <2>2, <2>4
    <3>2. TrueFrom(D, b, m, a, i) = \E e \in Ex(a, i) : P(e)
      BY <2>1, <3>1
    <3> QED BY <2>4, <3>2 DEF P
  <2> QED BY <2>3, <2>4
<1> QED BY <1>11, <1>12 DEF n, A, Ex, T, All

-----------------------------------------------------------------------------
(* The bodies that do not hold                                             *)

(* The cube of an assignment are the literals that hold under it, the      *)
(* negated one those that do not.                                          *)
LEMMA CubeIs ==
  ASSUME NEW D, NEW m, NEW a
  PROVE  /\ Cube(D, m, a) \subseteq Literals(D)
         /\ \A l \in Literals(D) : /\ l \in Cube(D, m, a) <=> Eval(l[1], m, a) = l[2]
                                   /\ l \in NegCube(D, m, a) <=> Eval(l[1], m, a) # l[2]
<1>1. \A at : Eval(at, m, a) \in BOOLEAN
  <2> TAKE at
  <2>1. CASE at[1] = "eq"
    <3>1. Eval(at, m, a) = (a[at[2]] = a[at[3]])
      BY <2>1 DEF Eval
    <3> QED BY <3>1
  <2>2. CASE at[1] # "eq"
    <3>1. Eval(at, m, a) = ([i \in 1 .. Len(at) - 1 |-> a[at[i + 1]]] \in m.holds[at[1]])
      BY <2>2 DEF Eval
    <3> QED BY <3>1
  <2> QED BY <2>1, <2>2
<1>2. \A l \in Literals(D) : l[1] \in D.atoms /\ l[2] \in BOOLEAN /\ l = <<l[1], l[2]>>
  BY DEF Literals
<1>3. \A l \in Literals(D) : l \in Cube(D, m, a) <=> Eval(l[1], m, a) = l[2]
  <2> TAKE l \in Literals(D)
  <2>1. l \in Cube(D, m, a) <=> \E at \in D.atoms : l = <<at, Eval(at, m, a)>>
    BY DEF Cube
  <2> QED BY <1>2, <2>1
<1>4. \A l \in Literals(D) : l \in NegCube(D, m, a) <=> Eval(l[1], m, a) # l[2]
  <2> TAKE l \in Literals(D)
  <2>1. NegCube(D, m, a) = {<<at, ~Eval(at, m, a)>> : at \in D.atoms}
    <3> DEFINE C == Cube(D, m, a)
    <3>1. C = {<<at, Eval(at, m, a)>> : at \in D.atoms}
      BY DEF Cube
    <3>2. \A at : Neg(<<at, Eval(at, m, a)>>) = <<at, ~Eval(at, m, a)>>
      BY DEF Neg
    <3> HIDE DEF C
    <3>3. NegCube(D, m, a) = {Neg(k) : k \in C}
      BY DEF NegCube, Negs, C
    <3> DEFINE g(at) == <<at, Eval(at, m, a)>>
               h(at) == <<at, ~Eval(at, m, a)>>
    <3>4. C = {g(at) : at \in D.atoms} /\ \A at : Neg(g(at)) = h(at)
      BY <3>1, <3>2
    <3> HIDE DEF g, h
    <3>5. {Neg(k) : k \in C} = {h(at) : at \in D.atoms}
      BY <3>4
    <3> QED BY <3>3, <3>5 DEF h
  <2>2. l \in NegCube(D, m, a) <=> \E at \in D.atoms : l = <<at, ~Eval(at, m, a)>>
    BY <2>1
  <2>3. (l[2] = ~Eval(l[1], m, a)) <=> Eval(l[1], m, a) # l[2]
    BY <1>1, <1>2
  <2> QED BY <1>2, <2>2, <2>3
<1>5. Cube(D, m, a) \subseteq Literals(D)
  BY <1>1 DEF Cube, Literals
<1> QED BY <1>3, <1>4, <1>5

(* The strongest bodies that the clause of false literals implies are the  *)
(* false ones.                                                             *)
LEMMA SubsumesFalse ==
  ASSUME NEW D, IsDomain(D), NEW m, NEW a, NEW b \in Bodies(D)
  PROVE  Subsumes(D, b, FromBase(D, FromClause(D, NegCube(D, m, a)))) <=> ~TrueUnder(D, b, m, a)
<1> DEFINE ls == NegCube(D, m, a)
<1>1. \A l \in Literals(D) : l \in ls <=> Eval(l[1], m, a) # l[2]
  BY CubeIs
<1> HIDE DEF ls
<1>2. Smallest({ls}) = {ls} /\ Smallest({{l} : l \in ls}) = {{l} : l \in ls}
  <2>1. \A c, d \in {{l} : l \in ls} : d \subseteq c => d = c
    OBVIOUS
  <2> QED BY <2>1 DEF Smallest
<1>3. CASE D.kind = "cnf"
  <2>1. b \subseteq SUBSET Literals(D)
    BY <1>3 DEF Bodies, PDnf
  <2>2. FromBase(D, FromClause(D, ls)) = {ls}
    BY <1>2, <1>3 DEF FromBase, FromClause, PDnf, Cnf, Naive
  <2>3. Subsumes(D, b, {ls}) <=> \E c \in b : c \subseteq ls
    BY <1>3 DEF Subsumes, PDnf, Cnf, Naive
  <2>4. TrueUnder(D, b, m, a) <=> \A c \in b : \E l \in c : Eval(l[1], m, a) = l[2]
    BY <1>3 DEF TrueUnder, PDnf, Cnf, Naive
  <2>5. \A c \in b : c \subseteq ls <=> ~\E l \in c : Eval(l[1], m, a) = l[2]
    BY <1>1, <2>1
  <2> QED BY <2>2, <2>3, <2>4, <2>5 DEF ls
<1>4. CASE D.kind = "naive"
  <2> DEFINE un == {{l} : l \in ls}
  <2>1. b \subseteq SUBSET Literals(D)
    BY <1>4 DEF Bodies, PDnf
  <2>2. FromBase(D, FromClause(D, ls)) = un
    BY <1>2, <1>4 DEF FromBase, FromClause, PDnf, Cnf, Naive
  <2>3. Subsumes(D, b, un) <=> \A c \in b : \E d \in un : d \subseteq c
    BY <1>4 DEF Subsumes, PDnf, Cnf, Naive
  <2>4. TrueUnder(D, b, m, a) <=> \E c \in b : \A l \in c : Eval(l[1], m, a) = l[2]
    BY <1>4 DEF TrueUnder, PDnf, Cnf, Naive
  <2>5. \A c \in b : (\E d \in un : d \subseteq c) <=> ~\A l \in c : Eval(l[1], m, a) = l[2]
    <3> TAKE c \in b
    <3>1. (\E d \in un : d \subseteq c) <=> \E l \in c : l \in ls
      <4>1. ASSUME NEW d \in un, d \subseteq c PROVE \E l \in c : l \in ls
        <5>1. PICK l \in ls : d = {l}
          OBVIOUS
        <5> QED BY <4>1, <5>1
      <4>2. ASSUME NEW l \in c, l \in ls PROVE \E d \in un : d \subseteq c
        <5>1. {l} \in un /\ {l} \subseteq c
          BY <4>2
        <5> QED BY <5>1
      <4> HIDE DEF un
      <4> QED BY <4>1, <4>2
    <3> HIDE DEF un
    <3> QED BY <1>1, <2>1, <3>1
  <2> HIDE DEF un
  <2> QED BY <2>2, <2>3, <2>4, <2>5 DEF ls
<1>5. CASE D.kind = "pdnf"
  <2> DEFINE un == {{l} : l \in ls}
  <2>1. b.units \subseteq Literals(D) /\ b.cubes \subseteq SUBSET Literals(D)
    BY <1>5 DEF Bodies, PDnf
  <2>2. FromBase(D, FromClause(D, ls)) = [units |-> ls, cubes |-> un]
    BY <1>2, <1>5 DEF FromBase, FromClause, PDnf, Cnf, Naive
  <2>3. Subsumes(D, b, [units |-> ls, cubes |-> un]) <=>
          b.units \subseteq ls /\ \A c \in b.cubes : \E d \in un : d \subseteq c
    BY <1>5 DEF Subsumes, PDnf, Cnf, Naive
  <2>4. TrueUnder(D, b, m, a) <=> \/ \E l \in b.units : Eval(l[1], m, a) = l[2]
                                  \/ \E c \in b.cubes : \A l \in c : Eval(l[1], m, a) = l[2]
    BY <1>5 DEF TrueUnder, PDnf, Cnf, Naive
  <2>5. \A c \in b.cubes : (\E d \in un : d \subseteq c) <=> ~\A l \in c : Eval(l[1], m, a) = l[2]
    <3> TAKE c \in b.cubes
    <3>1. (\E d \in un : d \subseteq c) <=> \E l \in c : l \in ls
      <4>1. ASSUME NEW d \in un, d \subseteq c PROVE \E l \in c : l \in ls
        <5>1. PICK l \in ls : d = {l}
          OBVIOUS
        <5> QED BY <4>1, <5>1
      <4>2. ASSUME NEW l \in c, l \in ls PROVE \E d \in un : d \subseteq c
        <5>1. {l} \in un /\ {l} \subseteq c
          BY <4>2
        <5> QED BY <5>1
      <4> HIDE DEF un
      <4> QED BY <4>1, <4>2
    <3> HIDE DEF un
    <3> QED BY <1>1, <2>1, <3>1
  <2>6. b.units \subseteq ls <=> ~\E l \in b.units : Eval(l[1], m, a) = l[2]
    BY <1>1, <2>1
  <2> HIDE DEF un
  <2> QED BY <2>2, <2>3, <2>4, <2>5, <2>6 DEF ls
<1> QED BY <1>3, <1>4, <1>5 DEF IsDomain

(* The elements of a list of a set.                                        *)
LEMMA ListsRange ==
  ASSUME NEW S, NEW s \in Lists(S)
  PROVE  Range(s) = S
<1>1. s \in Seq(S) /\ S = {s[k] : k \in 1 .. Len(s)}
  BY ListsIs
<1> QED BY <1>1 DEF Range

(* What Unsat says at each block of the prefix.                            *)
LEMMA UnsatIs ==
  ASSUME NEW D, IsDomain(D), NEW set, NEW m, m.size \in Nat
  PROVE  /\ \A a \in Assignments(D, m, Depth(D) + 1) : \A b :
              b \in Unsat(D, set, m, a, Depth(D) + 1) <=>
                b \in set /\ Subsumes(D, b, FromBase(D, FromClause(D, NegCube(D, m, a))))
         /\ \A i \in 1 .. Depth(D) : \A a \in Assignments(D, m, i) : \A b :
              b \in Unsat(D, set, m, a, i) <=>
                IF Prefix(D)[i].quantifier = "forall"
                THEN \E e \in Extensions(D, m, a, i) : b \in Unsat(D, set, m, e, i + 1)
                ELSE b \in set /\ \A e \in Extensions(D, m, a, i) : b \in Unsat(D, set, m, e, i + 1)
<1> DEFINE n == Depth(D)
           A(i) == Assignments(D, m, i)
           Ex(a, i) == Range(Extended(D, m, a, i))
           All(i) == Prefix(D)[i].quantifier = "forall"
           T(a) == {b \in set : Subsumes(D, b, FromBase(D, FromClause(D, NegCube(D, m, a))))}
           Ty == [i \in 1 .. n + 1 |-> [A(i) -> SUBSET set]]
           t == [a \in A(n + 1) |-> T(a)]
           E(i, s) == [a \in A(i) |-> IF All(i) THEN UNION {s[e] : e \in Ex(a, i)}
                                      ELSE {b \in set : \A e \in Ex(a, i) : b \in s[e]}]
           G == [p \in (1 .. n) \X UNION {Ty[k] : k \in 1 .. n + 1} |-> E(p[1], p[2])]
           F(f) == [i \in 1 .. n + 1 |->
                      [a \in A(i) |->
                         IF i = n + 1 THEN T(a)
                         ELSE IF All(i) THEN UNION {f[i + 1][e] : e \in Ex(a, i)}
                         ELSE {b \in set : \A e \in Ex(a, i) : b \in f[i + 1][e]}]]
           f == CHOOSE g : g = F(g)
<1>1. n \in Nat
  BY DomainIs
<1>2. \A i \in 1 .. n + 1 : Ty[i] = [A(i) -> SUBSET set]
  OBVIOUS
<1>3. \A a : T(a) \subseteq set
  OBVIOUS
<1>3a. \A i \in 1 .. n : \A a \in A(i) : Ex(a, i) = Extensions(D, m, a, i) /\ Ex(a, i) \subseteq A(i + 1)
  <2> TAKE i \in 1 .. n
  <2> TAKE a \in A(i)
  <2>1. /\ Extensions(D, m, a, i) \subseteq Assignments(D, m, i + 1)
        /\ Extended(D, m, a, i) \in Lists(Extensions(D, m, a, i))
    BY ExtensionsAre
  <2>2. Range(Extended(D, m, a, i)) = Extensions(D, m, a, i)
    BY <2>1, ListsRange
  <2> QED BY <2>1, <2>2
<1> HIDE DEF n, A, Ex, All, T, Ty
<1>4. t \in Ty[n + 1]
  <2>1. n + 1 \in 1 .. n + 1
    BY <1>1
  <2>2. t \in [A(n + 1) -> SUBSET set]
    BY <1>3
  <2> QED BY <1>2, <2>1, <2>2
<1>5. \A i \in 1 .. n : \A s \in Ty[i + 1] : E(i, s) \in Ty[i] /\ G[<<i, s>>] = E(i, s)
  <2> TAKE i \in 1 .. n
  <2> TAKE s \in Ty[i + 1]
  <2>1. i \in 1 .. n + 1 /\ i + 1 \in 1 .. n + 1
    BY <1>1
  <2>2. \A e \in A(i + 1) : s[e] \subseteq set
    BY <1>2, <2>1
  <2>3. \A a \in A(i) : E(i, s)[a] \subseteq set
    BY <1>3a, <2>2
  <2>4. E(i, s) \in [A(i) -> SUBSET set]
    BY <2>3
  <2>5. G[<<i, s>>] = E(i, s)
    <3> HIDE DEF E
    <3> DEFINE p == <<i, s>>
    <3>1. p \in (1 .. n) \X UNION {Ty[k] : k \in 1 .. n + 1}
      BY <2>1
    <3>2. p[1] = i /\ p[2] = s
      OBVIOUS
    <3> HIDE DEF p
    <3>3. G[p] = E(p[1], p[2])
      BY <3>1
    <3> QED BY <3>2, <3>3 DEF p
  <2> QED BY <1>2, <2>1, <2>4, <2>5
<1>6. PICK g : Descends(g, n, Ty, t, G)
  <2> HIDE DEF G, E, t
  <2>1. \A i \in 1 .. n : \A s \in Ty[i + 1] : G[<<i, s>>] \in Ty[i]
    BY <1>5
  <2> QED BY <1>1, <1>4, <2>1, Descent
<1>7. g = F(g)
  <2>1. \A i \in 1 .. n : g[i] = E(i, g[i + 1])
    <3> HIDE DEF G, E
    <3> TAKE i \in 1 .. n
    <3>1. i + 1 \in 1 .. n + 1
      BY <1>1
    <3>2. g[i] = G[<<i, g[i + 1]>>] /\ g[i + 1] \in Ty[i + 1]
      BY <1>6, <3>1 DEF Descends
    <3> QED BY <1>5, <3>2
  <2>2. g = [i \in 1 .. n + 1 |-> g[i]] /\ g[n + 1] = t
    BY <1>6 DEF Descends
  <2>3. \A i \in 1 .. n + 1 : g[i] = F(g)[i]
    <3> TAKE i \in 1 .. n + 1
    <3>1. CASE i = n + 1
      BY <2>2, <3>1
    <3>2. CASE i # n + 1
      <4>1. i \in 1 .. n
        BY <1>1, <3>2
      <4> QED BY <2>1, <3>2, <4>1
    <3> QED BY <3>1, <3>2
  <2> QED BY <2>2, <2>3
<1>8. f = F(f)
  <2> HIDE DEF F
  <2> QED BY <1>7
<1>9. \A i, a : Unsat(D, set, m, a, i) = f[i][a]
  BY DEF Unsat, n, A, Ex, All, T, Depth
<1> HIDE DEF f
<1>10. /\ \A a \in A(n + 1) : f[n + 1][a] = T(a)
       /\ \A i \in 1 .. n : \A a \in A(i) :
            f[i][a] = IF All(i) THEN UNION {f[i + 1][e] : e \in Ex(a, i)}
                      ELSE {b \in set : \A e \in Ex(a, i) : b \in f[i + 1][e]}
  <2> DEFINE H == F(f)
  <2>1. \A i \in 1 .. n + 1 : \A a \in A(i) :
          H[i][a] = IF i = n + 1 THEN T(a)
                    ELSE IF All(i) THEN UNION {f[i + 1][e] : e \in Ex(a, i)}
                    ELSE {b \in set : \A e \in Ex(a, i) : b \in f[i + 1][e]}
    OBVIOUS
  <2>2. f = H
    BY <1>8
  <2> HIDE DEF H
  <2>3. \A i \in 1 .. n + 1 : \A a \in A(i) :
          f[i][a] = IF i = n + 1 THEN T(a)
                    ELSE IF All(i) THEN UNION {f[i + 1][e] : e \in Ex(a, i)}
                    ELSE {b \in set : \A e \in Ex(a, i) : b \in f[i + 1][e]}
    BY <2>1, <2>2
  <2>4. n + 1 \in 1 .. n + 1 /\ \A i \in 1 .. n : i \in 1 .. n + 1 /\ i # n + 1
    BY <1>1
  <2> QED BY <2>3, <2>4
<1>11. \A a \in A(n + 1) : Unsat(D, set, m, a, n + 1) = T(a)
  BY <1>9, <1>10
<1>12. \A i \in 1 .. n : \A a \in A(i) :
         Unsat(D, set, m, a, i) =
           IF All(i) THEN UNION {Unsat(D, set, m, e, i + 1) : e \in Ex(a, i)}
           ELSE {b \in set : \A e \in Ex(a, i) : b \in Unsat(D, set, m, e, i + 1)}
  <2> TAKE i \in 1 .. n
  <2> TAKE a \in A(i)
  <2> DEFINE P(e) == Unsat(D, set, m, e, i + 1)
  <2>1. Unsat(D, set, m, a, i) = f[i][a] /\ \A e : P(e) = f[i + 1][e]
    BY <1>9
  <2> HIDE DEF P
  <2>2. f[i][a] = IF All(i) THEN UNION {f[i + 1][e] : e \in Ex(a, i)}
                  ELSE {b \in set : \A e \in Ex(a, i) : b \in f[i + 1][e]}
    BY <1>10
  <2>3. CASE All(i)
    <3>1. f[i][a] = UNION {f[i + 1][e] : e \in Ex(a, i)}
      BY <2>2, <2>3
    <3>2. Unsat(D, set, m, a, i) = UNION {P(e) : e \in Ex(a, i)}
      BY <2>1, <3>1
    <3> QED BY <2>3, <3>2 DEF P
  <2>4. CASE ~All(i)
    <3>1. f[i][a] = {b \in set : \A e \in Ex(a, i) : b \in f[i + 1][e]}
      BY <2>2, <2>4
    <3>2. Unsat(D, set, m, a, i) = {b \in set : \A e \in Ex(a, i) : b \in P(e)}
      BY <2>1, <3>1
    <3> QED BY <2>4, <3>2 DEF P
  <2> QED BY <2>3, <2>4
<1>13. \A a \in Assignments(D, m, Depth(D) + 1) : \A b :
         b \in Unsat(D, set, m, a, Depth(D) + 1) <=>
           b \in set /\ Subsumes(D, b, FromBase(D, FromClause(D, NegCube(D, m, a))))
  BY <1>11 DEF n, A, T
<1>14. ASSUME NEW i \in 1 .. Depth(D), NEW a \in Assignments(D, m, i), NEW b
       PROVE  b \in Unsat(D, set, m, a, i) <=>
                IF Prefix(D)[i].quantifier = "forall"
                THEN \E e \in Extensions(D, m, a, i) : b \in Unsat(D, set, m, e, i + 1)
                ELSE b \in set /\ \A e \in Extensions(D, m, a, i) : b \in Unsat(D, set, m, e, i + 1)
  <2> DEFINE X == Extensions(D, m, a, i)
             U(e) == Unsat(D, set, m, e, i + 1)
  <2>1. i \in 1 .. n /\ a \in A(i) /\ Ex(a, i) = X
    BY <1>3a DEF n, A
  <2>2. Unsat(D, set, m, a, i) = IF All(i) THEN UNION {U(e) : e \in X} ELSE {c \in set : \A e \in X : c \in U(e)}
    BY <1>12, <2>1
  <2> HIDE DEF X, U
  <2>3. CASE All(i)
    <3>1. b \in Unsat(D, set, m, a, i) <=> \E e \in X : b \in U(e)
      BY <2>2, <2>3
    <3> QED BY <2>3, <3>1 DEF X, U, All
  <2>4. CASE ~All(i)
    <3>1. b \in Unsat(D, set, m, a, i) <=> b \in set /\ \A e \in X : b \in U(e)
      BY <2>2, <2>4
    <3> QED BY <2>4, <3>1 DEF X, U, All
  <2> QED BY <2>3, <2>4
<1> QED BY <1>13, <1>14

(* Unsat finds the bodies that do not hold from a block on.                *)
LEMMA UnsatExact ==
  ASSUME NEW D, IsDomain(D), NEW set \in SUBSET Bodies(D), NEW m, m.size \in Nat
  PROVE  \A i \in 1 .. Depth(D) + 1 : \A a \in Assignments(D, m, i) :
           Unsat(D, set, m, a, i) = {b \in set : ~TrueFrom(D, b, m, a, i)}
<1> DEFINE n == Depth(D)
           P == {i \in 1 .. n + 1 : \A a \in Assignments(D, m, i) :
                   Unsat(D, set, m, a, i) = {b \in set : ~TrueFrom(D, b, m, a, i)}}
<1>1. n \in Nat
  BY DomainIs
<1>2. n + 1 \in P
  <2>1. ASSUME NEW a \in Assignments(D, m, n + 1)
        PROVE  Unsat(D, set, m, a, n + 1) = {b \in set : ~TrueFrom(D, b, m, a, n + 1)}
    <3>1. \A b : b \in Unsat(D, set, m, a, n + 1) <=>
                    b \in set /\ Subsumes(D, b, FromBase(D, FromClause(D, NegCube(D, m, a))))
      BY UnsatIs
    <3>2. \A b \in set : TrueFrom(D, b, m, a, n + 1) = TrueUnder(D, b, m, a)
      BY TrueFromIs
    <3>3. \A b \in set : Subsumes(D, b, FromBase(D, FromClause(D, NegCube(D, m, a)))) <=> ~TrueUnder(D, b, m, a)
      BY SubsumesFalse
    <3> QED BY <3>1, <3>2, <3>3
  <2>2. n + 1 \in 1 .. n + 1
    BY <1>1
  <2> QED BY <2>1, <2>2
<1>3. ASSUME NEW i \in 1 .. n, i + 1 \in P PROVE i \in P
  <2>1. i \in 1 .. n + 1
    BY <1>1
  <2>2. ASSUME NEW a \in Assignments(D, m, i)
        PROVE  Unsat(D, set, m, a, i) = {b \in set : ~TrueFrom(D, b, m, a, i)}
    <3> DEFINE X == Extensions(D, m, a, i)
               U(e) == Unsat(D, set, m, e, i + 1)
               T(b, e) == TrueFrom(D, b, m, e, i + 1)
    <3>1. X \subseteq Assignments(D, m, i + 1)
      BY ExtensionsAre
    <3>2. \A e \in X : U(e) = {b \in set : ~T(b, e)}
      BY <1>3, <3>1
    <3>3. CASE Prefix(D)[i].quantifier = "forall"
      <4>1. \A b : b \in Unsat(D, set, m, a, i) <=> \E e \in X : b \in U(e)
        BY <3>3, UnsatIs
      <4>2. \A b : TrueFrom(D, b, m, a, i) = \A e \in X : T(b, e)
        BY <3>3, TrueFromIs
      <4> HIDE DEF X, U, T
      <4> QED BY <3>2, <4>1, <4>2
    <3>4. CASE Prefix(D)[i].quantifier # "forall"
      <4>1. \A b : b \in Unsat(D, set, m, a, i) <=> b \in set /\ \A e \in X : b \in U(e)
        BY <3>4, UnsatIs
      <4>2. \A b : TrueFrom(D, b, m, a, i) = \E e \in X : T(b, e)
        BY <3>4, TrueFromIs
      <4> HIDE DEF X, U, T
      <4> QED BY <3>2, <4>1, <4>2
    <3> QED BY <3>3, <3>4
  <2> QED BY <2>1, <2>2
<1>4. \A i \in 1 .. n + 1 : i \in P
  <2> HIDE DEF P, n
  <2> QED BY <1>1, <1>2, <1>3, Back
<1> QED BY <1>4

-----------------------------------------------------------------------------
(* Weaker bodies                                                           *)

(* w follows from b, whatever the model and the assignment.                *)
Weaker(D, b, w) == \A m, a : TrueUnder(D, b, m, a) => TrueUnder(D, w, m, a)

(* What is weaker is so under the quantifiers too.                         *)
LEMMA WeakerFrom ==
  ASSUME NEW D, IsDomain(D), NEW b, NEW w, Weaker(D, b, w), NEW m
  PROVE  \A i \in 1 .. Depth(D) + 1 : \A a \in Assignments(D, m, i) :
           TrueFrom(D, b, m, a, i) => TrueFrom(D, w, m, a, i)
<1> DEFINE n == Depth(D)
           P == {i \in 1 .. n + 1 : \A a \in Assignments(D, m, i) :
                   TrueFrom(D, b, m, a, i) => TrueFrom(D, w, m, a, i)}
<1>1. n \in Nat
  BY DomainIs
<1>2. n + 1 \in P
  <2>1. ASSUME NEW a \in Assignments(D, m, n + 1), TrueFrom(D, b, m, a, n + 1)
        PROVE  TrueFrom(D, w, m, a, n + 1)
    <3>1. /\ TrueFrom(D, b, m, a, n + 1) = TrueUnder(D, b, m, a)
          /\ TrueFrom(D, w, m, a, n + 1) = TrueUnder(D, w, m, a)
      BY TrueFromIs
    <3> QED BY <2>1, <3>1 DEF Weaker
  <2>2. n + 1 \in 1 .. n + 1
    BY <1>1
  <2> QED BY <2>1, <2>2
<1>3. ASSUME NEW i \in 1 .. n, i + 1 \in P PROVE i \in P
  <2>1. i \in 1 .. n + 1
    BY <1>1
  <2>2. ASSUME NEW a \in Assignments(D, m, i), TrueFrom(D, b, m, a, i)
        PROVE  TrueFrom(D, w, m, a, i)
    <3> DEFINE X == Extensions(D, m, a, i)
               T(c, e) == TrueFrom(D, c, m, e, i + 1)
    <3>1. X \subseteq Assignments(D, m, i + 1)
      BY ExtensionsAre
    <3>2. \A e \in X : T(b, e) => T(w, e)
      BY <1>3, <3>1
    <3>3. CASE Prefix(D)[i].quantifier = "forall"
      <4>1. \A c : TrueFrom(D, c, m, a, i) = \A e \in X : T(c, e)
        BY <3>3, TrueFromIs
      <4> HIDE DEF X, T
      <4> QED BY <2>2, <3>2, <4>1
    <3>4. CASE Prefix(D)[i].quantifier # "forall"
      <4>1. \A c : TrueFrom(D, c, m, a, i) = \E e \in X : T(c, e)
        BY <3>4, TrueFromIs
      <4> HIDE DEF X, T
      <4> QED BY <2>2, <3>2, <4>1
    <3> QED BY <3>3, <3>4
  <2> QED BY <2>1, <2>2
<1>4. \A i \in 1 .. n + 1 : i \in P
  <2> HIDE DEF P, n
  <2> QED BY <1>1, <1>2, <1>3, Back
<1> QED BY <1>4

(* What is true does not depend on the redundant sets of literals.         *)
LEMMA SmallestBelow ==
  ASSUME NEW L, IsFiniteSet(L), NEW S \in SUBSET SUBSET L, NEW c \in S
  PROVE  \E d \in Smallest(S) : d \subseteq c
<1> DEFINE Below == {d \in S : d \subseteq c}
           Sizes == {Cardinality(d) : d \in Below}
<1>1. \A d \in S : IsFiniteSet(d) /\ Cardinality(d) \in Nat
  BY FS_Subset, FS_CardinalityType
<1>2. Sizes \in SUBSET Nat /\ Sizes # {}
  <2>1. c \in Below
    OBVIOUS
  <2> QED BY <1>1, <2>1
<1>3. PICK n \in Sizes : \A k \in Sizes : n <= k
  <2> HIDE DEF Sizes
  <2> QED BY <1>2, LeastNat
<1>4. PICK d \in Below : n = Cardinality(d)
  OBVIOUS
<1>5. ASSUME NEW e \in S, e # d, e \subseteq d PROVE FALSE
  <2>1. e \in Below /\ Cardinality(e) \in Sizes
    BY <1>4, <1>5
  <2>2. Cardinality(d) <= Cardinality(e)
    BY <1>3, <1>4, <2>1
  <2>3. Cardinality(e) <= Cardinality(d) /\ (Cardinality(e) = Cardinality(d) => e = d)
    BY <1>1, <1>4, <1>5, FS_Subset
  <2> QED BY <1>1, <1>4, <1>5, <2>2, <2>3
<1> QED BY <1>4, <1>5 DEF Smallest

(* There are finitely many literals and bodies.                            *)
LEMMA LiteralsFinite ==
  ASSUME NEW D, IsDomain(D)
  PROVE  IsFiniteSet(Literals(D)) /\ IsFiniteSet(Bodies(D))
<1> DEFINE L == Literals(D)
           S == SUBSET L
           C == SUBSET S
<1>1. IsFiniteSet(L)
  <2>1. IsFiniteSet(D.atoms)
    BY DEF IsDomain
  <2>2. IsFiniteSet({TRUE, FALSE}) /\ BOOLEAN = {TRUE, FALSE}
    <3>1. IsFiniteSet({TRUE} \cup {FALSE})
      BY FS_AddElement, FS_Singleton
    <3>2. {TRUE} \cup {FALSE} = {TRUE, FALSE} /\ BOOLEAN = {TRUE, FALSE}
      OBVIOUS
    <3> QED BY <3>1, <3>2
  <2> QED BY <2>1, <2>2, FS_Product DEF Literals
<1>2. IsFiniteSet(S)
  <2> HIDE DEF L
  <2> QED BY <1>1, FS_SUBSET
<1>3. IsFiniteSet(C)
  <2> HIDE DEF S
  <2> QED BY <1>2, FS_SUBSET
<1> HIDE DEF L, S, C
<1>4. CASE PDnf(D)
  <2> DEFINE R == [units : S, cubes : C]
             f == [p \in S \X C |-> [units |-> p[1], cubes |-> p[2]]]
  <2>1. IsFiniteSet(S \X C)
    BY <1>2, <1>3, FS_Product
  <2>2. f \in Surjection(S \X C, R)
    <3>1. \A p \in S \X C : f[p] \in R
      OBVIOUS
    <3>2. \A r \in R : \E p \in S \X C : f[p] = r
      <4> TAKE r \in R
      <4>1. <<r.units, r.cubes>> \in S \X C /\ r = [units |-> r.units, cubes |-> r.cubes]
        OBVIOUS
      <4>2. f[<<r.units, r.cubes>>] = r
        BY <4>1
      <4> QED BY <4>1, <4>2
    <3>3. f \in [S \X C -> R]
      BY <3>1
    <3> HIDE DEF f, R
    <3> QED BY <3>2, <3>3 DEF Surjection
  <2>3. IsFiniteSet(R)
    <3> HIDE DEF f, R
    <3> QED BY <2>1, <2>2, FS_Surjection
  <2> QED BY <1>1, <1>4, <2>3 DEF Bodies, L, S, C
<1>5. CASE ~PDnf(D)
  BY <1>1, <1>3, <1>5 DEF Bodies, L, S, C
<1> QED BY <1>4, <1>5

(* from_base drops elements of a body and keeps its meaning.               *)
LEMMA FromBaseIs ==
  ASSUME NEW D, IsDomain(D), NEW b \in Bodies(D)
  PROVE  /\ FromBase(D, b) \in Bodies(D)
         /\ \A m, a : TrueUnder(D, FromBase(D, b), m, a) <=> TrueUnder(D, b, m, a)
<1>0. \A S : Smallest(S) \subseteq S
  BY DEF Smallest
<1>1. CASE D.kind = "cnf"
  <2>1. b \in SUBSET SUBSET Literals(D) /\ FromBase(D, b) = Smallest(b) /\ Bodies(D) = SUBSET SUBSET Literals(D)
    BY <1>1 DEF Bodies, PDnf, FromBase
  <2>2. \A c \in b : \E d \in Smallest(b) : d \subseteq c
    BY <2>1, LiteralsFinite, SmallestBelow
  <2>3. \A w, m, a : TrueUnder(D, w, m, a) <=> \A c \in w : \E l \in c : Eval(l[1], m, a) = l[2]
    BY <1>1 DEF TrueUnder, PDnf, Cnf, Naive
  <2> QED BY <1>0, <2>1, <2>2, <2>3
<1>2. CASE D.kind = "naive"
  <2>1. b \in SUBSET SUBSET Literals(D) /\ FromBase(D, b) = Smallest(b) /\ Bodies(D) = SUBSET SUBSET Literals(D)
    BY <1>2 DEF Bodies, PDnf, FromBase
  <2>2. \A c \in b : \E d \in Smallest(b) : d \subseteq c
    BY <2>1, LiteralsFinite, SmallestBelow
  <2>3. \A w, m, a : TrueUnder(D, w, m, a) <=> \E c \in w : \A l \in c : Eval(l[1], m, a) = l[2]
    BY <1>2 DEF TrueUnder, PDnf, Cnf, Naive
  <2> QED BY <1>0, <2>1, <2>2, <2>3
<1>3. CASE D.kind = "pdnf"
  <2>1. /\ Bodies(D) = [units : SUBSET Literals(D), cubes : SUBSET SUBSET Literals(D)]
        /\ FromBase(D, b) = [b EXCEPT !.cubes = Smallest(b.cubes)]
    BY <1>3 DEF Bodies, PDnf, FromBase
  <2>2. b.cubes \in SUBSET SUBSET Literals(D) /\ b.units \in SUBSET Literals(D)
    BY <2>1
  <2>3. FromBase(D, b) = [units |-> b.units, cubes |-> Smallest(b.cubes)]
    BY <2>1
  <2>4. \A c \in b.cubes : \E d \in Smallest(b.cubes) : d \subseteq c
    BY <2>2, LiteralsFinite, SmallestBelow
  <2>5. \A w, m, a : TrueUnder(D, w, m, a) <=> \/ \E l \in w.units : Eval(l[1], m, a) = l[2]
                                              \/ \E c \in w.cubes : \A l \in c : Eval(l[1], m, a) = l[2]
    BY <1>3 DEF TrueUnder, PDnf, Cnf, Naive
  <2>6. FromBase(D, b) \in Bodies(D)
    BY <1>0, <2>1, <2>2, <2>3
  <2>7. FromBase(D, b).units = b.units /\ FromBase(D, b).cubes = Smallest(b.cubes)
    BY <2>3
  <2> QED BY <1>0, <2>4, <2>5, <2>6, <2>7
<1> QED BY <1>1, <1>2, <1>3 DEF IsDomain

(* What is left of a set of bodies without the redundant ones.             *)
LEMMA MinimizedSubset ==
  ASSUME NEW D, NEW set, IsFiniteSet(set), NEW from
  PROVE  Minimized(D, set, from) \subseteq set
<1> DEFINE n == Cardinality(set)
           Ty == [k \in 0 .. n |-> {s \in [left : SUBSET set, min : SUBSET set] : Cardinality(s.left) = n - k}]
           t == [left |-> set, min |-> {}]
           E(s) == [left |-> s.left \ {CHOOSE x \in s.left : TRUE},
                    min |-> InsertMinimized(D, CHOOSE x \in s.left : TRUE, s.min, from)]
           G == [p \in (1 .. n) \X UNION {Ty[k] : k \in 0 .. n} |-> E(p[2])]
           F(f) == [k \in 0 .. n |-> IF k = 0 THEN t ELSE E(f[k - 1])]
           f == CHOOSE g : g = F(g)
<1>1. n \in Nat
  BY FS_CardinalityType
<1>2. \A k \in 0 .. n : Ty[k] = {s \in [left : SUBSET set, min : SUBSET set] : Cardinality(s.left) = n - k}
  OBVIOUS
<1>3. 0 \in 0 .. n /\ t \in Ty[0]
  BY <1>1
<1> HIDE DEF Ty, t
<1>4. \A k \in 1 .. n : \A s \in Ty[k - 1] : E(s) \in Ty[k]
  <2> TAKE k \in 1 .. n
  <2> TAKE s \in Ty[k - 1]
  <2> DEFINE b == CHOOSE x \in s.left : TRUE
  <2>1. k \in 0 .. n /\ k - 1 \in 0 .. n
    BY <1>1
  <2>2. s \in [left : SUBSET set, min : SUBSET set] /\ Cardinality(s.left) = n - (k - 1)
    BY <1>2, <2>1
  <2>3. IsFiniteSet(s.left) /\ s.left # {}
    <3>1. s.left \subseteq set
      BY <2>2
    <3>2. IsFiniteSet(s.left)
      BY <3>1, FS_Subset
    <3>3. Cardinality(s.left) # 0
      BY <1>1, <2>1, <2>2
    <3> QED BY <3>2, <3>3, FS_EmptySet
  <2>4. b \in s.left
    BY <2>3
  <2> HIDE DEF b
  <2>5. Cardinality(s.left \ {b}) = n - k
    <3>1. Cardinality(s.left \ {b}) = Cardinality(s.left) - 1
      BY <2>3, <2>4, FS_RemoveElement
    <3> QED BY <1>1, <2>1, <2>2, <3>1
  <2>6. InsertMinimized(D, b, s.min, from) \subseteq set
    BY <2>2, <2>4 DEF InsertMinimized
  <2>7. E(s) = [left |-> s.left \ {b}, min |-> InsertMinimized(D, b, s.min, from)]
    BY DEF b
  <2> HIDE DEF E
  <2>8. E(s) \in [left : SUBSET set, min : SUBSET set] /\ Cardinality(E(s).left) = n - k
    BY <2>2, <2>5, <2>6, <2>7
  <2> QED BY <1>2, <2>1, <2>8
<1> HIDE DEF E, n
<1>5. \A k \in 1 .. n : \A s \in Ty[k - 1] : G[<<k, s>>] = E(s)
  <2> TAKE k \in 1 .. n
  <2> TAKE s \in Ty[k - 1]
  <2>1. k - 1 \in 0 .. n
    BY <1>1
  <2> QED BY <2>1
<1> HIDE DEF G
<1>6. PICK g : Ascends(g, n, Ty, t, G)
  <2>1. \A k \in 1 .. n : \A s \in Ty[k - 1] : G[<<k, s>>] \in Ty[k]
    BY <1>4, <1>5
  <2> QED BY <1>1, <1>3, <2>1, Ascent
<1>7. g = F(g)
  <2>1. \A k \in 1 .. n : g[k] = E(g[k - 1])
    <3> TAKE k \in 1 .. n
    <3>1. k - 1 \in 0 .. n
      BY <1>1
    <3>2. g[k] = G[<<k, g[k - 1]>>] /\ g[k - 1] \in Ty[k - 1]
      BY <1>6, <3>1 DEF Ascends
    <3> QED BY <1>5, <3>2
  <2>2. g = [k \in 0 .. n |-> g[k]] /\ g[0] = t
    BY <1>6 DEF Ascends
  <2>3. \A k \in 0 .. n : g[k] = F(g)[k]
    <3> TAKE k \in 0 .. n
    <3>1. CASE k = 0
      BY <2>2, <3>1
    <3>2. CASE k # 0
      <4>1. k \in 1 .. n
        BY <1>1, <3>2
      <4> QED BY <2>1, <3>2, <4>1
    <3> QED BY <3>1, <3>2
  <2> QED BY <2>2, <2>3
<1>8. f = F(f)
  <2> HIDE DEF F
  <2> QED BY <1>7
<1>9. Minimized(D, set, from) = f[n].min
  BY DEF Minimized, E, t, n
<1> HIDE DEF f
<1>10. \A k \in 0 .. n : f[k] \in Ty[k]
  <2>1. \A k \in 0 .. n : f[k] = IF k = 0 THEN t ELSE E(f[k - 1])
    <3> DEFINE H == F(f)
    <3>1. \A k \in 0 .. n : H[k] = IF k = 0 THEN t ELSE E(f[k - 1])
      OBVIOUS
    <3>2. f = H
      BY <1>8
    <3> HIDE DEF H
    <3> QED BY <3>1, <3>2
  <2> DEFINE P == {k \in 0 .. n : f[k] \in Ty[k]}
  <2>2. 0 \in P
    BY <1>3, <2>1
  <2>3. \A k \in 1 .. n : k - 1 \in P => k \in P
    <3> TAKE k \in 1 .. n
    <3>1. k \in 0 .. n /\ k # 0
      BY <1>1
    <3> QED BY <1>4, <2>1, <3>1
  <2> HIDE DEF P
  <2>4. \A k \in 0 .. n : k \in P
    BY <1>1, <2>2, <2>3, Along
  <2> QED BY <2>4 DEF P
<1>11. n \in 0 .. n /\ f[n] \in Ty[n]
  BY <1>1, <1>10
<1> QED BY <1>2, <1>9, <1>11

-----------------------------------------------------------------------------
(* Weakening a body                                                        *)

(* A literal holds under an assignment.                                    *)
Truth(m, a, l) == Eval(l[1], m, a) = l[2]

(* What a body of each kind says.                                          *)
LEMMA TrueUnderIs ==
  ASSUME NEW D, IsDomain(D), NEW w, NEW m, NEW a
  PROVE  /\ D.kind = "cnf" => (TrueUnder(D, w, m, a) <=> \A c \in w : \E l \in c : Truth(m, a, l))
         /\ D.kind = "naive" => (TrueUnder(D, w, m, a) <=> \E c \in w : \A l \in c : Truth(m, a, l))
         /\ D.kind = "pdnf" => (TrueUnder(D, w, m, a) <=> \/ \E l \in w.units : Truth(m, a, l)
                                                          \/ \E c \in w.cubes : \A l \in c : Truth(m, a, l))
BY DEF TrueUnder, Cnf, Naive, PDnf, IsDomain, Truth

(* The bodies of each kind.                                                *)
LEMMA BodiesAre ==
  ASSUME NEW D, IsDomain(D)
  PROVE  /\ D.kind \in {"cnf", "naive"} => Bodies(D) = SUBSET SUBSET Literals(D)
         /\ D.kind = "pdnf" => Bodies(D) = [units : SUBSET Literals(D), cubes : SUBSET SUBSET Literals(D)]
BY DEF Bodies, PDnf

(* A combination is a set of the literals it is of.                        *)
LEMMA CombinationsAre ==
  ASSUME NEW k, NEW ls, NEW c \in Combinations(k, ls)
  PROVE  c \subseteq ls
BY DEF Combinations, kSubset

(* The bodies that weakening b by an assignment may lead to.               *)
Admissible(D, b, m, a) == {w \in Bodies(D) : Weaker(D, b, w) /\ TrueUnder(D, w, m, a)}

(* LemmaCnf::weaken: every result follows from the body, and holds.        *)
LEMMA WeakenCnfIs ==
  ASSUME NEW D, IsDomain(D), D.kind = "cnf", NEW b \in Bodies(D), NEW m, NEW a, NEW ignore
  PROVE  WeakenCnf(D, b, Cube(D, m, a), ignore) \subseteq Admissible(D, b, m, a)
<1> DEFINE K == Cube(D, m, a)
<1>1. K \subseteq Literals(D) /\ \A l \in K : Truth(m, a, l)
  BY CubeIs DEF Truth
<1>2. Bodies(D) = SUBSET SUBSET Literals(D)
  BY BodiesAre
<1>3. \A w, n, e : TrueUnder(D, w, n, e) <=> \A c \in w : \E l \in c : Truth(n, e, l)
  BY TrueUnderIs
<1> HIDE DEF K
<1>4. ASSUME NEW c \in SUBSET Literals(D), NEW d \in WeakenClause(D, c, K)
      PROVE  c \subseteq d /\ d \subseteq Literals(D) /\ \E l \in d : l \in K
  BY <1>1 DEF WeakenClause
<1>5. CASE b = {{}}
  <2>1. ASSUME NEW w \in WeakenCnf(D, b, K, ignore)
        PROVE  w \in Admissible(D, b, m, a)
    <3>1. PICK ls \in Combinations(Clauses(D), K) : w = {{l} : l \in ls}
      BY <1>5 DEF WeakenCnf
    <3>2. ls \subseteq K
      BY CombinationsAre
    <3>3. w \in Bodies(D)
      BY <1>1, <1>2, <3>1, <3>2
    <3>4. TrueUnder(D, w, m, a)
      BY <1>1, <1>3, <3>1, <3>2
    <3>5. Weaker(D, b, w)
      BY <1>3, <1>5 DEF Weaker
    <3> QED BY <3>3, <3>4, <3>5 DEF Admissible
  <2> QED BY <2>1 DEF K
<1>6. CASE b # {{}}
  <2>1. ASSUME NEW w \in WeakenCnf(D, b, K, ignore)
        PROVE  w \in Admissible(D, b, m, a)
    <3> DEFINE weaker == [c \in b |-> WeakenClause(D, c, K)]
    <3>1. PICK f \in [b -> UNION Range(weaker)] : w = Range(f) /\ \A c \in b : f[c] \in weaker[c]
      BY <1>6 DEF WeakenCnf
    <3>2. \A c \in b : c \subseteq f[c] /\ f[c] \subseteq Literals(D) /\ \E l \in f[c] : l \in K
      BY <1>2, <1>4, <3>1
    <3>3. w = {f[c] : c \in b}
      BY <3>1 DEF Range
    <3>4. w \in Bodies(D)
      BY <1>2, <3>2, <3>3
    <3>5. TrueUnder(D, w, m, a)
      BY <1>1, <1>3, <3>2, <3>3
    <3>6. Weaker(D, b, w)
      <4>1. ASSUME NEW n, NEW e, TrueUnder(D, b, n, e) PROVE TrueUnder(D, w, n, e)
        <5>1. \A c \in b : \E l \in f[c] : Truth(n, e, l)
          BY <1>3, <3>2, <4>1
        <5> QED BY <1>3, <3>3, <5>1
      <4> QED BY <4>1 DEF Weaker
    <3> QED BY <3>4, <3>5, <3>6 DEF Admissible
  <2> QED BY <2>1 DEF K
<1> QED BY <1>5, <1>6

(* LemmaPDnf::weaken: every result follows from the body, and holds.       *)
LEMMA WeakenPDnfIs ==
  ASSUME NEW D, IsDomain(D), D.kind = "pdnf", NEW b \in Bodies(D), NEW m, NEW a, NEW ignore
  PROVE  WeakenPDnf(D, b, Cube(D, m, a), ignore) \subseteq Admissible(D, b, m, a)
<1> DEFINE K == Cube(D, m, a)
<1>1. K \subseteq Literals(D) /\ \A l \in K : Truth(m, a, l)
  BY CubeIs DEF Truth
<1>2. Bodies(D) = [units : SUBSET Literals(D), cubes : SUBSET SUBSET Literals(D)]
  BY BodiesAre
<1>3. \A w, n, e : TrueUnder(D, w, n, e) <=> \/ \E l \in w.units : Truth(n, e, l)
                                             \/ \E c \in w.cubes : \A l \in c : Truth(n, e, l)
  BY TrueUnderIs
<1> HIDE DEF K
<1>4. b.units \in SUBSET Literals(D) /\ b.cubes \in SUBSET SUBSET Literals(D) /\ b = [units |-> b.units, cubes |-> b.cubes]
  BY <1>2
<1>5. ASSUME NEW w \in AddLiteral(b, K)
      PROVE  w \in Admissible(D, b, m, a)
  <2>1. PICK l \in K : w = [units |-> b.units \cup {l}, cubes |-> {c \ {Neg(l)} : c \in {d \in b.cubes : l \notin d}}]
    BY DEF AddLiteral
  <2>2. w.units = b.units \cup {l} /\ w.cubes = {c \ {Neg(l)} : c \in {d \in b.cubes : l \notin d}}
    BY <2>1
  <2>3. w \in Bodies(D)
    BY <1>1, <1>2, <1>4, <2>1
  <2>4. TrueUnder(D, w, m, a)
    BY <1>1, <1>3, <2>2
  <2>5. Weaker(D, b, w)
    <3>1. ASSUME NEW n, NEW e, TrueUnder(D, b, n, e) PROVE TrueUnder(D, w, n, e)
      <4>1. CASE \E k \in b.units : Truth(n, e, k)
        BY <1>3, <2>2, <4>1
      <4>2. CASE \E c \in b.cubes : \A k \in c : Truth(n, e, k)
        <5>1. PICK c \in b.cubes : \A k \in c : Truth(n, e, k)
          BY <4>2
        <5>2. CASE l \in c
          BY <1>3, <2>2, <5>1, <5>2
        <5>3. CASE l \notin c
          <6>1. c \ {Neg(l)} \in w.cubes
            BY <2>2, <5>3
          <6>2. \A k \in c \ {Neg(l)} : Truth(n, e, k)
            BY <5>1
          <6> QED BY <1>3, <6>1, <6>2
        <5> QED BY <5>2, <5>3
      <4> QED BY <1>3, <3>1, <4>1, <4>2
    <3> QED BY <3>1 DEF Weaker
  <2> QED BY <2>3, <2>4, <2>5 DEF Admissible
<1>6. ASSUME NEW w \in IntersectCube(b, K)
      PROVE  w \in Admissible(D, b, m, a)
  <2>1. PICK c \in b.cubes : w = [b EXCEPT !.cubes = (b.cubes \ {c}) \cup {c \cap K}]
    BY DEF IntersectCube
  <2>2. w = [units |-> b.units, cubes |-> (b.cubes \ {c}) \cup {c \cap K}]
    BY <1>4, <2>1
  <2>3. w.units = b.units /\ w.cubes = (b.cubes \ {c}) \cup {c \cap K}
    BY <2>2
  <2>4. w \in Bodies(D)
    BY <1>1, <1>2, <1>4, <2>2
  <2>5. TrueUnder(D, w, m, a)
    <3>1. c \cap K \in w.cubes /\ \A l \in c \cap K : Truth(m, a, l)
      BY <1>1, <2>3
    <3> QED BY <1>3, <3>1
  <2>6. Weaker(D, b, w)
    <3>1. \A d \in b.cubes : \E g \in w.cubes : g \subseteq d
      <4> TAKE d \in b.cubes
      <4>1. CASE d = c
        <5>1. c \cap K \in w.cubes /\ c \cap K \subseteq d
          BY <2>3, <4>1
        <5> QED BY <5>1
      <4>2. CASE d # c
        <5>1. d \in w.cubes
          BY <2>3, <4>2
        <5> QED BY <5>1
      <4> QED BY <4>1, <4>2
    <3>2. ASSUME NEW n, NEW e, TrueUnder(D, b, n, e) PROVE TrueUnder(D, w, n, e)
      <4>1. CASE \E k \in b.units : Truth(n, e, k)
        BY <1>3, <2>3, <4>1
      <4>2. CASE \E d \in b.cubes : \A k \in d : Truth(n, e, k)
        BY <1>3, <3>1, <4>2
      <4> QED BY <1>3, <3>2, <4>1, <4>2
    <3> QED BY <3>2 DEF Weaker
  <2> QED BY <2>4, <2>5, <2>6 DEF Admissible
<1>7. ASSUME NEW w \in AddCube(D, b, K)
      PROVE  w \in Admissible(D, b, m, a)
  <2>1. PICK c : c \subseteq K /\ w = [b EXCEPT !.cubes = b.cubes \cup {c}]
    <3> DEFINE ls == {l \in K : Neg(l) \notin b.units /\ Vars(l) \cap NonUniversalVars(D) # {}}
    <3>1. PICK c \in Combinations(CubeSize(D), ls) : w = [b EXCEPT !.cubes = b.cubes \cup {c}]
      BY DEF AddCube
    <3>2. ls \subseteq K
      OBVIOUS
    <3> HIDE DEF ls
    <3>3. c \subseteq ls
      BY CombinationsAre
    <3> QED BY <3>1, <3>2, <3>3
  <2>2. w = [units |-> b.units, cubes |-> b.cubes \cup {c}]
    BY <1>4, <2>1
  <2>3. w.units = b.units /\ w.cubes = b.cubes \cup {c}
    BY <2>2
  <2>4. w \in Bodies(D)
    BY <1>1, <1>2, <1>4, <2>1, <2>2
  <2>5. TrueUnder(D, w, m, a)
    <3>1. c \in w.cubes /\ \A l \in c : Truth(m, a, l)
      BY <1>1, <2>1, <2>3
    <3> QED BY <1>3, <3>1
  <2>6. Weaker(D, b, w)
    BY <1>3, <2>3 DEF Weaker
  <2> QED BY <2>4, <2>5, <2>6 DEF Admissible
<1>8. ASSUME NEW w \in WeakenPDnf(D, b, K, ignore)
      PROVE  w \in Admissible(D, b, m, a)
  <2>1. w \in IntersectCube(b, K) \/ w \in AddLiteral(b, K) \/ w \in AddCube(D, b, K)
    BY DEF WeakenPDnf
  <2> QED BY <1>5, <1>6, <1>7, <2>1
<1> QED BY <1>8 DEF K

(* An image is not larger than the set.                                    *)
LEMMA ImageSmaller ==
  ASSUME NEW S, IsFiniteSet(S), NEW f
  PROVE  IsFiniteSet({f[x] : x \in S}) /\ Cardinality({f[x] : x \in S}) <= Cardinality(S)
<1> DEFINE T == {f[x] : x \in S}
           g == [x \in S |-> f[x]]
<1>1. g \in Surjection(S, T)
  <2>1. g \in [S -> T] /\ \A y \in T : \E x \in S : g[x] = y
    OBVIOUS
  <2> HIDE DEF g, T
  <2> QED BY <2>1 DEF Surjection
<1> HIDE DEF g, T
<1>2. IsFiniteSet(T) /\ Cardinality(T) <= Cardinality(S)
  BY <1>1, FS_Surjection
<1> QED BY <1>2 DEF T

(* The bodies that unit_normalize leaves are no more.                      *)
LEMMA UnitNormalizeIs ==
  ASSUME NEW L, NEW b \in SUBSET SUBSET L, IsFiniteSet(b), NEW l
  PROVE  /\ UnitNormalize(b, l) \in SUBSET SUBSET L
         /\ IsFiniteSet(UnitNormalize(b, l)) /\ Cardinality(UnitNormalize(b, l)) <= Cardinality(b)
         /\ \A c \in b : l \in c \/ c \ {Neg(l)} \in UnitNormalize(b, l)
<1> DEFINE S == {d \in b : l \notin d}
           f == [c \in S |-> c \ {Neg(l)}]
<1>1. UnitNormalize(b, l) = {f[c] : c \in S}
  BY DEF UnitNormalize
<1>2. IsFiniteSet(S) /\ Cardinality(S) <= Cardinality(b) /\ Cardinality(S) \in Nat /\ Cardinality(b) \in Nat
  BY FS_Subset, FS_CardinalityType
<1>3. \A c \in S : f[c] = c \ {Neg(l)}
  OBVIOUS
<1>4. \A c \in b : l \in c \/ c \in S
  OBVIOUS
<1>5. S \subseteq b
  OBVIOUS
<1> HIDE DEF S, f
<1>6. IsFiniteSet({f[c] : c \in S}) /\ Cardinality({f[c] : c \in S}) <= Cardinality(S)
  BY <1>2, ImageSmaller
<1>7. Cardinality({f[c] : c \in S}) \in Nat
  BY <1>6, FS_CardinalityType
<1>8. {f[c] : c \in S} \in SUBSET SUBSET L
  BY <1>3, <1>5
<1>9. \A c \in b : l \in c \/ c \ {Neg(l)} \in {f[x] : x \in S}
  BY <1>3, <1>4
<1> QED BY <1>1, <1>2, <1>6, <1>7, <1>8, <1>9

(* A state of the loop of add_unit, after k turns.                         *)
Cubed(S, n, e) == \E c \in S : \A k \in c : Truth(n, e, k)
(* The invariant of the loop of add_unit: a body that the literals found   *)
(* and the cubes left make follows from b, and one of them is l.           *)
Turning(L, b, l, k, s) ==
  /\ s \in [cubes : SUBSET SUBSET L, units : SUBSET L, next : SUBSET L]
  /\ IsFiniteSet(s.cubes)
  /\ l \in s.units \/ s.next = {l}
  /\ s.next # {} => Cardinality(s.cubes) <= Cardinality(b) - k
  /\ \A n, e : Cubed(b, n, e) => \/ Cubed(s.cubes, n, e)
                                 \/ \E u \in s.units : Truth(n, e, u)
                                 \/ s.next # {} /\ \A u \in s.next : Truth(n, e, u)

(* One turn of the loop of add_unit keeps what Turning says.               *)
LEMMA TurnIs ==
  ASSUME NEW L, NEW b \in SUBSET SUBSET L, IsFiniteSet(b), NEW l \in L, NEW k \in Nat \ {0},
         NEW s, Turning(L, b, l, k - 1, s), NEW t \in AddUnitTurn(s)
  PROVE  Turning(L, b, l, k, t)
<1>1. CASE s.next = {}
  <2>1. t = s
    BY <1>1 DEF AddUnitTurn
  <2> QED BY <1>1, <2>1 DEF Turning
<1>2. CASE s.next # {}
  <2> DEFINE x == CHOOSE y \in s.next : TRUE
             base == UnitNormalize(s.cubes, x)
             unit == {c \in base : Unit(c)}
             c == CHOOSE d \in unit : TRUE
  <2>0. /\ s \in [cubes : SUBSET SUBSET L, units : SUBSET L, next : SUBSET L]
        /\ s.cubes \in SUBSET SUBSET L /\ s.units \in SUBSET L /\ s.next \in SUBSET L /\ IsFiniteSet(s.cubes)
    BY DEF Turning
  <2>1. x \in s.next /\ x \in L
    BY <1>2, <2>0
  <2>2. t = IF unit = {} THEN [cubes |-> base, units |-> s.units \cup {x}, next |-> {}]
            ELSE [cubes |-> base \ {c}, units |-> s.units \cup {x}, next |-> c]
    BY <1>2 DEF AddUnitTurn
  <2>3. unit \subseteq base /\ (unit # {} => c \in base)
    OBVIOUS
  <2> HIDE DEF x, unit, c
  <2>4. /\ base \in SUBSET SUBSET L
        /\ IsFiniteSet(base) /\ Cardinality(base) <= Cardinality(s.cubes)
        /\ \A d \in s.cubes : x \in d \/ d \ {Neg(x)} \in base
    <3> DEFINE C == s.cubes
    <3>1. C \in SUBSET SUBSET L /\ IsFiniteSet(C)
      BY <2>0
    <3> HIDE DEF C
    <3>2. /\ UnitNormalize(C, x) \in SUBSET SUBSET L
          /\ IsFiniteSet(UnitNormalize(C, x)) /\ Cardinality(UnitNormalize(C, x)) <= Cardinality(C)
          /\ \A d \in C : x \in d \/ d \ {Neg(x)} \in UnitNormalize(C, x)
      BY <3>1, UnitNormalizeIs
    <3> QED BY <3>2 DEF C
  <2> HIDE DEF base
  <2>5. l \in s.units \cup {x}
    <3>1. l \in s.units \/ s.next = {l}
      BY DEF Turning
    <3> QED BY <2>1, <3>1
  <2>6. \A n, e : Cubed(b, n, e) => Cubed(base, n, e) \/ \E u \in s.units \cup {x} : Truth(n, e, u)
    <3> TAKE n, e
    <3>1. SUFFICES ASSUME Cubed(b, n, e) PROVE Cubed(base, n, e) \/ \E u \in s.units \cup {x} : Truth(n, e, u)
      OBVIOUS
    <3>2. \/ Cubed(s.cubes, n, e)
          \/ \E u \in s.units : Truth(n, e, u)
          \/ s.next # {} /\ \A u \in s.next : Truth(n, e, u)
      BY <3>1 DEF Turning
    <3>3. CASE Cubed(s.cubes, n, e)
      <4>1. PICK d \in s.cubes : \A u \in d : Truth(n, e, u)
        BY <3>3 DEF Cubed
      <4>2. CASE x \in d
        BY <4>1, <4>2
      <4>3. CASE x \notin d
        <5>1. d \ {Neg(x)} \in base /\ \A u \in d \ {Neg(x)} : Truth(n, e, u)
          BY <2>4, <4>1, <4>3
        <5> QED BY <5>1 DEF Cubed
      <4> QED BY <4>2, <4>3
    <3>4. CASE \E u \in s.units : Truth(n, e, u)
      BY <3>4
    <3>5. CASE s.next # {} /\ \A u \in s.next : Truth(n, e, u)
      BY <2>1, <3>5
    <3> QED BY <3>2, <3>3, <3>4, <3>5
  <2>7. CASE unit = {}
    <3>1. t = [cubes |-> base, units |-> s.units \cup {x}, next |-> {}]
      BY <2>2, <2>7
    <3>2. t.cubes = base /\ t.units = s.units \cup {x} /\ t.next = {}
      BY <3>1
    <3>3. t \in [cubes : SUBSET SUBSET L, units : SUBSET L, next : SUBSET L]
      BY <2>0, <2>1, <2>4, <3>1
    <3> QED BY <2>4, <2>5, <2>6, <3>2, <3>3 DEF Turning
  <2>8. CASE unit # {}
    <3>1. t = [cubes |-> base \ {c}, units |-> s.units \cup {x}, next |-> c]
      BY <2>2, <2>8
    <3>2. t.cubes = base \ {c} /\ t.units = s.units \cup {x} /\ t.next = c
      BY <3>1
    <3>3. c \in base
      BY <2>3, <2>8
    <3>4. t \in [cubes : SUBSET SUBSET L, units : SUBSET L, next : SUBSET L]
      BY <2>0, <2>1, <2>4, <3>1, <3>3
    <3>5. IsFiniteSet(base \ {c}) /\ Cardinality(base \ {c}) = Cardinality(base) - 1
      BY <2>4, <3>3, FS_RemoveElement
    <3>6. Cardinality(base \ {c}) <= Cardinality(b) - k
      <4>1. Cardinality(s.cubes) <= Cardinality(b) - (k - 1)
        BY <1>2 DEF Turning
      <4>2. Cardinality(base) \in Nat /\ Cardinality(s.cubes) \in Nat /\ Cardinality(b) \in Nat
        BY <2>0, <2>4, FS_CardinalityType
      <4> QED BY <2>4, <3>5, <4>1, <4>2
    <3>7. \A n, e : Cubed(base, n, e) => Cubed(base \ {c}, n, e) \/ (c # {} /\ \A u \in c : Truth(n, e, u))
      <4>1. c # {}
        <5>1. Unit(c)
          BY <2>8 DEF unit, c
        <5>2. Cardinality({}) = 0
          BY FS_EmptySet
        <5>3. ASSUME c = {} PROVE FALSE
          <6>1. Cardinality(c) = Cardinality({})
            BY <5>3
          <6> QED BY <5>1, <5>2, <6>1 DEF Unit
        <5> QED BY <5>3
      <4> QED BY <4>1 DEF Cubed
    <3>8. \A n, e : Cubed(b, n, e) => \/ Cubed(t.cubes, n, e)
                                      \/ \E u \in t.units : Truth(n, e, u)
                                      \/ t.next # {} /\ \A u \in t.next : Truth(n, e, u)
      BY <2>6, <3>2, <3>7
    <3> QED BY <2>5, <3>2, <3>4, <3>5, <3>6, <3>8 DEF Turning
  <2> QED BY <2>7, <2>8
<1> QED BY <1>1, <1>2

(* A unit cube more: what add_unit returns.                                *)
LEMMA AddUnitIs ==
  ASSUME NEW D, IsDomain(D), D.kind = "naive", NEW b \in Bodies(D), NEW l \in Literals(D),
         NEW w \in AddUnit(D, b, l)
  PROVE  w \in Bodies(D) /\ Weaker(D, b, w) /\ {l} \in w
<1> DEFINE L == Literals(D)
           n == Cardinality(b) + 1
           Ty == [k \in 0 .. n |-> SUBSET {s \in [cubes : SUBSET SUBSET L, units : SUBSET L, next : SUBSET L] :
                                             Turning(L, b, l, k, s)}]
           t == {[cubes |-> b, units |-> {}, next |-> {l}]}
           E(S) == UNION {AddUnitTurn(s) : s \in S}
           G == [p \in (1 .. n) \X UNION {Ty[k] : k \in 0 .. n} |-> E(p[2])]
           F(f) == [k \in 0 .. n |-> IF k = 0 THEN t ELSE E(f[k - 1])]
           f == CHOOSE g : g = F(g)
<1>0. b \in SUBSET SUBSET L /\ IsFiniteSet(b)
  <2>1. b \in SUBSET SUBSET L
    BY BodiesAre
  <2>2. IsFiniteSet(L)
    BY LiteralsFinite
  <2> HIDE DEF L
  <2>3. IsFiniteSet(SUBSET L)
    BY <2>2, FS_SUBSET
  <2> QED BY <2>1, <2>3, FS_Subset
<1>1. n \in Nat /\ Cardinality(b) \in Nat
  BY <1>0, FS_CardinalityType
<1>2. \A k \in 0 .. n : \A S : S \in Ty[k] <=> \A s \in S : Turning(L, b, l, k, s)
  BY DEF Turning
<1> HIDE DEF Ty
<1>3. 0 \in 0 .. n /\ t \in Ty[0]
  <2> DEFINE s == [cubes |-> b, units |-> {}, next |-> {l}]
  <2>1. s.cubes = b /\ s.units = {} /\ s.next = {l}
    OBVIOUS
  <2>2. s \in [cubes : SUBSET SUBSET L, units : SUBSET L, next : SUBSET L]
    BY <1>0
  <2> HIDE DEF s, L
  <2>3. Cardinality(s.cubes) <= Cardinality(b) - 0
    BY <1>1, <2>1
  <2>4. Turning(L, b, l, 0, s)
    BY <1>0, <2>1, <2>2, <2>3 DEF Turning
  <2>5. \A u \in t : u = s
    BY DEF s
  <2>6. 0 \in 0 .. n
    BY <1>1
  <2> HIDE DEF t, n
  <2> QED BY <1>2, <2>4, <2>5, <2>6
<1> HIDE DEF L, t, n
<1>4. \A k \in 1 .. n : \A S \in Ty[k - 1] : E(S) \in Ty[k]
  <2> TAKE k \in 1 .. n
  <2> TAKE S \in Ty[k - 1]
  <2>1. k \in 0 .. n /\ k - 1 \in 0 .. n /\ k \in Nat \ {0}
    BY <1>1
  <2>2. l \in L
    BY DEF L
  <2>3. ASSUME NEW u \in E(S) PROVE Turning(L, b, l, k, u)
    <3>1. PICK s \in S : u \in AddUnitTurn(s)
      OBVIOUS
    <3>2. Turning(L, b, l, k - 1, s)
      BY <1>2, <2>1
    <3> QED BY <1>0, <2>1, <2>2, <3>1, <3>2, TurnIs
  <2> HIDE DEF E
  <2> QED BY <1>2, <2>1, <2>3
<1> HIDE DEF E
<1>5. \A k \in 1 .. n : \A S \in Ty[k - 1] : G[<<k, S>>] = E(S)
  <2> TAKE k \in 1 .. n
  <2> TAKE S \in Ty[k - 1]
  <2>1. k - 1 \in 0 .. n
    BY <1>1
  <2> QED BY <2>1
<1> HIDE DEF G
<1>6. PICK g : Ascends(g, n, Ty, t, G)
  <2>1. \A k \in 1 .. n : \A S \in Ty[k - 1] : G[<<k, S>>] \in Ty[k]
    BY <1>4, <1>5
  <2> QED BY <1>1, <1>3, <2>1, Ascent
<1>7. g = F(g)
  <2>1. \A k \in 1 .. n : g[k] = E(g[k - 1])
    <3> TAKE k \in 1 .. n
    <3>1. k - 1 \in 0 .. n
      BY <1>1
    <3>2. g[k] = G[<<k, g[k - 1]>>] /\ g[k - 1] \in Ty[k - 1]
      BY <1>6, <3>1 DEF Ascends
    <3> QED BY <1>5, <3>2
  <2>2. g = [k \in 0 .. n |-> g[k]] /\ g[0] = t
    BY <1>6 DEF Ascends
  <2>3. \A k \in 0 .. n : g[k] = F(g)[k]
    <3> TAKE k \in 0 .. n
    <3>1. CASE k = 0
      BY <2>2, <3>1
    <3>2. CASE k # 0
      <4>1. k \in 1 .. n
        BY <1>1, <3>2
      <4> QED BY <2>1, <3>2, <4>1
    <3> QED BY <3>1, <3>2
  <2> QED BY <2>2, <2>3
<1>8. f = F(f)
  <2> HIDE DEF F
  <2> QED BY <1>7
<1>9. AddUnit(D, b, l) = {v \in {s.cubes \cup {{k} : k \in s.units} : s \in f[n]} : Cardinality(v) <= D.cubes}
  BY DEF AddUnit, E, t, n
<1> HIDE DEF f
<1>10. \A k \in 0 .. n : f[k] \in Ty[k]
  <2>1. \A k \in 0 .. n : f[k] = IF k = 0 THEN t ELSE E(f[k - 1])
    <3> DEFINE H == F(f)
    <3>1. \A k \in 0 .. n : H[k] = IF k = 0 THEN t ELSE E(f[k - 1])
      OBVIOUS
    <3>2. f = H
      BY <1>8
    <3> HIDE DEF H
    <3> QED BY <3>1, <3>2
  <2> DEFINE P == {k \in 0 .. n : f[k] \in Ty[k]}
  <2>2. 0 \in P
    BY <1>3, <2>1
  <2>3. \A k \in 1 .. n : k - 1 \in P => k \in P
    <3> TAKE k \in 1 .. n
    <3>1. k \in 0 .. n /\ k # 0
      BY <1>1
    <3> QED BY <1>4, <2>1, <3>1
  <2> HIDE DEF P
  <2>4. \A k \in 0 .. n : k \in P
    BY <1>1, <2>2, <2>3, Along
  <2> QED BY <2>4 DEF P
<1>11. PICK s \in f[n] : w = s.cubes \cup {{k} : k \in s.units}
  BY <1>9
<1>12. Turning(L, b, l, n, s)
  <2>1. n \in 0 .. n
    BY <1>1
  <2> QED BY <1>2, <1>10, <2>1
<1>13. s.next = {}
  <2>1. Cardinality(s.cubes) \in Nat
    BY <1>12, FS_CardinalityType DEF Turning
  <2>2. ~(Cardinality(s.cubes) <= Cardinality(b) - n)
    BY <1>1, <2>1 DEF n
  <2> QED BY <1>12, <2>2 DEF Turning
<1>14. w \in Bodies(D)
  <2>1. s.cubes \in SUBSET SUBSET L /\ s.units \in SUBSET L
    BY <1>12 DEF Turning
  <2>2. w \in SUBSET SUBSET L
    BY <1>11, <2>1
  <2> QED BY <2>2, BodiesAre DEF L
<1>15. {l} \in w
  <2>1. l \in s.units
    BY <1>12, <1>13 DEF Turning
  <2> QED BY <1>11, <2>1
<1>16. Weaker(D, b, w)
  <2>1. \A v, m, a : TrueUnder(D, v, m, a) <=> Cubed(v, m, a)
    BY TrueUnderIs DEF Cubed
  <2>2. ASSUME NEW m, NEW a, Cubed(b, m, a) PROVE Cubed(w, m, a)
    <3>1. Cubed(s.cubes, m, a) \/ \E u \in s.units : Truth(m, a, u)
      BY <1>12, <1>13, <2>2 DEF Turning
    <3>2. CASE Cubed(s.cubes, m, a)
      BY <1>11, <3>2 DEF Cubed
    <3>3. CASE \E u \in s.units : Truth(m, a, u)
      <4>1. PICK u \in s.units : Truth(m, a, u)
        BY <3>3
      <4>2. {u} \in w /\ \A k \in {u} : Truth(m, a, k)
        BY <1>11, <4>1
      <4> QED BY <4>2 DEF Cubed
    <3> QED BY <3>1, <3>2, <3>3
  <2> QED BY <2>1, <2>2 DEF Weaker
<1> QED BY <1>14, <1>15, <1>16

(* Weaker is transitive, ...                                               *)
LEMMA WeakerTrans ==
  ASSUME NEW D, NEW b, NEW c, NEW d, Weaker(D, b, c), Weaker(D, c, d)
  PROVE  Weaker(D, b, d)
BY DEF Weaker

(* ... and reflexive.                                                      *)
LEMMA WeakerSelf == ASSUME NEW D, NEW b PROVE Weaker(D, b, b)
BY DEF Weaker

(* A naive pDNF body with a unit cube that holds needs no weakening.       *)
LEMMA UnitIsTrue ==
  ASSUME NEW D, IsDomain(D), D.kind = "naive", NEW b \in Bodies(D), NEW m, NEW a,
         Cube(D, m, a) \cap UnitLiterals(b) # {}
  PROVE  b \in Admissible(D, b, m, a)
<1>1. PICK l \in Cube(D, m, a), c \in b : Unit(c) /\ l \in c
  BY DEF UnitLiterals
<1>2. IsFiniteSet(c)
  <2>1. c \in SUBSET Literals(D)
    BY BodiesAre
  <2> QED BY <2>1, LiteralsFinite, FS_Subset
<1>3. \A k \in c : k = l
  <2>1. \E x : c = {x}
    BY <1>1, <1>2, FS_Singleton DEF Unit
  <2> QED BY <1>1, <2>1
<1>4. Truth(m, a, l)
  BY CubeIs DEF Truth
<1>5. TrueUnder(D, b, m, a)
  BY <1>3, <1>4, TrueUnderIs
<1> QED BY <1>5, WeakerSelf DEF Admissible

(* LemmaPDnfNaive::add_combinations: every result follows from the body,   *)
(* and holds.                                                              *)
LEMMA AddCombinationsIs ==
  ASSUME NEW D, IsDomain(D), D.kind = "naive", NEW b \in Bodies(D), NEW m, NEW a
  PROVE  AddCombinations(D, b, Cube(D, m, a)) \subseteq Admissible(D, b, m, a)
<1> DEFINE K == Cube(D, m, a)
           rest == K \ Negs(UnitLiterals(b))
<1>1. K \subseteq Literals(D) /\ \A l \in K : Truth(m, a, l)
  BY CubeIs DEF Truth
<1>2. Bodies(D) = SUBSET SUBSET Literals(D)
  BY BodiesAre
<1>3. \A w, n, e : TrueUnder(D, w, n, e) <=> \E c \in w : \A l \in c : Truth(n, e, l)
  BY TrueUnderIs
<1>4. rest \subseteq K
  OBVIOUS
<1>5. ASSUME NEW l \in rest, NEW w \in AddUnit(D, b, l)
      PROVE  w \in Admissible(D, b, m, a)
  <2>1. w \in Bodies(D) /\ Weaker(D, b, w) /\ {l} \in w
    BY <1>1, AddUnitIs
  <2>2. Truth(m, a, l)
    BY <1>1
  <2>3. TrueUnder(D, w, m, a)
    BY <1>3, <2>1, <2>2
  <2> QED BY <2>1, <2>3 DEF Admissible
<1> HIDE DEF K, rest
<1>6. ASSUME NEW c, c \subseteq rest
      PROVE  b \cup {c} \in Admissible(D, b, m, a)
  <2>1. b \cup {c} \in Bodies(D)
    BY <1>1, <1>2, <1>4, <1>6
  <2>2. TrueUnder(D, b \cup {c}, m, a)
    BY <1>1, <1>3, <1>4, <1>6
  <2>3. Weaker(D, b, b \cup {c})
    BY <1>3 DEF Weaker
  <2> QED BY <2>1, <2>2, <2>3 DEF Admissible
<1>7. ASSUME NEW w \in AddCombinations(D, b, K)
      PROVE  w \in Admissible(D, b, m, a)
  <2>1. CASE K \cap UnitLiterals(b) # {}
    <3>1. w = b
      BY <2>1 DEF AddCombinations
    <3> QED BY <2>1, <3>1, UnitIsTrue DEF K
  <2>2. CASE K \cap UnitLiterals(b) = {}
    <3>1. \/ \E l \in rest : w \in AddUnit(D, b, l)
          \/ \E c \in Combinations(CubeSize(D), rest) : w = b \cup {c}
      BY <2>2 DEF AddCombinations, rest
    <3>2. CASE \E l \in rest : w \in AddUnit(D, b, l)
      BY <1>5, <3>2
    <3>3. CASE \E c \in Combinations(CubeSize(D), rest) : w = b \cup {c}
      <4>1. PICK c \in Combinations(CubeSize(D), rest) : w = b \cup {c}
        BY <3>3
      <4>2. c \subseteq rest
        BY CombinationsAre
      <4> QED BY <1>6, <4>1, <4>2
    <3> QED BY <3>1, <3>2, <3>3
  <2> QED BY <2>1, <2>2
<1> QED BY <1>7 DEF K

(* LemmaPDnfNaive::intersect_cubes: every result follows from the body,    *)
(* and holds.                                                              *)
LEMMA IntersectCubesIs ==
  ASSUME NEW D, IsDomain(D), D.kind = "naive", NEW b \in Bodies(D), NEW m, NEW a
  PROVE  IntersectCubes(b, Cube(D, m, a)) \subseteq Admissible(D, b, m, a)
<1> DEFINE K == Cube(D, m, a)
           rest == K \ Negs(UnitLiterals(b))
<1>1. K \subseteq Literals(D) /\ \A l \in K : Truth(m, a, l)
  BY CubeIs DEF Truth
<1>2. Bodies(D) = SUBSET SUBSET Literals(D)
  BY BodiesAre
<1>3. \A w, n, e : TrueUnder(D, w, n, e) <=> \E c \in w : \A l \in c : Truth(n, e, l)
  BY TrueUnderIs
<1>4. rest \subseteq K
  OBVIOUS
<1> HIDE DEF K, rest
<1>5. ASSUME NEW w \in IntersectCubes(b, K)
      PROVE  w \in Admissible(D, b, m, a)
  <2>1. CASE K \cap UnitLiterals(b) # {}
    <3>1. w = b
      BY <2>1 DEF IntersectCubes
    <3> QED BY <2>1, <3>1, UnitIsTrue DEF K
  <2>2. CASE K \cap UnitLiterals(b) = {}
    <3>1. PICK c \in b : w = (b \ {c}) \cup {c \cap rest}
      BY <2>2 DEF IntersectCubes, rest
    <3>2. w \in Bodies(D)
      BY <1>2, <3>1
    <3>3. TrueUnder(D, w, m, a)
      <4>1. c \cap rest \in w /\ \A l \in c \cap rest : Truth(m, a, l)
        BY <1>1, <1>4, <3>1
      <4> QED BY <1>3, <4>1
    <3>4. Weaker(D, b, w)
      <4>1. \A d \in b : \E g \in w : g \subseteq d
        <5> TAKE d \in b
        <5>1. CASE d = c
          <6>1. c \cap rest \in w /\ c \cap rest \subseteq d
            BY <3>1, <5>1
          <6> QED BY <6>1
        <5>2. CASE d # c
          <6>1. d \in w
            BY <3>1, <5>2
          <6> QED BY <6>1
        <5> QED BY <5>1, <5>2
      <4>2. ASSUME NEW n, NEW e, TrueUnder(D, b, n, e) PROVE TrueUnder(D, w, n, e)
        BY <1>3, <4>1, <4>2
      <4> QED BY <4>2 DEF Weaker
    <3> QED BY <3>2, <3>3, <3>4 DEF Admissible
  <2> QED BY <2>1, <2>2
<1> QED BY <1>5 DEF K

(* LemmaPDnfNaive::weaken: every result follows from the body, and holds.  *)
LEMMA WeakenNaiveIs ==
  ASSUME NEW D, IsDomain(D), D.kind = "naive", NEW b \in Bodies(D), NEW m, NEW a, NEW ignore
  PROVE  WeakenNaive(D, b, Cube(D, m, a), ignore) \subseteq Admissible(D, b, m, a)
<1> DEFINE K == Cube(D, m, a)
           non_units == {c \in b : ~Unit(c)}
           with(ls) == {w \in UNION {AddUnit(D, b, l) : l \in ls} : ~Ignored(D, ignore, w)}
<1>1. K \subseteq Literals(D) /\ \A l \in K : Truth(m, a, l)
  BY CubeIs DEF Truth
<1>2. Bodies(D) = SUBSET SUBSET Literals(D)
  BY BodiesAre
<1>3. UNION non_units \subseteq Literals(D)
  BY <1>2
<1>4. AddCombinations(D, b, K) \subseteq Admissible(D, b, m, a)
  BY AddCombinationsIs
<1>5. IntersectCubes(b, K) \subseteq Admissible(D, b, m, a)
  BY IntersectCubesIs
<1>6. \A ls : \A w \in with(ls) : \E l \in ls : w \in AddUnit(D, b, l)
  OBVIOUS
<1> HIDE DEF K, non_units, with
<1>7. with(K) \subseteq Admissible(D, b, m, a)
  <2>1. ASSUME NEW w \in with(K) PROVE w \in Admissible(D, b, m, a)
    <3>1. PICK l \in K : w \in AddUnit(D, b, l)
      BY <1>6
    <3>2. w \in Bodies(D) /\ Weaker(D, b, w) /\ {l} \in w
      BY <1>1, <3>1, AddUnitIs
    <3>3. Truth(m, a, l)
      BY <1>1
    <3>4. TrueUnder(D, w, m, a)
      BY <3>2, <3>3, TrueUnderIs
    <3> QED BY <3>2, <3>4 DEF Admissible
  <2> QED BY <2>1
<1>8. ASSUME NEW v \in with(UNION non_units), NEW w \in AddCombinations(D, v, K)
      PROVE  w \in Admissible(D, b, m, a)
  <2>1. PICK l \in Literals(D) : v \in AddUnit(D, b, l)
    BY <1>3, <1>6
  <2>2. v \in Bodies(D) /\ Weaker(D, b, v)
    BY <2>1, AddUnitIs
  <2>3. w \in Admissible(D, v, m, a)
    BY <2>2, AddCombinationsIs DEF K
  <2>4. w \in Bodies(D) /\ Weaker(D, v, w) /\ TrueUnder(D, w, m, a)
    BY <2>3 DEF Admissible
  <2>5. Weaker(D, b, w)
    BY <2>2, <2>4, WeakerTrans
  <2> QED BY <2>4, <2>5 DEF Admissible
<1>9. ASSUME NEW w \in WeakenNaive(D, b, K, ignore)
      PROVE  w \in Admissible(D, b, m, a)
  <2>1. \/ w \in AddCombinations(D, b, K)
        \/ w \in with(K)
        \/ \E v \in with(UNION non_units) : w \in AddCombinations(D, v, K)
        \/ w \in IntersectCubes(b, K)
    BY DEF WeakenNaive, with, non_units
  <2> QED BY <1>4, <1>5, <1>7, <1>8, <2>1
<1> QED BY <1>9 DEF K

(* Weakening a body by an assignment gives weaker ones that hold under it. *)
LEMMA WeakenBodyIs ==
  ASSUME NEW D, IsDomain(D), NEW b \in Bodies(D), NEW m, NEW a, NEW ignore
  PROVE  WeakenBody(D, b, Cube(D, m, a), ignore) \subseteq Admissible(D, b, m, a)
<1>1. CASE D.kind = "cnf"
  <2>1. WeakenBody(D, b, Cube(D, m, a), ignore) = WeakenCnf(D, b, Cube(D, m, a), ignore)
    BY <1>1 DEF WeakenBody, Cnf, Naive, PDnf
  <2> QED BY <1>1, <2>1, WeakenCnfIs
<1>2. CASE D.kind = "naive"
  <2>1. WeakenBody(D, b, Cube(D, m, a), ignore) = WeakenNaive(D, b, Cube(D, m, a), ignore)
    BY <1>2 DEF WeakenBody, Cnf, Naive, PDnf
  <2> QED BY <1>2, <2>1, WeakenNaiveIs
<1>3. CASE D.kind = "pdnf"
  <2>1. WeakenBody(D, b, Cube(D, m, a), ignore) = WeakenPDnf(D, b, Cube(D, m, a), ignore)
    BY <1>3 DEF WeakenBody, Cnf, Naive, PDnf
  <2> QED BY <1>3, <2>1, WeakenPDnfIs
<1> QED BY <1>1, <1>2, <1>3 DEF IsDomain

-----------------------------------------------------------------------------
(* weaken_add                                                              *)

(* What a call may add: bodies that hold from its block on, and that are   *)
(* weaker than ones that did not.                                          *)
Allowed(D, m, i, c) ==
  c.self.bodies \cup {w \in Bodies(D) : TrueFrom(D, w, m, c.asgn, i) /\ \E b \in c.to_weaken : Weaker(D, b, w)}

(* What a function of the calls of a block may do.                         *)
Weakenings(D, m, i) ==
  {f \in [Calls(D, m, i) -> Sets(D)] : \A c \in Calls(D, m, i) : f[c].bodies \subseteq Allowed(D, m, i, c)}

(* What is inserted into a set of bodies and removed from one.             *)
LEMMA SetsAre ==
  ASSUME NEW D
  PROVE  /\ \A s \in Sets(D) : s.bodies \in SUBSET Bodies(D) /\ s.twice \in BOOLEAN
         /\ \A s \in Sets(D) : \A set : /\ Without(s, set) \in Sets(D) /\ Without(s, set).bodies = s.bodies \ set
         /\ \A s \in Sets(D), set \in SUBSET Bodies(D) :
              InsertAll(s, set) \in Sets(D) /\ InsertAll(s, set).bodies = s.bodies \cup set
<1>1. \A s \in Sets(D) : /\ s.bodies \in SUBSET Bodies(D) /\ s.twice \in BOOLEAN
                         /\ s = [bodies |-> s.bodies, twice |-> s.twice]
  BY DEF Sets
<1>2. ASSUME NEW s \in Sets(D), NEW set
      PROVE  Without(s, set) \in Sets(D) /\ Without(s, set).bodies = s.bodies \ set
  <2>1. Without(s, set) = [bodies |-> s.bodies \ set, twice |-> s.twice]
    BY <1>1 DEF Without
  <2>2. s.bodies \ set \in SUBSET Bodies(D)
    BY <1>1
  <2> QED BY <1>1, <2>1, <2>2 DEF Sets
<1>3. ASSUME NEW s \in Sets(D), NEW set \in SUBSET Bodies(D)
      PROVE  InsertAll(s, set) \in Sets(D) /\ InsertAll(s, set).bodies = s.bodies \cup set
  <2> DEFINE t == s.twice \/ s.bodies \cap set # {}
  <2>1. t \in BOOLEAN
    BY <1>1
  <2>2. InsertAll(s, set) = [bodies |-> s.bodies \cup set, twice |-> t]
    BY DEF InsertAll
  <2> HIDE DEF t
  <2>3. s.bodies \cup set \in SUBSET Bodies(D)
    BY <1>1
  <2> QED BY <2>1, <2>2, <2>3 DEF Sets
<1> QED BY <1>1, <1>2, <1>3

(* The arguments of a call, and what they become.                          *)
LEMMA CallsAre ==
  ASSUME NEW D, NEW m, NEW i
  PROVE  /\ \A c \in Calls(D, m, i) :
              /\ c.self \in Sets(D) /\ c.to_weaken \in SUBSET Bodies(D) /\ c.asgn \in Assignments(D, m, i)
              /\ c.perm_index \in Nat /\ c.prev_exists \in BOOLEAN
              /\ NewIgnore(c) \in SUBSET [set : SUBSET Bodies(D), perm_index : Nat]
         /\ \A c \in Calls(D, m, i) : \A set :
              Removed(D, c, set) \in Sets(D) /\ Removed(D, c, set).bodies \subseteq c.self.bodies
<1>1. ASSUME NEW c \in Calls(D, m, i)
      PROVE  /\ c.self \in Sets(D) /\ c.to_weaken \in SUBSET Bodies(D) /\ c.asgn \in Assignments(D, m, i)
             /\ c.perm_index \in Nat /\ c.prev_exists \in BOOLEAN
             /\ c.ignore \in SUBSET [set : SUBSET Bodies(D), perm_index : Nat]
  BY DEF Calls
<1>2. ASSUME NEW c \in Calls(D, m, i)
      PROVE  NewIgnore(c) \in SUBSET [set : SUBSET Bodies(D), perm_index : Nat]
  <2>1. c.self.bodies \in SUBSET Bodies(D)
    BY <1>1, SetsAre
  <2>2. [set |-> c.self.bodies, perm_index |-> c.perm_index] \in [set : SUBSET Bodies(D), perm_index : Nat]
    BY <1>1, <2>1
  <2> QED BY <1>1, <2>2 DEF NewIgnore
<1>3. ASSUME NEW c \in Calls(D, m, i), NEW set
      PROVE  Removed(D, c, set) \in Sets(D) /\ Removed(D, c, set).bodies \subseteq c.self.bodies
  <2> DEFINE gone == UNION {GetSubsumed(D, c.self.bodies, b, c.perm_index) : b \in set}
  <2>1. Removed(D, c, set) = IF c.prev_exists THEN Without(c.self, gone) ELSE c.self
    BY DEF Removed, RemoveSubsumed
  <2> HIDE DEF gone
  <2>2. Without(c.self, gone) \in Sets(D) /\ Without(c.self, gone).bodies = c.self.bodies \ gone
    BY <1>1, SetsAre
  <2> QED BY <1>1, <2>1, <2>2
<1> QED BY <1>1, <1>2, <1>3

(* Past the prefix, the bodies are weakened by the cube of the assignment. *)
LEMMA AddWeakenedIs ==
  ASSUME NEW D, IsDomain(D), NEW m, NEW c \in Calls(D, m, Depth(D) + 1)
  PROVE  /\ AddWeakened(D, m, c) \in Sets(D)
         /\ AddWeakened(D, m, c).bodies \subseteq Allowed(D, m, Depth(D) + 1, c)
<1> DEFINE weakened == UNION {WeakenBody(D, b, Cube(D, m, c.asgn), NewIgnore(c)) : b \in c.to_weaken}
           based == {FromBase(D, w) : w \in weakened}
           min == Minimized(D, based, c.perm_index)
           new == {w \in Bodies(D) : TrueUnder(D, w, m, c.asgn) /\ \E b \in c.to_weaken : Weaker(D, b, w)}
<1>1. c.asgn \in Assignments(D, m, Depth(D) + 1) /\ c.to_weaken \in SUBSET Bodies(D) /\ c.self \in Sets(D)
  BY CallsAre
<1>2. AddWeakened(D, m, c) = InsertAll(Removed(D, c, min), min)
  BY DEF AddWeakened
<1>3. ASSUME NEW w \in weakened
      PROVE  w \in Bodies(D) /\ TrueUnder(D, w, m, c.asgn) /\ \E b \in c.to_weaken : Weaker(D, b, w)
  <2>1. PICK b \in c.to_weaken : w \in WeakenBody(D, b, Cube(D, m, c.asgn), NewIgnore(c))
    OBVIOUS
  <2>2. b \in Bodies(D)
    BY <1>1
  <2>3. w \in Admissible(D, b, m, c.asgn)
    BY <2>1, <2>2, WeakenBodyIs
  <2> QED BY <2>3 DEF Admissible
<1>4. based \subseteq new
  <2> HIDE DEF weakened
  <2>1. ASSUME NEW w \in weakened PROVE FromBase(D, w) \in new
    <3>1. w \in Bodies(D) /\ TrueUnder(D, w, m, c.asgn)
      BY <1>3
    <3>2. PICK b \in c.to_weaken : Weaker(D, b, w)
      BY <1>3
    <3>3. FromBase(D, w) \in Bodies(D) /\ \A n, a : TrueUnder(D, FromBase(D, w), n, a) <=> TrueUnder(D, w, n, a)
      BY <3>1, FromBaseIs
    <3>4. Weaker(D, b, FromBase(D, w))
      BY <3>2, <3>3 DEF Weaker
    <3> QED BY <3>1, <3>3, <3>4
  <2> HIDE DEF new
  <2> QED BY <2>1
<1>5. min \subseteq new
  <2> HIDE DEF based
  <2>1. IsFiniteSet(based)
    <3>1. based \in SUBSET Bodies(D)
      BY <1>4
    <3> QED BY <3>1, LiteralsFinite, FS_Subset
  <2>2. min \subseteq based
    BY <2>1, MinimizedSubset
  <2> QED BY <1>4, <2>2
<1>6. new \subseteq Allowed(D, m, Depth(D) + 1, c)
  <2>1. \A w : TrueFrom(D, w, m, c.asgn, Depth(D) + 1) = TrueUnder(D, w, m, c.asgn)
    BY <1>1, TrueFromIs
  <2> QED BY <2>1 DEF Allowed
<1>7. c.self.bodies \subseteq Allowed(D, m, Depth(D) + 1, c)
  BY DEF Allowed
<1>8. new \subseteq Bodies(D)
  OBVIOUS
<1> HIDE DEF min, new
<1>9. Removed(D, c, min) \in Sets(D) /\ Removed(D, c, min).bodies \subseteq c.self.bodies
  BY CallsAre
<1>10. min \in SUBSET Bodies(D)
  BY <1>5, <1>8
<1>11. /\ InsertAll(Removed(D, c, min), min) \in Sets(D)
       /\ InsertAll(Removed(D, c, min), min).bodies = Removed(D, c, min).bodies \cup min
  BY <1>9, <1>10, SetsAre
<1> QED BY <1>2, <1>5, <1>6, <1>7, <1>9, <1>11

(* What holds from a block on, by the list of assignments that the code    *)
(* goes through.                                                           *)
LEMMA TrueFromForall ==
  ASSUME NEW D, IsDomain(D), NEW m, m.size \in Nat, NEW i \in 1 .. Depth(D), NEW a \in Assignments(D, m, i)
  PROVE  /\ Extended(D, m, a, i) \in Seq(Assignments(D, m, i + 1))
         /\ Prefix(D)[i].quantifier = "forall" =>
              \A w : TrueFrom(D, w, m, a, i) <=>
                \A k \in 1 .. Len(Extended(D, m, a, i)) : TrueFrom(D, w, m, Extended(D, m, a, i)[k], i + 1)
         /\ Prefix(D)[i].quantifier # "forall" =>
              \A w : TrueFrom(D, w, m, a, i) <=>
                \E k \in 1 .. Len(Extended(D, m, a, i)) : TrueFrom(D, w, m, Extended(D, m, a, i)[k], i + 1)
<1> DEFINE s == Extended(D, m, a, i)
           X == Extensions(D, m, a, i)
           T(w, e) == TrueFrom(D, w, m, e, i + 1)
<1>1. X \subseteq Assignments(D, m, i + 1) /\ s \in Lists(X)
  BY ExtensionsAre
<1>2. s \in Seq(X) /\ X = {s[k] : k \in 1 .. Len(s)}
  <2> HIDE DEF s, X
  <2> QED BY <1>1, ListsIs
<1>3. Prefix(D)[i].quantifier = "forall" => \A w : TrueFrom(D, w, m, a, i) <=> \A e \in X : T(w, e)
  BY TrueFromIs
<1>4. Prefix(D)[i].quantifier # "forall" => \A w : TrueFrom(D, w, m, a, i) <=> \E e \in X : T(w, e)
  BY TrueFromIs
<1> HIDE DEF s, X, T
<1>5. \A w : (\A e \in X : T(w, e)) <=> \A k \in 1 .. Len(s) : T(w, s[k])
  BY <1>2
<1>6. \A w : (\E e \in X : T(w, e)) <=> \E k \in 1 .. Len(s) : T(w, s[k])
  BY <1>2
<1>7. s \in Seq(Assignments(D, m, i + 1))
  <2> DEFINE A == Assignments(D, m, i + 1)
  <2>1. X \subseteq A
    BY <1>1
  <2> HIDE DEF A
  <2>2. s \in Seq(A)
    <3>1. Len(s) \in Nat /\ s = [k \in 1 .. Len(s) |-> s[k]] /\ \A k \in 1 .. Len(s) : s[k] \in A
      BY <1>2, <2>1
    <3> QED BY <3>1, IsSeq
  <2> QED BY <2>2 DEF A
<1>8. Prefix(D)[i].quantifier = "forall" => \A w : TrueFrom(D, w, m, a, i) <=> \A k \in 1 .. Len(s) : T(w, s[k])
  BY <1>3, <1>5
<1>9. Prefix(D)[i].quantifier # "forall" => \A w : TrueFrom(D, w, m, a, i) <=> \E k \in 1 .. Len(s) : T(w, s[k])
  BY <1>4, <1>6
<1> QED BY <1>7, <1>8, <1>9 DEF s, T

(* An existential block.                                                   *)
LEMMA AddExistsIs ==
  ASSUME NEW D, IsDomain(D), NEW m, m.size \in Nat, NEW i \in 1 .. Depth(D),
         Prefix(D)[i].quantifier # "forall", NEW c \in Calls(D, m, i), NEW below \in Weakenings(D, m, i + 1)
  PROVE  /\ AddExists(D, m, i, c, below) \in Sets(D)
         /\ AddExists(D, m, i, c, below).bodies \subseteq Allowed(D, m, i, c)
<1> DEFINE asgns == Extended(D, m, c.asgn, i)
           n == Len(asgns)
           new == Allowed(D, m, i, c)
           Ty == [k \in 0 .. n |-> {s \in Sets(D) : s.bodies \subseteq new}]
           t == c.self
           Call(s, a) == [self |-> s, to_weaken |-> c.to_weaken, asgn |-> a, perm_index |-> c.perm_index,
                          prev_exists |-> TRUE, ignore |-> c.ignore]
           E(k, s) == below[Call(s, asgns[k])]
           G == [p \in (1 .. n) \X UNION {Ty[k] : k \in 0 .. n} |-> E(p[1], p[2])]
           F(f) == [k \in 0 .. n |-> IF k = 0 THEN t ELSE E(k, f[k - 1])]
           f == CHOOSE g : g = F(g)
<1>0. /\ c.self \in Sets(D) /\ c.to_weaken \in SUBSET Bodies(D) /\ c.asgn \in Assignments(D, m, i)
      /\ asgns \in Seq(Assignments(D, m, i + 1))
      /\ \A w : TrueFrom(D, w, m, c.asgn, i) <=> \E k \in 1 .. Len(asgns) : TrueFrom(D, w, m, asgns[k], i + 1)
  <2>1. c.self \in Sets(D) /\ c.to_weaken \in SUBSET Bodies(D) /\ c.asgn \in Assignments(D, m, i)
    BY CallsAre
  <2> QED BY <2>1, TrueFromForall
<1>1. n \in Nat /\ \A k \in 1 .. n : asgns[k] \in Assignments(D, m, i + 1)
  <2> HIDE DEF asgns
  <2> DEFINE A == Assignments(D, m, i + 1)
  <2>1. asgns \in Seq(A)
    BY <1>0
  <2> HIDE DEF A
  <2>2. Len(asgns) \in Nat /\ \A k \in 1 .. Len(asgns) : asgns[k] \in A
    BY <2>1
  <2> QED BY <2>2 DEF A
<1>2. \A k \in 0 .. n : \A s : s \in Ty[k] <=> s \in Sets(D) /\ s.bodies \subseteq new
  OBVIOUS
<1> HIDE DEF Ty, n
<1>3. 0 \in 0 .. n /\ t \in Ty[0]
  <2>1. 0 \in 0 .. n
    BY <1>1
  <2>2. c.self.bodies \subseteq new
    BY DEF Allowed
  <2> HIDE DEF new
  <2> QED BY <1>0, <1>2, <2>1, <2>2
<1> HIDE DEF t, asgns, new
<1>4. \A k \in 1 .. n : \A s \in Ty[k - 1] : E(k, s) \in Ty[k]
  <2> TAKE k \in 1 .. n
  <2> TAKE s \in Ty[k - 1]
  <2>1. k \in 0 .. n /\ k - 1 \in 0 .. n
    BY <1>1
  <2>2. s \in Sets(D) /\ s.bodies \subseteq new
    BY <1>2, <2>1
  <2> DEFINE call == Call(s, asgns[k])
  <2>3. call = [self |-> s, to_weaken |-> c.to_weaken, asgn |-> asgns[k], perm_index |-> c.perm_index,
                prev_exists |-> TRUE, ignore |-> c.ignore]
    OBVIOUS
  <2>4. call \in Calls(D, m, i + 1)
    <3>1. asgns[k] \in Assignments(D, m, i + 1)
      BY <1>1
    <3>2. c.perm_index \in Nat /\ c.ignore \in SUBSET [set : SUBSET Bodies(D), perm_index : Nat]
      BY DEF Calls
    <3> HIDE DEF call
    <3> QED BY <1>0, <2>2, <2>3, <3>1, <3>2 DEF Calls
  <2>5. call.self = s /\ call.to_weaken = c.to_weaken /\ call.asgn = asgns[k]
    BY <2>3
  <2> HIDE DEF call
  <2>6. below[call] \in Sets(D) /\ below[call].bodies \subseteq Allowed(D, m, i + 1, call)
    BY <2>4 DEF Weakenings
  <2>7. Allowed(D, m, i + 1, call) \subseteq new
    <3>1. \A w : TrueFrom(D, w, m, asgns[k], i + 1) => TrueFrom(D, w, m, c.asgn, i)
      BY <1>0 DEF n
    <3>2. ASSUME NEW w \in Allowed(D, m, i + 1, call), w \notin s.bodies PROVE w \in new
      <4>1. /\ w \in Bodies(D) /\ TrueFrom(D, w, m, asgns[k], i + 1)
            /\ \E b \in c.to_weaken : Weaker(D, b, w)
        BY <2>5, <3>2 DEF Allowed
      <4> QED BY <3>1, <4>1 DEF Allowed, new
    <3> QED BY <2>2, <3>2
  <2> QED BY <1>2, <2>1, <2>6, <2>7 DEF call
<1> HIDE DEF E
<1>5. \A k \in 1 .. n : \A s \in Ty[k - 1] : G[<<k, s>>] = E(k, s)
  <2> TAKE k \in 1 .. n
  <2> TAKE s \in Ty[k - 1]
  <2>1. k - 1 \in 0 .. n
    BY <1>1
  <2> QED BY <2>1
<1> HIDE DEF G
<1>6. PICK g : Ascends(g, n, Ty, t, G)
  <2>1. \A k \in 1 .. n : \A s \in Ty[k - 1] : G[<<k, s>>] \in Ty[k]
    BY <1>4, <1>5
  <2> QED BY <1>1, <1>3, <2>1, Ascent
<1>7. g = F(g)
  <2>1. \A k \in 1 .. n : g[k] = E(k, g[k - 1])
    <3> TAKE k \in 1 .. n
    <3>1. k - 1 \in 0 .. n
      BY <1>1
    <3>2. g[k] = G[<<k, g[k - 1]>>] /\ g[k - 1] \in Ty[k - 1]
      BY <1>6, <3>1 DEF Ascends
    <3> QED BY <1>5, <3>2
  <2>2. g = [k \in 0 .. n |-> g[k]] /\ g[0] = t
    BY <1>6 DEF Ascends
  <2>3. \A k \in 0 .. n : g[k] = F(g)[k]
    <3> TAKE k \in 0 .. n
    <3>1. CASE k = 0
      BY <2>2, <3>1
    <3>2. CASE k # 0
      <4>1. k \in 1 .. n
        BY <1>1, <3>2
      <4> QED BY <2>1, <3>2, <4>1
    <3> QED BY <3>1, <3>2
  <2> QED BY <2>2, <2>3
<1>8. f = F(f)
  <2> HIDE DEF F
  <2> QED BY <1>7
<1>9. AddExists(D, m, i, c, below) = f[n]
  BY DEF AddExists, E, t, n, asgns
<1> HIDE DEF f
<1>10. \A k \in 0 .. n : f[k] \in Ty[k]
  <2>1. \A k \in 0 .. n : f[k] = IF k = 0 THEN t ELSE E(k, f[k - 1])
    <3> DEFINE H == F(f)
    <3>1. \A k \in 0 .. n : H[k] = IF k = 0 THEN t ELSE E(k, f[k - 1])
      OBVIOUS
    <3>2. f = H
      BY <1>8
    <3> HIDE DEF H
    <3> QED BY <3>1, <3>2
  <2> DEFINE P == {k \in 0 .. n : f[k] \in Ty[k]}
  <2>2. 0 \in P
    BY <1>3, <2>1
  <2>3. \A k \in 1 .. n : k - 1 \in P => k \in P
    <3> TAKE k \in 1 .. n
    <3>1. k \in 0 .. n /\ k # 0
      BY <1>1
    <3> QED BY <1>4, <2>1, <3>1
  <2> HIDE DEF P
  <2>4. \A k \in 0 .. n : k \in P
    BY <1>1, <2>2, <2>3, Along
  <2> QED BY <2>4 DEF P
<1>11. n \in 0 .. n /\ f[n] \in Ty[n]
  BY <1>1, <1>10
<1> QED BY <1>2, <1>9, <1>11 DEF new

(* The bodies that one assignment after the other made of those to weaken. *)
Made(D, m, i, set, asgns, k) ==
  {w \in Bodies(D) : /\ \E b \in set : Weaker(D, b, w)
                     /\ \A j \in 1 .. k : TrueFrom(D, w, m, asgns[j], i + 1)}

(* One assignment of a universal block.                                    *)
LEMMA MadeNext ==
  ASSUME NEW D, IsDomain(D), NEW m, m.size \in Nat, NEW i \in 1 .. Depth(D),
         NEW set \in SUBSET Bodies(D), NEW asgns \in Seq(Assignments(D, m, i + 1)), NEW k \in 1 .. Len(asgns),
         NEW acc \in Sets(D), acc.bodies \subseteq Made(D, m, i, set, asgns, k - 1),
         NEW call, call.self = Without(acc, Unsat(D, acc.bodies, m, asgns[k], i + 1)),
         call.to_weaken = Unsat(D, acc.bodies, m, asgns[k], i + 1), call.asgn = asgns[k]
  PROVE  /\ call.self \in Sets(D) /\ call.to_weaken \in SUBSET Bodies(D)
         /\ call.asgn \in Assignments(D, m, i + 1)
         /\ Allowed(D, m, i + 1, call) \subseteq Made(D, m, i, set, asgns, k)
<1> DEFINE unsat == Unsat(D, acc.bodies, m, asgns[k], i + 1)
           new == Made(D, m, i, set, asgns, k)
           A == Assignments(D, m, i + 1)
<1>1. i \in Nat /\ i + 1 \in 1 .. Depth(D) + 1
  BY DomainIs
<1>2. asgns[k] \in A /\ \A j \in 1 .. Len(asgns) : asgns[j] \in A
  <2>1. asgns \in Seq(A)
    OBVIOUS
  <2> HIDE DEF A
  <2> QED BY <2>1
<1>3. acc.bodies \in SUBSET Bodies(D)
  BY SetsAre
<1>4. unsat = {b \in acc.bodies : ~TrueFrom(D, b, m, asgns[k], i + 1)}
  BY <1>1, <1>2, <1>3, UnsatExact
<1> HIDE DEF unsat
<1>5. call.self \in Sets(D) /\ call.self.bodies = acc.bodies \ unsat
  <2>1. call.self = Without(acc, unsat)
    BY DEF unsat
  <2> QED BY <2>1, SetsAre
<1>6. call.to_weaken = unsat /\ unsat \in SUBSET Bodies(D)
  BY <1>3, <1>4 DEF unsat
<1>7. Len(asgns) \in Nat /\ k \in Nat /\ \A j \in 1 .. k : j = k \/ (j \in 1 .. k - 1 /\ j \in 1 .. Len(asgns))
  <2> DEFINE n == Len(asgns)
  <2>1. n \in Nat /\ k \in 1 .. n
    OBVIOUS
  <2> HIDE DEF n
  <2>2. k \in Nat /\ \A j \in 1 .. k : j = k \/ (j \in 1 .. k - 1 /\ j \in 1 .. n)
    BY <2>1
  <2> QED BY <2>1, <2>2 DEF n
<1>8. ASSUME NEW w \in acc.bodies PROVE /\ w \in Bodies(D) /\ \E b \in set : Weaker(D, b, w)
                                        /\ \A j \in 1 .. k - 1 : TrueFrom(D, w, m, asgns[j], i + 1)
  BY DEF Made
<1>9. acc.bodies \ unsat \subseteq new
  <2>1. ASSUME NEW w \in acc.bodies \ unsat PROVE w \in new
    <3>1. TrueFrom(D, w, m, asgns[k], i + 1)
      BY <1>4
    <3>2. \A j \in 1 .. k : TrueFrom(D, w, m, asgns[j], i + 1)
      BY <1>7, <1>8, <3>1
    <3> QED BY <1>8, <3>2 DEF Made
  <2> QED BY <2>1
<1>10. ASSUME NEW w \in Bodies(D), TrueFrom(D, w, m, asgns[k], i + 1), NEW b \in unsat, Weaker(D, b, w)
       PROVE  w \in new
  <2>1. b \in acc.bodies
    BY <1>4
  <2>2. \E d \in set : Weaker(D, d, w)
    <3>1. PICK d \in set : Weaker(D, d, b)
      BY <1>8, <2>1
    <3>2. Weaker(D, d, w)
      BY <1>10, <3>1, WeakerTrans
    <3> QED BY <3>2
  <2>3. ASSUME NEW j \in 1 .. k PROVE TrueFrom(D, w, m, asgns[j], i + 1)
    <3>1. CASE j = k
      BY <1>10, <3>1
    <3>2. CASE j \in 1 .. k - 1 /\ j \in 1 .. Len(asgns)
      <4>1. TrueFrom(D, b, m, asgns[j], i + 1)
        BY <1>8, <2>1, <3>2
      <4>2. asgns[j] \in Assignments(D, m, i + 1)
        BY <1>2, <3>2
      <4> QED BY <1>1, <1>10, <4>1, <4>2, WeakerFrom
    <3> QED BY <1>7, <3>1, <3>2
  <2> QED BY <2>2, <2>3 DEF Made
<1>11. Allowed(D, m, i + 1, call) \subseteq new
  <2>1. ASSUME NEW w \in Allowed(D, m, i + 1, call) PROVE w \in new
    <3>1. CASE w \in call.self.bodies
      BY <1>5, <1>9, <3>1
    <3>2. CASE /\ w \in Bodies(D) /\ TrueFrom(D, w, m, asgns[k], i + 1)
               /\ \E b \in unsat : Weaker(D, b, w)
      BY <1>10, <3>2
    <3> QED BY <1>6, <2>1, <3>1, <3>2 DEF Allowed
  <2> QED BY <2>1
<1> QED BY <1>2, <1>5, <1>6, <1>11

(* A universal block.                                                      *)
LEMMA AddForallIs ==
  ASSUME NEW D, IsDomain(D), NEW m, m.size \in Nat, NEW i \in 1 .. Depth(D),
         Prefix(D)[i].quantifier = "forall", NEW c \in Calls(D, m, i), NEW below \in Weakenings(D, m, i + 1)
  PROVE  /\ AddForall(D, m, i, c, below) \in Sets(D)
         /\ AddForall(D, m, i, c, below).bodies \subseteq Allowed(D, m, i, c)
<1> DEFINE asgns == Extended(D, m, c.asgn, i)
           n == Len(asgns)
           set == c.to_weaken
           Ty == [k \in 0 .. n |-> {s \in Sets(D) : s.bodies \subseteq Made(D, m, i, set, asgns, k)}]
           t == [bodies |-> c.to_weaken, twice |-> c.self.twice]
           Call(s, a) == [self |-> Without(s, Unsat(D, s.bodies, m, a, i + 1)),
                          to_weaken |-> Unsat(D, s.bodies, m, a, i + 1), asgn |-> a,
                          perm_index |-> IF c.prev_exists THEN i ELSE c.perm_index,
                          prev_exists |-> FALSE, ignore |-> NewIgnore(c)]
           E(k, s) == below[Call(s, asgns[k])]
           G == [p \in (1 .. n) \X UNION {Ty[k] : k \in 0 .. n} |-> E(p[1], p[2])]
           F(f) == [k \in 0 .. n |-> IF k = 0 THEN t ELSE E(k, f[k - 1])]
           f == CHOOSE g : g = F(g)
           min == IF c.prev_exists THEN Minimized(D, f[n].bodies, c.perm_index) ELSE f[n].bodies
<1>0. /\ c.self \in Sets(D) /\ set \in SUBSET Bodies(D) /\ c.asgn \in Assignments(D, m, i)
      /\ asgns \in Seq(Assignments(D, m, i + 1))
      /\ \A w : TrueFrom(D, w, m, c.asgn, i) <=> \A k \in 1 .. Len(asgns) : TrueFrom(D, w, m, asgns[k], i + 1)
  <2>1. c.self \in Sets(D) /\ set \in SUBSET Bodies(D) /\ c.asgn \in Assignments(D, m, i)
    BY CallsAre
  <2> HIDE DEF set
  <2> QED BY <2>1, TrueFromForall
<1>1. n \in Nat
  BY <1>0
<1>2. \A k \in 0 .. n : \A s : s \in Ty[k] <=> s \in Sets(D) /\ s.bodies \subseteq Made(D, m, i, set, asgns, k)
  OBVIOUS
<1> HIDE DEF Ty
<1>3. 0 \in 0 .. n /\ t \in Ty[0]
  <2>1. 0 \in 0 .. n
    BY <1>1
  <2>2. t.bodies \subseteq Made(D, m, i, set, asgns, 0)
    <3>1. \A b \in set : Weaker(D, b, b)
      BY WeakerSelf
    <3>2. 1 .. 0 = {}
      OBVIOUS
    <3> HIDE DEF asgns
    <3> QED BY <1>0, <3>1, <3>2 DEF Made
  <2>3. t \in Sets(D)
    <3>1. c.self.twice \in BOOLEAN
      BY <1>0, SetsAre
    <3> QED BY <1>0, <3>1 DEF Sets
  <2> HIDE DEF t, n, asgns, set
  <2> QED BY <1>2, <2>1, <2>2, <2>3
<1> HIDE DEF t, asgns, set
<1>4. \A k \in 1 .. n : \A s \in Ty[k - 1] : E(k, s) \in Ty[k]
  <2> TAKE k \in 1 .. n
  <2> TAKE s \in Ty[k - 1]
  <2>1. k \in 0 .. n /\ k - 1 \in 0 .. n /\ k \in 1 .. Len(asgns)
    <3> DEFINE l == Len(asgns)
    <3>1. l \in Nat /\ k \in 1 .. l
      BY <1>1
    <3> HIDE DEF l
    <3>2. k \in 0 .. l /\ k - 1 \in 0 .. l
      BY <3>1
    <3> QED BY <3>1, <3>2 DEF l
  <2> HIDE DEF n
  <2>2. s \in Sets(D) /\ s.bodies \subseteq Made(D, m, i, set, asgns, k - 1)
    BY <1>2, <2>1
  <2> DEFINE call == Call(s, asgns[k])
             p == IF c.prev_exists THEN i ELSE c.perm_index
  <2>3. /\ call.self = Without(s, Unsat(D, s.bodies, m, asgns[k], i + 1))
        /\ call.to_weaken = Unsat(D, s.bodies, m, asgns[k], i + 1) /\ call.asgn = asgns[k]
        /\ call = [self |-> call.self, to_weaken |-> call.to_weaken, asgn |-> call.asgn, perm_index |-> p,
                   prev_exists |-> FALSE, ignore |-> NewIgnore(c)]
    OBVIOUS
  <2>4. p \in Nat /\ NewIgnore(c) \in SUBSET [set : SUBSET Bodies(D), perm_index : Nat]
    <3>1. /\ c.perm_index \in Nat
          /\ NewIgnore(c) \in SUBSET [set : SUBSET Bodies(D), perm_index : Nat]
      BY CallsAre
    <3>2. i \in Nat
      OBVIOUS
    <3> QED BY <3>1, <3>2
  <2> HIDE DEF call, p
  <2>5. /\ call.self \in Sets(D) /\ call.to_weaken \in SUBSET Bodies(D)
        /\ call.asgn \in Assignments(D, m, i + 1)
        /\ Allowed(D, m, i + 1, call) \subseteq Made(D, m, i, set, asgns, k)
    BY <1>0, <2>1, <2>2, <2>3, MadeNext
  <2>6. call \in Calls(D, m, i + 1)
    <3> DEFINE u == Unsat(D, s.bodies, m, asgns[k], i + 1)
               v == Without(s, u)
               a == asgns[k]
               o == NewIgnore(c)
    <3>1. /\ v \in Sets(D) /\ u \in SUBSET Bodies(D) /\ a \in Assignments(D, m, i + 1)
          /\ p \in Nat /\ FALSE \in BOOLEAN /\ o \in SUBSET [set : SUBSET Bodies(D), perm_index : Nat]
      BY <2>3, <2>4, <2>5
    <3>2. call = [self |-> v, to_weaken |-> u, asgn |-> a, perm_index |-> p, prev_exists |-> FALSE, ignore |-> o]
      BY DEF call, p
    <3> HIDE DEF u, v, a, o
    <3> QED BY <3>1, <3>2 DEF Calls
  <2>7. below[call] \in Sets(D) /\ below[call].bodies \subseteq Allowed(D, m, i + 1, call)
    BY <2>6 DEF Weakenings
  <2>8. E(k, s) = below[call]
    BY DEF call
  <2> HIDE DEF E
  <2> QED BY <1>2, <2>1, <2>5, <2>7, <2>8
<1> HIDE DEF E
<1>5. \A k \in 1 .. n : \A s \in Ty[k - 1] : G[<<k, s>>] = E(k, s)
  <2> TAKE k \in 1 .. n
  <2> TAKE s \in Ty[k - 1]
  <2>1. k - 1 \in 0 .. n
    BY <1>1
  <2> QED BY <2>1
<1> HIDE DEF G
<1>6. PICK g : Ascends(g, n, Ty, t, G)
  <2>1. \A k \in 1 .. n : \A s \in Ty[k - 1] : G[<<k, s>>] \in Ty[k]
    BY <1>4, <1>5
  <2> QED BY <1>1, <1>3, <2>1, Ascent
<1>7. g = F(g)
  <2>1. \A k \in 1 .. n : g[k] = E(k, g[k - 1])
    <3> TAKE k \in 1 .. n
    <3>1. k - 1 \in 0 .. n
      BY <1>1
    <3>2. g[k] = G[<<k, g[k - 1]>>] /\ g[k - 1] \in Ty[k - 1]
      BY <1>6, <3>1 DEF Ascends
    <3> QED BY <1>5, <3>2
  <2>2. g = [k \in 0 .. n |-> g[k]] /\ g[0] = t
    BY <1>6 DEF Ascends
  <2>3. \A k \in 0 .. n : g[k] = F(g)[k]
    <3> TAKE k \in 0 .. n
    <3>1. CASE k = 0
      BY <2>2, <3>1
    <3>2. CASE k # 0
      <4>1. k \in 1 .. n
        BY <1>1, <3>2
      <4> QED BY <2>1, <3>2, <4>1
    <3> QED BY <3>1, <3>2
  <2> QED BY <2>2, <2>3
<1>8. f = F(f)
  <2> HIDE DEF F
  <2> QED BY <1>7
<1>9. AddForall(D, m, i, c, below) = InsertAll([bodies |-> Removed(D, c, min).bodies, twice |-> f[n].twice], min)
  BY DEF AddForall, E, t, n, asgns
<1> HIDE DEF f, n
<1>10. \A k \in 0 .. n : f[k] \in Ty[k]
  <2>1. \A k \in 0 .. n : f[k] = IF k = 0 THEN t ELSE E(k, f[k - 1])
    <3> DEFINE H == F(f)
    <3>1. \A k \in 0 .. n : H[k] = IF k = 0 THEN t ELSE E(k, f[k - 1])
      OBVIOUS
    <3>2. f = H
      BY <1>8
    <3> HIDE DEF H
    <3> QED BY <3>1, <3>2
  <2> DEFINE P == {k \in 0 .. n : f[k] \in Ty[k]}
  <2>2. 0 \in P
    BY <1>3, <2>1
  <2>3. \A k \in 1 .. n : k - 1 \in P => k \in P
    <3> TAKE k \in 1 .. n
    <3>1. k \in 0 .. n /\ k # 0
      BY <1>1
    <3> QED BY <1>4, <2>1, <3>1
  <2> HIDE DEF P
  <2>4. \A k \in 0 .. n : k \in P
    BY <1>1, <2>2, <2>3, Along
  <2> QED BY <2>4 DEF P
<1>11. f[n] \in Sets(D) /\ f[n].bodies \subseteq Made(D, m, i, set, asgns, n)
  <2>1. n \in 0 .. n
    BY <1>1
  <2> QED BY <1>2, <1>10, <2>1
<1> DEFINE all == f[n]
           new == Allowed(D, m, i, c)
<1> HIDE DEF all
<1>12. all \in Sets(D) /\ all.bodies \subseteq Made(D, m, i, set, asgns, n)
  BY <1>11 DEF all
<1>13. all.bodies \subseteq new /\ all.bodies \in SUBSET Bodies(D)
  <2>1. ASSUME NEW w \in all.bodies PROVE w \in new /\ w \in Bodies(D)
    <3>1. /\ w \in Bodies(D) /\ \E b \in set : Weaker(D, b, w)
          /\ \A j \in 1 .. n : TrueFrom(D, w, m, asgns[j], i + 1)
      BY <1>12 DEF Made
    <3>2. TrueFrom(D, w, m, c.asgn, i)
      BY <1>0, <3>1 DEF n
    <3> QED BY <3>1, <3>2 DEF Allowed, set
  <2> QED BY <2>1
<1>14. min \subseteq all.bodies
  <2>1. min = IF c.prev_exists THEN Minimized(D, all.bodies, c.perm_index) ELSE all.bodies
    BY DEF all
  <2>2. IsFiniteSet(all.bodies)
    BY <1>13, LiteralsFinite, FS_Subset
  <2>3. Minimized(D, all.bodies, c.perm_index) \subseteq all.bodies
    <3> DEFINE A == all.bodies
    <3>1. IsFiniteSet(A)
      BY <2>2
    <3> HIDE DEF A
    <3>2. Minimized(D, A, c.perm_index) \subseteq A
      BY <3>1, MinimizedSubset
    <3> QED BY <3>2 DEF A
  <2> HIDE DEF min
  <2> QED BY <2>1, <2>3
<1> HIDE DEF min
<1>15. Removed(D, c, min) \in Sets(D) /\ Removed(D, c, min).bodies \subseteq c.self.bodies
  BY CallsAre
<1> DEFINE rest == [bodies |-> Removed(D, c, min).bodies, twice |-> all.twice]
<1>16. rest \in Sets(D) /\ rest.bodies \subseteq c.self.bodies
  <2>1. Removed(D, c, min).bodies \in SUBSET Bodies(D) /\ all.twice \in BOOLEAN
    BY <1>12, <1>15, SetsAre
  <2> QED BY <1>15, <2>1 DEF Sets
<1>17. c.self.bodies \subseteq new
  BY DEF Allowed
<1>18. AddForall(D, m, i, c, below) = InsertAll(rest, min)
  BY <1>9 DEF all
<1> HIDE DEF rest, new
<1>19. min \in SUBSET Bodies(D)
  BY <1>13, <1>14
<1>20. InsertAll(rest, min) \in Sets(D) /\ InsertAll(rest, min).bodies = rest.bodies \cup min
  BY <1>16, <1>19, SetsAre
<1> QED BY <1>13, <1>14, <1>16, <1>17, <1>18, <1>20 DEF new

(* A block without variables has one assignment to offer, the one it got.  *)
LEMMA EmptyBlock ==
  ASSUME NEW D, IsDomain(D), NEW m, NEW i \in 1 .. Depth(D), Prefix(D)[i].names = <<>>
  PROVE  /\ Assignments(D, m, i + 1) = Assignments(D, m, i)
         /\ \A a \in Assignments(D, m, i) : \A w : TrueFrom(D, w, m, a, i) <=> TrueFrom(D, w, m, a, i + 1)
<1> DEFINE A == Assignments(D, m, i)
           V == UNION {NamesOf(D, j) : j \in 1 .. i - 1}
<1>1. NamesOf(D, i) = {}
  BY DEF NamesOf
<1>2. i \in Nat /\ (i + 1) - 1 = i /\ \A j : j \in 1 .. i <=> j \in 1 .. i - 1 \/ j = i
  BY DomainIs
<1>3. UNION {NamesOf(D, j) : j \in 1 .. i} = V
  BY <1>1, <1>2
<1>4. Assignments(D, m, i + 1) = A /\ A = [V -> 0 .. m.size - 1]
  BY <1>2, <1>3 DEF Assignments
<1>5. ASSUME NEW a \in A PROVE Extensions(D, m, a, i) = {a}
  <2> HIDE DEF A, V
  <2>1. a \in [V -> 0 .. m.size - 1]
    BY <1>4
  <2>2. \A e \in [V -> 0 .. m.size - 1] : (\A x \in V : e[x] = a[x]) <=> e = a
    BY <2>1
  <2>3. Extensions(D, m, a, i) = {e \in A : \A x \in V : e[x] = a[x]}
    <3>1. DOMAIN a \ NamesOf(D, i) = V
      BY <1>1, <2>1
    <3> QED BY <1>4, <3>1 DEF Extensions
  <2> QED BY <1>4, <2>1, <2>2, <2>3
<1>6. ASSUME NEW a \in A, NEW w PROVE TrueFrom(D, w, m, a, i) <=> TrueFrom(D, w, m, a, i + 1)
  <2> DEFINE T(j, e) == TrueFrom(D, w, m, e, j)
             X == Extensions(D, m, a, i)
  <2>1. /\ Prefix(D)[i].quantifier = "forall" => (T(i, a) <=> \A e \in X : T(i + 1, e))
        /\ Prefix(D)[i].quantifier # "forall" => (T(i, a) <=> \E e \in X : T(i + 1, e))
    BY TrueFromIs
  <2>2. X = {a}
    BY <1>5
  <2> HIDE DEF T, X
  <2>3. (\A e \in X : T(i + 1, e)) <=> T(i + 1, a)
    BY <2>2
  <2>4. (\E e \in X : T(i + 1, e)) <=> T(i + 1, a)
    BY <2>2
  <2>5. T(i, a) <=> T(i + 1, a)
    BY <2>1, <2>3, <2>4, Zenon
  <2> QED BY <2>5 DEF T
<1> QED BY <1>4, <1>6

(* weaken_add adds only bodies that hold, weaker than ones it was given.   *)
LEMMA WeakenAddIs ==
  ASSUME NEW D, IsDomain(D), NEW m, m.size \in Nat
  PROVE  \A i \in 1 .. Depth(D) + 1 : \A c \in Calls(D, m, i) :
           WeakenAdd(D, m, i, c) \in Sets(D) /\ WeakenAdd(D, m, i, c).bodies \subseteq Allowed(D, m, i, c)
<1> DEFINE n == Depth(D)
           C(i) == Calls(D, m, i)
           T(c) == AddWeakened(D, m, c)
           U(c, i, g) == IF Prefix(D)[i].names = <<>> THEN g[c]
                         ELSE IF Prefix(D)[i].quantifier = "forall" THEN AddForall(D, m, i, c, g)
                         ELSE AddExists(D, m, i, c, g)
           Ty == [i \in 1 .. n + 1 |-> Weakenings(D, m, i)]
           t == [c \in C(n + 1) |-> IF c.to_weaken = {} THEN c.self ELSE T(c)]
           E(i, s) == [c \in C(i) |-> IF c.to_weaken = {} THEN c.self ELSE U(c, i, s)]
           G == [p \in (1 .. n) \X UNION {Ty[k] : k \in 1 .. n + 1} |-> E(p[1], p[2])]
           F(f) == [i \in 1 .. n + 1 |->
                      [c \in C(i) |-> IF c.to_weaken = {} THEN c.self
                                      ELSE IF i = n + 1 THEN T(c) ELSE U(c, i, f[i + 1])]]
           f == CHOOSE g : g = F(g)
<1>1. n \in Nat
  BY DomainIs
<1>2. \A i \in 1 .. n + 1 : \A s : s \in Ty[i] <=> s \in Weakenings(D, m, i)
  OBVIOUS
<1>3. \A i, c : c \in C(i) => c.self \in Sets(D) /\ c.self.bodies \subseteq Allowed(D, m, i, c)
  <2> TAKE i, c
  <2>1. HAVE c \in C(i)
  <2>2. c.self \in Sets(D)
    BY <2>1, CallsAre
  <2> QED BY <2>2 DEF Allowed
<1>4. \A c \in C(n + 1) : T(c) \in Sets(D) /\ T(c).bodies \subseteq Allowed(D, m, n + 1, c)
  BY AddWeakenedIs
<1>5. ASSUME NEW i \in 1 .. n, NEW s \in Weakenings(D, m, i + 1), NEW c \in C(i)
      PROVE  U(c, i, s) \in Sets(D) /\ U(c, i, s).bodies \subseteq Allowed(D, m, i, c)
  <2>1. CASE Prefix(D)[i].names = <<>>
    <3>1. /\ Assignments(D, m, i + 1) = Assignments(D, m, i)
          /\ \A a \in Assignments(D, m, i) : \A w : TrueFrom(D, w, m, a, i) <=> TrueFrom(D, w, m, a, i + 1)
      BY <2>1, EmptyBlock
    <3>2. c \in Calls(D, m, i + 1)
      BY <3>1 DEF Calls
    <3>3. s[c] \in Sets(D) /\ s[c].bodies \subseteq Allowed(D, m, i + 1, c)
      BY <3>2 DEF Weakenings
    <3>4. c.asgn \in Assignments(D, m, i)
      BY CallsAre
    <3>5. Allowed(D, m, i + 1, c) \subseteq Allowed(D, m, i, c)
      <4>1. \A w : TrueFrom(D, w, m, c.asgn, i) <=> TrueFrom(D, w, m, c.asgn, i + 1)
        BY <3>1, <3>4
      <4> QED BY <4>1 DEF Allowed
    <3> QED BY <2>1, <3>3, <3>5
  <2>2. CASE Prefix(D)[i].names # <<>> /\ Prefix(D)[i].quantifier = "forall"
    BY <2>2, AddForallIs
  <2>3. CASE Prefix(D)[i].names # <<>> /\ Prefix(D)[i].quantifier # "forall"
    BY <2>3, AddExistsIs
  <2> QED BY <2>1, <2>2, <2>3
<1> HIDE DEF n, C, T, U, Ty
<1>6. \A i : \A s : s \in [C(i) -> Sets(D)] /\ (\A c \in C(i) : s[c].bodies \subseteq Allowed(D, m, i, c))
                      => s \in Weakenings(D, m, i)
  BY DEF Weakenings, C
<1>7. t \in Ty[n + 1]
  <2>1. n + 1 \in 1 .. n + 1
    BY <1>1
  <2>2. \A c \in C(n + 1) : t[c] \in Sets(D) /\ t[c].bodies \subseteq Allowed(D, m, n + 1, c)
    BY <1>3, <1>4
  <2>3. t \in [C(n + 1) -> Sets(D)]
    BY <2>2
  <2> HIDE DEF t
  <2>4. t \in Weakenings(D, m, n + 1)
    BY <1>6, <2>2, <2>3
  <2> QED BY <1>2, <2>1, <2>4
<1> HIDE DEF t
<1>8. \A i \in 1 .. n : \A s \in Ty[i + 1] : E(i, s) \in Ty[i] /\ G[<<i, s>>] = E(i, s)
  <2> TAKE i \in 1 .. n
  <2> TAKE s \in Ty[i + 1]
  <2>1. i \in 1 .. n + 1 /\ i + 1 \in 1 .. n + 1
    BY <1>1
  <2>2. s \in Weakenings(D, m, i + 1)
    BY <1>2, <2>1
  <2>3. \A c \in C(i) : E(i, s)[c] \in Sets(D) /\ E(i, s)[c].bodies \subseteq Allowed(D, m, i, c)
    BY <1>3, <1>5, <2>2
  <2>4. E(i, s) \in [C(i) -> Sets(D)]
    BY <2>3
  <2> HIDE DEF E
  <2>5. G[<<i, s>>] = E(i, s)
    BY <2>1
  <2>6. E(i, s) \in Weakenings(D, m, i)
    BY <1>6, <2>3, <2>4
  <2> QED BY <1>2, <2>1, <2>5, <2>6
<1>9. PICK g : Descends(g, n, Ty, t, G)
  <2>1. \A i \in 1 .. n : \A s \in Ty[i + 1] : G[<<i, s>>] \in Ty[i]
    BY <1>8
  <2> HIDE DEF G
  <2> QED BY <1>1, <1>7, <2>1, Descent
<1>10. g = F(g)
  <2>1. \A i \in 1 .. n : g[i] = E(i, g[i + 1])
    <3> HIDE DEF G, E
    <3> TAKE i \in 1 .. n
    <3>1. i + 1 \in 1 .. n + 1
      BY <1>1
    <3>2. g[i] = G[<<i, g[i + 1]>>] /\ g[i + 1] \in Ty[i + 1]
      BY <1>9, <3>1 DEF Descends
    <3> QED BY <1>8, <3>2
  <2>2. g = [i \in 1 .. n + 1 |-> g[i]] /\ g[n + 1] = t
    BY <1>9 DEF Descends
  <2>3. \A i \in 1 .. n + 1 : g[i] = F(g)[i]
    <3> TAKE i \in 1 .. n + 1
    <3>1. CASE i = n + 1
      BY <2>2, <3>1 DEF t
    <3>2. CASE i # n + 1
      <4>1. i \in 1 .. n
        BY <1>1, <3>2
      <4> QED BY <2>1, <3>2, <4>1
    <3> QED BY <3>1, <3>2
  <2> QED BY <2>2, <2>3
<1>11. f = F(f)
  <2> HIDE DEF F
  <2> QED BY <1>10
<1>12. \A i, c : WeakenAdd(D, m, i, c) = f[i][c]
  BY DEF WeakenAdd, n, C, T, U, Depth
<1> HIDE DEF f
<1>13. f[n + 1] = t /\ \A i \in 1 .. n : f[i] = E(i, f[i + 1])
  <2> DEFINE H == F(f)
  <2>1. \A i \in 1 .. n + 1 :
          H[i] = [c \in C(i) |-> IF c.to_weaken = {} THEN c.self ELSE IF i = n + 1 THEN T(c) ELSE U(c, i, f[i + 1])]
    OBVIOUS
  <2>2. f = H
    BY <1>11
  <2> HIDE DEF H
  <2>3. \A i \in 1 .. n + 1 :
          f[i] = [c \in C(i) |-> IF c.to_weaken = {} THEN c.self ELSE IF i = n + 1 THEN T(c) ELSE U(c, i, f[i + 1])]
    BY <2>1, <2>2
  <2>4. n + 1 \in 1 .. n + 1 /\ \A i \in 1 .. n : i \in 1 .. n + 1 /\ i # n + 1
    BY <1>1
  <2> QED BY <2>3, <2>4 DEF t
<1>14. \A i \in 1 .. n + 1 : f[i] \in Ty[i]
  <2> DEFINE P == {i \in 1 .. n + 1 : f[i] \in Ty[i]}
  <2>1. n + 1 \in P
    <3>1. n + 1 \in 1 .. n + 1
      BY <1>1
    <3> QED BY <1>7, <1>13, <3>1
  <2>2. \A i \in 1 .. n : i + 1 \in P => i \in P
    <3> HIDE DEF E
    <3> TAKE i \in 1 .. n
    <3>1. i \in 1 .. n + 1
      BY <1>1
    <3> QED BY <1>8, <1>13, <3>1
  <2> HIDE DEF P
  <2>3. \A i \in 1 .. n + 1 : i \in P
    BY <1>1, <2>1, <2>2, Back
  <2> QED BY <2>3 DEF P
<1>15. ASSUME NEW i \in 1 .. n + 1, NEW c \in C(i)
       PROVE  f[i][c] \in Sets(D) /\ f[i][c].bodies \subseteq Allowed(D, m, i, c)
  <2>1. f[i] \in Weakenings(D, m, i)
    BY <1>2, <1>14
  <2> QED BY <2>1 DEF Weakenings, C
<1> QED BY <1>12, <1>15 DEF n, C

(* PrefixLemmaSet::weaken keeps what holds, and adds what holds and is     *)
(* weaker than what did not.                                               *)
LEMMA WeakenedByIs ==
  ASSUME NEW D, IsDomain(D), NEW m, m.size \in Nat, NEW set \in SUBSET Bodies(D)
  PROVE  \A w \in WeakenedBy(D, set, m).bodies :
           /\ w \in Bodies(D) /\ Holds(D, w, m)
           /\ \E b \in set : Weaker(D, b, w)
<1> DEFINE a == EmptyAssignment
           unsat == Unsat(D, set, m, a, 1)
           kept == [bodies |-> set \ unsat, twice |-> FALSE]
           call == [self |-> kept, to_weaken |-> unsat, asgn |-> a, perm_index |-> 1, prev_exists |-> FALSE,
                    ignore |-> {}]
<1>1. 1 \in 1 .. Depth(D) + 1
  BY DomainIs
<1>2. a \in Assignments(D, m, 1)
  <2>1. UNION {NamesOf(D, i) : i \in 1 .. 1 - 1} = {}
    <3>1. 1 .. 1 - 1 = {}
      OBVIOUS
    <3> QED BY <3>1
  <2> QED BY <2>1 DEF Assignments, EmptyAssignment
<1> HIDE DEF a
<1>3. unsat = {b \in set : ~TrueFrom(D, b, m, a, 1)}
  BY <1>1, <1>2, UnsatExact
<1> HIDE DEF unsat
<1>4. kept \in Sets(D) /\ unsat \in SUBSET Bodies(D)
  BY <1>3 DEF Sets
<1> HIDE DEF kept
<1>5. call \in Calls(D, m, 1)
  <2>1. {} \in SUBSET [set : SUBSET Bodies(D), perm_index : Nat]
    OBVIOUS
  <2> QED BY <1>2, <1>4, <2>1 DEF Calls
<1>6. WeakenedBy(D, set, m) = WeakenAdd(D, m, 1, call)
  BY DEF WeakenedBy, a, unsat, kept
<1>7. WeakenAdd(D, m, 1, call).bodies \subseteq Allowed(D, m, 1, call)
  <2> HIDE DEF call
  <2> QED BY <1>1, <1>5, WeakenAddIs
<1>8. ASSUME NEW w \in Allowed(D, m, 1, call)
      PROVE  w \in Bodies(D) /\ TrueFrom(D, w, m, a, 1) /\ \E b \in set : Weaker(D, b, w)
  <2>1. CASE w \in set \ unsat
    <3>1. Weaker(D, w, w)
      BY WeakerSelf
    <3> QED BY <1>3, <2>1, <3>1
  <2>2. CASE w \in Bodies(D) /\ TrueFrom(D, w, m, a, 1) /\ \E b \in unsat : Weaker(D, b, w)
    BY <1>3, <2>2
  <2>3. call.self.bodies = set \ unsat /\ call.to_weaken = unsat /\ call.asgn = a
    BY DEF kept
  <2> QED BY <1>8, <2>1, <2>2, <2>3 DEF Allowed
<1> HIDE DEF call
<1>9. \A w : Holds(D, w, m) <=> TrueFrom(D, w, m, a, 1)
  BY DEF Holds, a
<1> QED BY <1>6, <1>7, <1>8, <1>9

-----------------------------------------------------------------------------
(* The search                                                              *)

(* The size of domains is not less than their number.                      *)
LEMMA SumIs ==
  ASSUME NEW S, \A D \in S : ApproxSpaceSize(D) \in Nat \ {0}, NEW ds \in Seq(S)
  PROVE  DomainSize(ds) \in Nat /\ DomainSize(ds) >= Len(ds)
<1> DEFINE n == Len(ds)
           Ty == [k \in 0 .. n |-> {s \in Nat : s >= k}]
           t == 0
           E(k, s) == s + ApproxSpaceSize(ds[k])
           G == [p \in (1 .. n) \X UNION {Ty[k] : k \in 0 .. n} |-> E(p[1], p[2])]
           F(f) == [k \in 0 .. n |-> IF k = 0 THEN t ELSE E(k, f[k - 1])]
           f == CHOOSE g : g = F(g)
<1>1. n \in Nat /\ \A k \in 1 .. n : ds[k] \in S
  OBVIOUS
<1>2. \A k \in 0 .. n : \A s : s \in Ty[k] <=> s \in Nat /\ s >= k
  OBVIOUS
<1> HIDE DEF Ty
<1>3. 0 \in 0 .. n /\ t \in Ty[0]
  BY <1>1, <1>2
<1> HIDE DEF t
<1>4. \A k \in 1 .. n : \A s \in Ty[k - 1] : E(k, s) \in Ty[k]
  <2> TAKE k \in 1 .. n
  <2> TAKE s \in Ty[k - 1]
  <2> DEFINE a == ApproxSpaceSize(ds[k])
  <2>1. a \in Nat \ {0}
    BY <1>1
  <2>2. k \in 0 .. n /\ k - 1 \in 0 .. n
    BY <1>1
  <2>3. s \in Nat /\ s >= k - 1
    BY <1>2, <2>2
  <2> HIDE DEF a, n
  <2>4. s + a \in Nat /\ s + a >= k
    BY <1>1, <2>1, <2>2, <2>3
  <2> QED BY <1>2, <2>2, <2>4 DEF a
<1> HIDE DEF E, n
<1>5. \A k \in 1 .. n : \A s \in Ty[k - 1] : G[<<k, s>>] = E(k, s)
  <2> TAKE k \in 1 .. n
  <2> TAKE s \in Ty[k - 1]
  <2>1. k - 1 \in 0 .. n
    BY <1>1
  <2> QED BY <2>1
<1> HIDE DEF G
<1>6. PICK g : Ascends(g, n, Ty, t, G)
  <2>1. \A k \in 1 .. n : \A s \in Ty[k - 1] : G[<<k, s>>] \in Ty[k]
    BY <1>4, <1>5
  <2> QED BY <1>1, <1>3, <2>1, Ascent
<1>7. g = F(g)
  <2>1. \A k \in 1 .. n : g[k] = E(k, g[k - 1])
    <3> TAKE k \in 1 .. n
    <3>1. k - 1 \in 0 .. n
      BY <1>1
    <3>2. g[k] = G[<<k, g[k - 1]>>] /\ g[k - 1] \in Ty[k - 1]
      BY <1>6, <3>1 DEF Ascends
    <3> QED BY <1>5, <3>2
  <2>2. g = [k \in 0 .. n |-> g[k]] /\ g[0] = t
    BY <1>6 DEF Ascends
  <2>3. \A k \in 0 .. n : g[k] = F(g)[k]
    <3> TAKE k \in 0 .. n
    <3>1. CASE k = 0
      BY <2>2, <3>1
    <3>2. CASE k # 0
      <4>1. k \in 1 .. n
        BY <1>1, <3>2
      <4> QED BY <2>1, <3>2, <4>1
    <3> QED BY <3>1, <3>2
  <2> QED BY <2>2, <2>3
<1>8. f = F(f)
  <2> HIDE DEF F
  <2> QED BY <1>7
<1>9. DomainSize(ds) = f[n]
  BY DEF DomainSize, E, t, n
<1> HIDE DEF f
<1>10. \A k \in 0 .. n : f[k] \in Ty[k]
  <2>1. \A k \in 0 .. n : f[k] = IF k = 0 THEN t ELSE E(k, f[k - 1])
    <3> DEFINE H == F(f)
    <3>1. \A k \in 0 .. n : H[k] = IF k = 0 THEN t ELSE E(k, f[k - 1])
      OBVIOUS
    <3>2. f = H
      BY <1>8
    <3> HIDE DEF H
    <3> QED BY <3>1, <3>2
  <2> DEFINE P == {k \in 0 .. n : f[k] \in Ty[k]}
  <2>2. 0 \in P
    BY <1>3, <2>1
  <2>3. \A k \in 1 .. n : k - 1 \in P => k \in P
    <3> TAKE k \in 1 .. n
    <3>1. k \in 0 .. n /\ k # 0
      BY <1>1
    <3> QED BY <1>4, <2>1, <3>1
  <2> HIDE DEF P
  <2>4. \A k \in 0 .. n : k \in P
    BY <1>1, <2>2, <2>3, Along
  <2> QED BY <2>4 DEF P
<1>11. n \in 0 .. n /\ f[n] \in Ty[n]
  BY <1>1, <1>10
<1> QED BY <1>2, <1>9, <1>11 DEF n

(* No domains have no size.                                                *)
LEMMA NothingIs == DomainSize(<<>>) = 0
<1> DEFINE F(f) == [k \in 0 .. 0 |-> IF k = 0 THEN 0 ELSE f[k - 1] + ApproxSpaceSize(<<>>[k])]
           f == CHOOSE g : g = F(g)
<1>1. F([k \in 0 .. 0 |-> 0]) = [k \in 0 .. 0 |-> 0]
  OBVIOUS
<1>2. f = F(f)
  <2> HIDE DEF F
  <2> QED BY <1>1
<1>3. DomainSize(<<>>) = f[0]
  <2>1. Len(<<>>) = 0
    OBVIOUS
  <2> QED BY <2>1 DEF DomainSize
<1>4. F(f)[0] = 0
  <2> HIDE DEF f
  <2> QED OBVIOUS
<1> QED BY <1>2, <1>3, <1>4

(* The domains that there are.                                             *)
Domains == UNION {Range(Queues[c]) : c \in Configs}

(* Those that a search goes through.                                       *)
Sized == {D \in Domains : ApproxSpaceSize(D) \in Nat \ {0}}

(* The active domains that are retained are active domains.                *)
LEMMA RetainedIs ==
  ASSUME NEW S, NEW ds \in Seq(S), NEW d
  PROVE  Retained(ds, d) \in Seq(S)
<1> DEFINE n == Len(ds)
           Ty == [k \in 0 .. n |-> Seq(S)]
           t == <<>>
           E(k, s) == IF DomainContains(d, ds[k]) THEN s ELSE Append(s, ds[k])
           G == [p \in (1 .. n) \X UNION {Ty[k] : k \in 0 .. n} |-> E(p[1], p[2])]
           F(f) == [k \in 0 .. n |-> IF k = 0 THEN t ELSE E(k, f[k - 1])]
           f == CHOOSE g : g = F(g)
<1>1. n \in Nat /\ \A k \in 1 .. n : ds[k] \in S
  OBVIOUS
<1>2. \A k \in 0 .. n : Ty[k] = Seq(S)
  OBVIOUS
<1> HIDE DEF Ty
<1>3. 0 \in 0 .. n /\ t \in Ty[0]
  <2>1. t \in Seq(S) /\ 0 \in 0 .. n
    BY <1>1
  <2> QED BY <1>2, <2>1
<1> HIDE DEF t
<1>4. \A k \in 1 .. n : \A s \in Ty[k - 1] : E(k, s) \in Ty[k]
  <2> TAKE k \in 1 .. n
  <2> TAKE s \in Ty[k - 1]
  <2>1. k \in 0 .. n /\ k - 1 \in 0 .. n /\ ds[k] \in S
    BY <1>1
  <2> DEFINE e == ds[k]
  <2> HIDE DEF n, e
  <2>2. s \in Seq(S)
    BY <1>2, <2>1
  <2>3. Append(s, e) \in Seq(S)
    BY <2>1, <2>2 DEF e
  <2>4. E(k, s) \in Seq(S)
    BY <2>2, <2>3 DEF e
  <2> QED BY <1>2, <2>1, <2>4
<1> HIDE DEF E, n
<1>5. \A k \in 1 .. n : \A s \in Ty[k - 1] : G[<<k, s>>] = E(k, s)
  <2> TAKE k \in 1 .. n
  <2> TAKE s \in Ty[k - 1]
  <2>1. k - 1 \in 0 .. n
    BY <1>1
  <2> QED BY <2>1
<1> HIDE DEF G
<1>6. PICK g : Ascends(g, n, Ty, t, G)
  <2>1. \A k \in 1 .. n : \A s \in Ty[k - 1] : G[<<k, s>>] \in Ty[k]
    BY <1>4, <1>5
  <2> QED BY <1>1, <1>3, <2>1, Ascent
<1>7. g = F(g)
  <2>1. \A k \in 1 .. n : g[k] = E(k, g[k - 1])
    <3> TAKE k \in 1 .. n
    <3>1. k - 1 \in 0 .. n
      BY <1>1
    <3>2. g[k] = G[<<k, g[k - 1]>>] /\ g[k - 1] \in Ty[k - 1]
      BY <1>6, <3>1 DEF Ascends
    <3> QED BY <1>5, <3>2
  <2>2. g = [k \in 0 .. n |-> g[k]] /\ g[0] = t
    BY <1>6 DEF Ascends
  <2>3. \A k \in 0 .. n : g[k] = F(g)[k]
    <3> TAKE k \in 0 .. n
    <3>1. CASE k = 0
      BY <2>2, <3>1
    <3>2. CASE k # 0
      <4>1. k \in 1 .. n
        BY <1>1, <3>2
      <4> QED BY <2>1, <3>2, <4>1
    <3> QED BY <3>1, <3>2
  <2> QED BY <2>2, <2>3
<1>8. f = F(f)
  <2> HIDE DEF F
  <2> QED BY <1>7
<1>9. Retained(ds, d) = f[n]
  BY DEF Retained, E, t, n
<1> HIDE DEF f
<1>10. \A k \in 0 .. n : f[k] \in Ty[k]
  <2>1. \A k \in 0 .. n : f[k] = IF k = 0 THEN t ELSE E(k, f[k - 1])
    <3> DEFINE H == F(f)
    <3>1. \A k \in 0 .. n : H[k] = IF k = 0 THEN t ELSE E(k, f[k - 1])
      OBVIOUS
    <3>2. f = H
      BY <1>8
    <3> HIDE DEF H
    <3> QED BY <3>1, <3>2
  <2> DEFINE P == {k \in 0 .. n : f[k] \in Ty[k]}
  <2>2. 0 \in P
    BY <1>3, <2>1
  <2>3. \A k \in 1 .. n : k - 1 \in P => k \in P
    <3> TAKE k \in 1 .. n
    <3>1. k \in 0 .. n /\ k # 0
      BY <1>1
    <3> QED BY <1>4, <2>1, <3>1
  <2> HIDE DEF P
  <2>4. \A k \in 0 .. n : k \in P
    BY <1>1, <2>2, <2>3, Along
  <2> QED BY <2>4 DEF P
<1>11. n \in 0 .. n /\ f[n] \in Ty[n]
  BY <1>1, <1>10
<1> QED BY <1>2, <1>9, <1>11

(* Taking domains makes sequences of the same domains; it takes some if    *)
(* the size asks for it.                                                   *)
LEMMA TakeIs ==
  ASSUME NEW S, NEW left \in Seq(S), NEW ds \in Seq(S), NEW size
  PROVE  LET next == Take(left, ds, size)
         IN  /\ next.domains \in Seq(S) /\ next.active \in Seq(S)
             /\ left = <<>> => next.domains = <<>>
             /\ ds # <<>> => next.active # <<>>
             /\ left # <<>> /\ ~(DomainSize(ds) >= size) =>
                  next.active # <<>> /\ Len(next.domains) < Len(left)
<1> DEFINE n == Len(left)
           Ty == [k \in 0 .. n |-> {s \in Seq(S) : k = 0 \/ s # <<>>}]
           t == ds
           E(k, s) == Taken(s, left[k])
           G == [p \in (1 .. n) \X UNION {Ty[k] : k \in 0 .. n} |-> E(p[1], p[2])]
           F(f) == [k \in 0 .. n |-> IF k = 0 THEN t ELSE E(k, f[k - 1])]
           f == CHOOSE g : g = F(g)
           enough == {i \in 0 .. n : DomainSize(f[i]) >= size} \cup {n}
           j == Min(enough)
<1>1. n \in Nat /\ \A k \in 1 .. n : left[k] \in S
  OBVIOUS
<1>2. \A k \in 0 .. n : \A s : s \in Ty[k] <=> s \in Seq(S) /\ (k = 0 \/ s # <<>>)
  OBVIOUS
<1> HIDE DEF Ty
<1>3. 0 \in 0 .. n /\ t \in Ty[0]
  BY <1>1, <1>2
<1> HIDE DEF t
<1>4. \A k \in 1 .. n : \A s \in Ty[k - 1] : E(k, s) \in Ty[k]
  <2> TAKE k \in 1 .. n
  <2> TAKE s \in Ty[k - 1]
  <2>1. k \in 0 .. n /\ k - 1 \in 0 .. n /\ left[k] \in S
    BY <1>1
  <2> DEFINE e == left[k]
             r == Retained(s, e)
  <2> HIDE DEF n, e, r
  <2>2. s \in Seq(S)
    BY <1>2, <2>1
  <2>3. r \in Seq(S)
    BY <2>2, RetainedIs DEF r
  <2>4. Append(r, e) \in Seq(S) /\ Append(r, e) # <<>>
    BY <2>1, <2>3 DEF e
  <2>5. E(k, s) \in Seq(S) /\ E(k, s) # <<>>
    BY <2>4 DEF Taken, r, e
  <2> QED BY <1>2, <2>1, <2>5
<1> HIDE DEF E
<1>5. \A k \in 1 .. n : \A s \in Ty[k - 1] : G[<<k, s>>] = E(k, s)
  <2> TAKE k \in 1 .. n
  <2> TAKE s \in Ty[k - 1]
  <2>1. k - 1 \in 0 .. n
    BY <1>1
  <2> QED BY <2>1
<1> HIDE DEF G
<1>6. PICK g : Ascends(g, n, Ty, t, G)
  <2>1. \A k \in 1 .. n : \A s \in Ty[k - 1] : G[<<k, s>>] \in Ty[k]
    BY <1>4, <1>5
  <2> QED BY <1>1, <1>3, <2>1, Ascent
<1>7. g = F(g)
  <2>1. \A k \in 1 .. n : g[k] = E(k, g[k - 1])
    <3> TAKE k \in 1 .. n
    <3>1. k - 1 \in 0 .. n
      BY <1>1
    <3>2. g[k] = G[<<k, g[k - 1]>>] /\ g[k - 1] \in Ty[k - 1]
      BY <1>6, <3>1 DEF Ascends
    <3> QED BY <1>5, <3>2
  <2>2. g = [k \in 0 .. n |-> g[k]] /\ g[0] = t
    BY <1>6 DEF Ascends
  <2>3. \A k \in 0 .. n : g[k] = F(g)[k]
    <3> TAKE k \in 0 .. n
    <3>1. CASE k = 0
      BY <2>2, <3>1
    <3>2. CASE k # 0
      <4>1. k \in 1 .. n
        BY <1>1, <3>2
      <4> QED BY <2>1, <3>2, <4>1
    <3> QED BY <3>1, <3>2
  <2> QED BY <2>2, <2>3
<1>8. f = F(f)
  <2> HIDE DEF F
  <2> QED BY <1>7
<1>9. Take(left, ds, size) = [domains |-> SubSeq(left, j + 1, n), active |-> f[j]]
  BY DEF Take, E, t
<1> HIDE DEF f
<1>10. \A k \in 0 .. n : f[k] \in Ty[k]
  <2>1. \A k \in 0 .. n : f[k] = IF k = 0 THEN t ELSE E(k, f[k - 1])
    <3> DEFINE H == F(f)
    <3>1. \A k \in 0 .. n : H[k] = IF k = 0 THEN t ELSE E(k, f[k - 1])
      OBVIOUS
    <3>2. f = H
      BY <1>8
    <3> HIDE DEF H
    <3> QED BY <3>1, <3>2
  <2> DEFINE P == {k \in 0 .. n : f[k] \in Ty[k]}
  <2>2. 0 \in P
    BY <1>3, <2>1
  <2>3. \A k \in 1 .. n : k - 1 \in P => k \in P
    <3> TAKE k \in 1 .. n
    <3>1. k \in 0 .. n /\ k # 0
      BY <1>1
    <3> QED BY <1>4, <2>1, <3>1
  <2> HIDE DEF P
  <2>4. \A k \in 0 .. n : k \in P
    BY <1>1, <2>2, <2>3, Along
  <2> QED BY <2>4 DEF P
<1> HIDE DEF n
<1>11a. j \in enough
  <2>1. enough \in SUBSET Nat /\ enough # {} /\ enough \subseteq 0 .. n
    BY <1>1
  <2> HIDE DEF enough
  <2>2. PICK x \in enough : \A y \in enough : x <= y
    BY <2>1, LeastNat
  <2>3. j = CHOOSE i \in enough : \A y \in enough : i <= y
    BY DEF Min
  <2> HIDE DEF j
  <2>4. j \in enough
    BY <2>2, <2>3
  <2> HIDE DEF enough
  <2> QED BY <2>4
<1>11. j \in 0 .. n /\ (j = 0 => DomainSize(f[0]) >= size \/ n = 0)
  <2> HIDE DEF j
  <2> QED BY <1>1, <1>11a
<1> HIDE DEF j
<1>12. f[j] \in Seq(S) /\ (j = 0 \/ f[j] # <<>>)
  BY <1>2, <1>10, <1>11
<1>13. f[0] = ds
  <2> DEFINE H == F(f)
  <2>1. H[0] = t
    BY <1>3
  <2>2. f = H
    BY <1>8
  <2> HIDE DEF H
  <2> QED BY <2>1, <2>2 DEF t
<1>14. /\ SubSeq(left, j + 1, n) \in Seq(S)
       /\ Len(SubSeq(left, j + 1, n)) = n - j
  <2>1. \A k \in j + 1 .. n : left[k] \in S
    BY <1>1, <1>11
  <2> QED BY <1>1, <1>11, <2>1
<1>15. left # <<>> /\ ~(DomainSize(ds) >= size) => j # 0
  <2> SUFFICES ASSUME left # <<>>, ~(DomainSize(ds) >= size) PROVE j # 0
    OBVIOUS
  <2>1. n # 0
    BY DEF n
  <2> QED BY <1>11, <1>13, <2>1
<1> DEFINE rest == SubSeq(left, j + 1, n)
           next == Take(left, ds, size)
<1>16. next.domains = rest /\ next.active = f[j]
  <2> DEFINE a == f[j]
  <2>1. next = [domains |-> rest, active |-> a]
    BY <1>9
  <2> HIDE DEF next, rest, a
  <2>2. next.domains = rest /\ next.active = a
    BY <2>1
  <2> QED BY <2>2 DEF a
<1>17. left = <<>> => n = 0
  BY DEF n
<1>18. /\ left = <<>> => rest = <<>>
       /\ ds # <<>> => f[j] # <<>>
       /\ left # <<>> /\ ~(DomainSize(ds) >= size) => f[j] # <<>> /\ Len(rest) < n
  <2> HIDE DEF rest
  <2>1. rest \in Seq(S) /\ Len(rest) = n - j
    BY <1>14 DEF rest
  <2>2. left = <<>> => rest = <<>>
    <3> HAVE left = <<>>
    <3>1. Len(rest) = 0
      BY <1>11, <1>17, <2>1
    <3> QED BY <2>1, <3>1
  <2>3. ds # <<>> => f[j] # <<>>
    BY <1>12, <1>13
  <2>4. left # <<>> /\ ~(DomainSize(ds) >= size) => f[j] # <<>> /\ Len(rest) < n
    BY <1>1, <1>11, <1>12, <1>15, <2>1
  <2> QED BY <2>2, <2>3, <2>4
<1> HIDE DEF next, rest
<1>19. rest \in Seq(S)
  BY <1>14 DEF rest
<1>20. n = Len(left)
  BY DEF n
<1> QED BY <1>12, <1>16, <1>18, <1>19, <1>20 DEF next

-----------------------------------------------------------------------------
(* The lemmas of every domain hold in all the states seen.                 *)

(* The inductive invariant: the domains are as the assumption has them,    *)
(* some are active while some are left, and the bodies of the active ones  *)
(* are bodies, so that what is said of weakening applies.                  *)
WeakenInv ==
  /\ infer_cfg \in Configs
  /\ domains \in Seq(Sized) /\ active \in Seq(Domains)
  /\ domains # <<>> => active # <<>> /\ active \in Seq(Sized)
  /\ DOMAIN sets = DOMAIN active
  /\ \A k \in DOMAIN active : sets[k] \subseteq Bodies(active[k])
  /\ seen \subseteq Models
  /\ Sound

(* The queues consist of domains as the assumption has them.               *)
LEMMA DomainsAre ==
  /\ \A c \in Configs : Queues[c] \in Seq(Domains) /\ (c.no_search \/ Queues[c] \in Seq(Sized))
  /\ Seq(Sized) \subseteq Seq(Domains)
  /\ \A D \in Domains : IsDomain(D)
<1>1. ASSUME NEW c \in Configs
      PROVE  Queues[c] \in Seq(Domains) /\ (c.no_search \/ Queues[c] \in Seq(Sized))
  <2> DEFINE q == Queues[c]
             R == Range(q)
  <2>1. q \in Seq(R)
    BY WeakenAssumption
  <2>2. R \subseteq Domains
    BY DEF Domains
  <2>3. c.no_search \/ R \subseteq Sized
    BY <2>2, WeakenAssumption DEF Sized
  <2> HIDE DEF q, R
  <2>4. Len(q) \in Nat /\ q = [k \in 1 .. Len(q) |-> q[k]] /\ \A k \in 1 .. Len(q) : q[k] \in R
    BY <2>1
  <2>5. ASSUME NEW S, R \subseteq S PROVE q \in Seq(S)
    <3>1. \A k \in 1 .. Len(q) : q[k] \in S
      BY <2>4, <2>5
    <3> QED BY <2>4, <3>1, IsSeq
  <2> QED BY <2>2, <2>3, <2>5 DEF q
<1>2. ASSUME NEW q \in Seq(Sized) PROVE q \in Seq(Domains)
  <2>1. Len(q) \in Nat /\ q = [k \in 1 .. Len(q) |-> q[k]] /\ \A k \in 1 .. Len(q) : q[k] \in Domains
    BY DEF Sized
  <2> QED BY <2>1, IsSeq
<1>3. ASSUME NEW D \in Domains PROVE IsDomain(D)
  <2>1. PICK c \in Configs : D \in Range(Queues[c])
    BY DEF Domains
  <2> QED BY <2>1, WeakenAssumption
<1> QED BY <1>1, <1>2, <1>3

(* The strongest bodies are bodies of their domain.                        *)
LEMMA AnewIs ==
  ASSUME NEW ds \in Seq(Domains)
  PROVE  /\ DOMAIN Anew(ds) = DOMAIN ds
         /\ \A k \in DOMAIN ds : Anew(ds)[k] \subseteq Bodies(ds[k])
<1>1. \A k \in DOMAIN ds : ds[k] \in Domains
  OBVIOUS
<1>2. ASSUME NEW D \in Domains PROVE Strongest(D) \subseteq Bodies(D)
  <2>1. D.kind \in {"cnf", "naive", "pdnf"}
    BY DomainsAre DEF IsDomain
  <2>2. CASE D.kind = "cnf"
    <3>1. Strongest(D) = {{{}}} /\ Bodies(D) = SUBSET SUBSET Literals(D)
      <4>1. Cnf(D) /\ ~Naive(D) /\ ~PDnf(D)
        BY <2>2 DEF Cnf, Naive, PDnf
      <4> QED BY <4>1 DEF Strongest, Bodies
    <3> QED BY <3>1
  <2>3. CASE D.kind = "naive"
    <3>1. Strongest(D) = {{}} /\ Bodies(D) = SUBSET SUBSET Literals(D)
      BY <2>3 DEF Strongest, Bodies, Cnf, Naive, PDnf
    <3> QED BY <3>1
  <2>4. CASE D.kind = "pdnf"
    <3>1. Strongest(D) = {[units |-> {}, cubes |-> {}]}
      BY <2>4 DEF Strongest, Cnf, Naive, PDnf
    <3>2. Bodies(D) = [units : SUBSET Literals(D), cubes : SUBSET SUBSET Literals(D)]
      BY <2>4 DEF Bodies, PDnf
    <3> QED BY <3>1, <3>2
  <2> QED BY <2>1, <2>2, <2>3, <2>4
<1> QED BY <1>1, <1>2 DEF Anew

(* The invariant holds at first, ...                                       *)
LEMMA WeakenInvInit == WeakenInit => WeakenInv
<1> SUFFICES ASSUME WeakenInit PROVE WeakenInv
  OBVIOUS
<1>1. infer_cfg \in Configs /\ sets = Anew(active) /\ seen = {}
  BY DEF WeakenInit
<1>2. /\ domains \in Seq(Sized) /\ active \in Seq(Domains)
      /\ domains # <<>> => active # <<>> /\ active \in Seq(Sized)
  <2>1. domains = FirstDomains.domains /\ active = FirstDomains.active
    BY DEF WeakenInit
  <2> DEFINE q == Queues[infer_cfg]
  <2>2. q \in Seq(Domains) /\ (infer_cfg.no_search \/ q \in Seq(Sized))
    BY <1>1, DomainsAre
  <2>3. CASE infer_cfg.no_search
    <3>1. FirstDomains = [domains |-> <<>>, active |-> q]
      BY <2>3 DEF FirstDomains
    <3>2. <<>> \in Seq(Sized)
      OBVIOUS
    <3> QED BY <2>1, <2>2, <3>1, <3>2
  <2>4. CASE ~infer_cfg.no_search
    <3>1. FirstDomains = Take(q, <<>>, MinDomainSize)
      BY <2>4 DEF FirstDomains
    <3> HIDE DEF q
    <3>2. <<>> \in Seq(Sized) /\ q \in Seq(Sized)
      BY <2>2, <2>4
    <3>3. ~(DomainSize(<<>>) >= MinDomainSize)
      BY NothingIs DEF MinDomainSize
    <3>4. /\ domains \in Seq(Sized) /\ active \in Seq(Sized)
          /\ q = <<>> => domains = <<>>
          /\ q # <<>> => active # <<>>
      <4> DEFINE none == <<>>
                 next == Take(q, none, MinDomainSize)
      <4>1. domains = next.domains /\ active = next.active
        BY <2>1, <3>1
      <4>2. none \in Seq(Sized) /\ ~(DomainSize(none) >= MinDomainSize)
        BY <3>2, <3>3
      <4>3. /\ next.domains \in Seq(Sized) /\ next.active \in Seq(Sized)
            /\ q = <<>> => next.domains = <<>>
            /\ q # <<>> => next.active # <<>>
        <5> HIDE DEF none
        <5> QED BY <3>2, <4>2, TakeIs
      <4> HIDE DEF next
      <4> QED BY <4>1, <4>3
    <3> QED BY <3>4, DomainsAre
  <2> QED BY <2>3, <2>4
<1>3. DOMAIN sets = DOMAIN active /\ \A k \in DOMAIN active : sets[k] \subseteq Bodies(active[k])
  BY <1>1, <1>2, AnewIs
<1> QED BY <1>1, <1>2, <1>3 DEF WeakenInv, Sound

(* What a state leaves of the sets.                                        *)
LEMMA WeakenByIs ==
  ASSUME WeakenInv, NEW m \in Models, WeakenBy(m)
  PROVE  /\ DOMAIN sets' = DOMAIN active
         /\ \A k \in DOMAIN active :
              \A w \in sets'[k] : /\ w \in Bodies(active[k]) /\ Holds(active[k], w, m)
                                  /\ \E b \in sets[k] : Weaker(active[k], b, w)
<1>1. DOMAIN sets' = DOMAIN active
  BY DEF WeakenBy
<1>2. ASSUME NEW k \in DOMAIN active, NEW w \in sets'[k]
      PROVE  /\ w \in Bodies(active[k]) /\ Holds(active[k], w, m)
             /\ \E b \in sets[k] : Weaker(active[k], b, w)
  <2> DEFINE D == active[k]
             set == sets[k]
  <2>1. IsDomain(D) /\ set \in SUBSET Bodies(D) /\ m.size \in Nat
    <3>1. D \in Domains
      BY DEF WeakenInv
    <3> QED BY <3>1, DomainsAre, WeakenAssumption DEF WeakenInv
  <2>2. w \in WeakenedBy(D, set, m).bodies
    BY DEF WeakenBy
  <2> HIDE DEF D, set
  <2>3. w \in Bodies(D) /\ Holds(D, w, m) /\ \E b \in set : Weaker(D, b, w)
    BY <2>1, <2>2, WeakenedByIs
  <2> QED BY <2>3 DEF D, set
<1> QED BY <1>1, <1>2

(* What is weaker holds wherever the other one does.                       *)
LEMMA WeakerHolds ==
  ASSUME NEW D, IsDomain(D), NEW b, NEW w, Weaker(D, b, w), NEW m, Holds(D, b, m)
  PROVE  Holds(D, w, m)
<1>1. 1 \in 1 .. Depth(D) + 1
  BY DomainIs
<1>2. EmptyAssignment \in Assignments(D, m, 1)
  <2>1. UNION {NamesOf(D, i) : i \in 1 .. 1 - 1} = {}
    <3>1. 1 .. 1 - 1 = {}
      OBVIOUS
    <3> QED BY <3>1
  <2> QED BY <2>1 DEF Assignments, EmptyAssignment
<1>3. TrueFrom(D, b, m, EmptyAssignment, 1)
  BY DEF Holds
<1>4. TrueFrom(D, w, m, EmptyAssignment, 1)
  BY <1>1, <1>2, <1>3, WeakerFrom
<1> QED BY <1>4 DEF Holds

(* ... and every step keeps it.                                            *)
LEMMA WeakenInvNext == WeakenInv /\ [WeakenNext]_weaken_vars => WeakenInv'
<1> SUFFICES ASSUME WeakenInv, [WeakenNext]_weaken_vars PROVE WeakenInv'
  OBVIOUS
<1> USE DEF WeakenInv
<1>1. ASSUME NEW m \in Models, WeakenBy(m) PROVE WeakenInv'
  <2>1. UNCHANGED <<infer_cfg, domains, active>> /\ seen' = seen \cup {m}
    BY <1>1 DEF WeakenBy, search
  <2>2. /\ DOMAIN sets' = DOMAIN active
        /\ \A k \in DOMAIN active :
             \A w \in sets'[k] : /\ w \in Bodies(active[k]) /\ Holds(active[k], w, m)
                                 /\ \E b \in sets[k] : Weaker(active[k], b, w)
    BY <1>1, WeakenByIs
  <2>3. Sound'
    <3>1. ASSUME NEW k \in DOMAIN active, NEW w \in sets'[k], NEW n \in seen \cup {m}
          PROVE  Holds(active[k], w, n)
      <4>1. CASE n = m
        BY <2>2, <4>1
      <4>2. CASE n \in seen
        <5>1. PICK b \in sets[k] : Weaker(active[k], b, w)
          BY <2>2
        <5>2. Holds(active[k], b, n)
          BY <4>2 DEF Sound
        <5>3. IsDomain(active[k])
          <6>1. active[k] \in Domains
            OBVIOUS
          <6> QED BY <6>1, DomainsAre
        <5> DEFINE D == active[k]
        <5> HIDE DEF D
        <5>4. Holds(D, w, n)
          BY <5>1, <5>2, <5>3, WeakerHolds DEF D
        <5> QED BY <5>4 DEF D
      <4> QED BY <4>1, <4>2
    <3> QED BY <2>1, <3>1 DEF Sound
  <2> QED BY <2>1, <2>2, <2>3
<1>2. ASSUME NEW safe \in BOOLEAN, NextDomains(safe) PROVE WeakenInv'
  <2>1. CASE domains = <<>> \/ (safe /\ infer_cfg.until_safe)
    BY <1>2, <2>1 DEF NextDomains, Sound
  <2>2. CASE ~(domains = <<>> \/ (safe /\ infer_cfg.until_safe))
    <3>1. /\ domains' = Take(domains, active, next_size').domains
          /\ active' = Take(domains, active, next_size').active
          /\ sets' = Anew(active') /\ seen' = {} /\ infer_cfg' = infer_cfg
      BY <1>2, <2>2 DEF NextDomains
    <3>2. /\ domains' \in Seq(Sized) /\ active' \in Seq(Sized) /\ active' # <<>>
          /\ active' \in Seq(Domains)
      BY <2>2, <3>1, TakeIs, DomainsAre
    <3>3. DOMAIN sets' = DOMAIN active' /\ \A k \in DOMAIN active' : sets'[k] \subseteq Bodies(active'[k])
      BY <3>1, <3>2, AnewIs
    <3> QED BY <3>1, <3>2, <3>3 DEF Sound
  <2> QED BY <2>1, <2>2
<1>3. CASE UNCHANGED weaken_vars
  BY <1>3 DEF weaken_vars, search, Sound
<1> QED BY <1>1, <1>2, <1>3 DEF WeakenNext

(* The invariant of WeakenLemmaSet: the domains, the bodies, and Sound.    *)
THEOREM AlwaysWeakenInv == WeakenSpec => []WeakenInv
BY WeakenInvInit, WeakenInvNext, PTL DEF WeakenSpec

(* WeakenLemmaSet::weaken is sound: whatever the domains are, the lemmas   *)
(* that are kept hold in all the states they were weakened by.             *)
THEOREM AlwaysSound == WeakenSpec => []Sound
<1>1. WeakenInv => Sound
  BY DEF WeakenInv
<1> QED BY <1>1, AlwaysWeakenInv, PTL

(* No lemma comes from nowhere: one that is kept after a state, or a new   *)
(* one, follows from a lemma of the same domain before.  Weakening never   *)
(* makes a domain say more than it said.                                   *)
OnlyWeaker ==
  (\E m \in Models : WeakenBy(m)) =>
    \A k \in DOMAIN active : \A w \in sets'[k] :
      \E b \in sets[k] : \A n : Holds(active[k], b, n) => Holds(active[k], w, n)

(* WeakenLemmaSet::weaken only weakens.                                    *)
THEOREM AlwaysOnlyWeaker == WeakenSpec => [][OnlyWeaker]_weaken_vars
<1>1. WeakenInv /\ [WeakenNext]_weaken_vars => [OnlyWeaker]_weaken_vars
  <2> SUFFICES ASSUME WeakenInv, NEW m \in Models, WeakenBy(m), NEW k \in DOMAIN active, NEW w \in sets'[k]
               PROVE  \E b \in sets[k] : \A n : Holds(active[k], b, n) => Holds(active[k], w, n)
    BY DEF OnlyWeaker
  <2>1. PICK b \in sets[k] : Weaker(active[k], b, w)
    BY WeakenByIs
  <2>2. IsDomain(active[k])
    <3>1. active[k] \in Domains
      BY DEF WeakenInv
    <3> QED BY <3>1, DomainsAre
  <2> DEFINE D == active[k]
  <2> HIDE DEF D
  <2>3. \A n : Holds(D, b, n) => Holds(D, w, n)
    BY <2>1, <2>2, WeakerHolds DEF D
  <2> QED BY <2>3 DEF D
<1> QED BY <1>1, AlwaysWeakenInv, PTL DEF WeakenSpec

(* qalpha's search goes on: as long as the sizes grow, there are fewer     *)
(* domains left whenever it goes to the next ones, so that it ends.        *)
Advances ==
  (\E safe \in BOOLEAN : NextDomains(safe)) /\ infer_cfg.growth_factor \in Nat \ {0, 1} =>
    done' \/ Len(domains') < Len(domains)

(* A step of the search to the next domains leaves fewer of them.          *)
THEOREM AlwaysAdvances == WeakenSpec => [][Advances]_weaken_vars
<1>1. WeakenInv /\ [WeakenNext]_weaken_vars => [Advances]_weaken_vars
  <2> SUFFICES ASSUME WeakenInv, NEW safe \in BOOLEAN, NextDomains(safe), ~done',
                      infer_cfg.growth_factor \in Nat \ {0, 1}
               PROVE  Len(domains') < Len(domains)
    BY DEF Advances
  <2> DEFINE size == DomainSize(active)
             next == size * infer_cfg.growth_factor
  <2>1. domains # <<>> /\ domains' = Take(domains, active, next).domains
    <3>1. ~(domains = <<>> \/ (safe /\ infer_cfg.until_safe))
      BY DEF NextDomains
    <3> QED BY <3>1 DEF NextDomains
  <2>2. size \in Nat \ {0}
    <3>1. active \in Seq(Sized) /\ active # <<>>
      BY <2>1 DEF WeakenInv
    <3>2. \A D \in Sized : ApproxSpaceSize(D) \in Nat \ {0}
      BY DEF Sized
    <3>3. size \in Nat /\ size >= Len(active)
      BY <3>1, <3>2, SumIs
    <3>4. Len(active) \in Nat \ {0}
      BY <3>1
    <3> HIDE DEF size
    <3> QED BY <3>3, <3>4
  <2>3. ~(size >= next)
    <3> HIDE DEF size
    <3>1. PICK g \in Nat \ {0, 1} : g = infer_cfg.growth_factor
      OBVIOUS
    <3>2. size * g = size + size * (g - 1) /\ size * (g - 1) >= g - 1
      <4>1. g - 1 \in Nat /\ g - 1 >= 1 /\ size >= 1
        BY <2>2, <3>1
      <4>2. size * (g - 1) = (g - 1) + (size - 1) * (g - 1) /\ (size - 1) * (g - 1) >= 0
        BY <2>2, <4>1
      <4> QED BY <2>2, <3>1, <4>1, <4>2
    <3> QED BY <2>2, <3>1, <3>2
  <2>4. domains \in Seq(Sized) /\ active \in Seq(Sized)
    BY <2>1 DEF WeakenInv
  <2> HIDE DEF next, size
  <2> QED BY <2>1, <2>3, <2>4, TakeIs DEF size
<1> QED BY <1>1, AlwaysWeakenInv, PTL DEF WeakenSpec
=============================================================================
