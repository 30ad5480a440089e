-------------------------------- MODULE Core --------------------------------
(***************************************************************************)
(* The unsat-core search of FOModule (inference/src/basics.rs): the query  *)
(* loop that trans_cex and implication_cex run against a solver, and the   *)
(* struct Core that chooses which hypotheses the next query assumes so     *)
(* that every counter-model seen so far stays blocked.                     *)
(*                                                                         *)
(* A hypothesis is its index.  A model is the set of hypotheses it         *)
(* falsifies: nothing in this code looks at more of it.  models holds the  *)
(* models of the query without hypotheses; the solver answers from it.     *)
(***************************************************************************)
EXTENDS Naturals, Sequences

CONSTANT NumFormulas    \* hyp.len()

ASSUME NumFormulasAssumption == NumFormulas \in Nat

Formulas == 1 .. NumFormulas

VARIABLES
  conf,               (* the flags gradual and minimal of the FOModule         *)
  models,             (* the models of the query; they never change            *)
  participants,       (* the hypotheses the next query assumes                 *)
  counter_models,     (* the models found so far, oldest first                 *)
  to_participants,    (* of each counter-model, the participants that block it *)
  to_counter_models,  (* of each participant, the counter-models it blocks     *)
  pc,                 (* "query", "reduce" (in add_counter_model) or "done"    *)
  result              (* the CexResult                                         *)

vars == <<conf, models, participants, counter_models, to_participants,
          to_counter_models, pc, result>>

Model == SUBSET Formulas
Confs == [gradual : BOOLEAN, minimal : BOOLEAN]
NoResult == [kind |-> "none"]

(* Without the flag gradual the first query assumes every hypothesis.      *)
Init ==
  /\ conf \in Confs
  /\ models \in SUBSET Model
  /\ participants = IF conf.gradual THEN {} ELSE Formulas
  /\ counter_models = <<>>
  /\ to_participants = <<>>
  /\ to_counter_models = [p \in {} |-> {}]
  /\ pc = "query"
  /\ result = NoResult

(* A query is satisfied by the models that satisfy what it assumes.        *)
Unblocked(hyp) == {m \in models : m \cap hyp = {}}

Finish(r) ==
  /\ pc' = "done"
  /\ result' = r
  /\ UNCHANGED <<conf, models, participants, counter_models, to_participants,
                 to_counter_models>>

(* A mutation: the older counter-models do not learn of the participant.   *)
BlockOneWay(m, p) ==
  LET n == Len(counter_models) + 1
      blocked == {i \in 1 .. n - 1 : p \in counter_models[i]} \cup {n}
  IN
  /\ participants' = participants \cup {p}
  /\ counter_models' = Append(counter_models, m)
  /\ to_participants' = [i \in 1 .. n |-> IF i = n THEN {p} ELSE to_participants[i]]
  /\ to_counter_models' = [q \in DOMAIN to_counter_models \cup {p} |->
       IF q = p THEN blocked ELSE to_counter_models[q]]

(* The participant with the lowest index that m falsifies joins the core,  *)
(* and is recorded for m and for every older counter-model it blocks.      *)
Block(m, p) ==
  LET n == Len(counter_models) + 1
      blocked == {i \in 1 .. n - 1 : p \in counter_models[i]} \cup {n}
  IN
  /\ participants' = participants \cup {p}
  /\ counter_models' = Append(counter_models, m)
  /\ to_participants' = [i \in 1 .. n |->
       (IF i = n THEN {} ELSE to_participants[i]) \cup (IF i \in blocked THEN {p} ELSE {})]
  /\ to_counter_models' = [q \in DOMAIN to_counter_models \cup {p} |->
       IF q = p THEN blocked ELSE to_counter_models[q]]

(* A mutation: only hypotheses above the last participant are tried.       *)
AddCounterModelAbove ==
  /\ pc = "query"
  /\ \E m \in Unblocked(participants) :
       LET candidates == {q \in m : \A p \in participants : p < q} IN
       \/ /\ candidates = {}
          /\ Finish([kind |-> "Cex", model |-> m])
       \/ /\ \E p \in candidates : (\A q \in candidates : p <= q) /\ Block(m, p)
          /\ pc' = IF conf.minimal THEN "reduce" ELSE "query"
          /\ UNCHANGED <<conf, models, result>>

(* A sat answer: the counter-model is blocked, or, when it satisfies every *)
(* hypothesis, it is the counterexample.                                   *)
AddCounterModel ==
  /\ pc = "query"
  /\ \E m \in Unblocked(participants) :
       LET candidates == m \ participants IN
       \/ /\ candidates = {}
          /\ Finish([kind |-> "Cex", model |-> m])
       \/ /\ \E p \in candidates : (\A q \in candidates : p <= q) /\ Block(m, p)
          /\ pc' = IF conf.minimal THEN "reduce" ELSE "query"
          /\ UNCHANGED <<conf, models, result>>

(* A mutation: any for all.                                                *)
RedundantIfAny ==
  {p \in participants : \E i \in to_counter_models[p] : to_participants[i] \ {p} # {}}

(* The participants without which every counter-model stays blocked.       *)
Redundant ==
  {p \in participants : \A i \in to_counter_models[p] : to_participants[i] \ {p} # {}}

(* A mutation: `if self.reduce() {}` instead of `while`.                   *)
ReduceOnce ==
  /\ pc = "reduce"
  /\ \E p \in Redundant :
       /\ \A q \in Redundant : q <= p
       /\ participants' = participants \ {p}
       /\ to_counter_models' = [q \in DOMAIN to_counter_models \ {p} |-> to_counter_models[q]]
       /\ to_participants' = [i \in DOMAIN to_participants |-> to_participants[i] \ {p}]
  /\ pc' = "query"
  /\ UNCHANGED <<conf, models, counter_models, result>>

(* One turn of `while self.reduce() {}`: the redundant participant with    *)
(* the highest index leaves the core.                                      *)
Reduce ==
  /\ pc = "reduce"
  /\ \E p \in Redundant :
       /\ \A q \in Redundant : q <= p
       /\ participants' = participants \ {p}
       /\ to_counter_models' = [q \in DOMAIN to_counter_models \ {p} |-> to_counter_models[q]]
       /\ to_participants' = [i \in DOMAIN to_participants |->
            IF i \in to_counter_models[p] THEN to_participants[i] \ {p} ELSE to_participants[i]]
  /\ UNCHANGED <<conf, models, counter_models, pc, result>>

(* reduce finds nothing, and the loop asks the solver again.               *)
Reduced ==
  /\ pc = "reduce"
  /\ Redundant = {}
  /\ pc' = "query"
  /\ UNCHANGED <<conf, models, participants, counter_models, to_participants,
                 to_counter_models, result>>

(* An unsat answer comes with some core of the hypotheses it assumed, which *)
(* becomes the result as it is.                                            *)
AnswerUnsat ==
  /\ pc = "query"
  /\ \E core \in SUBSET participants :
       Unblocked(core) = {} /\ Finish([kind |-> "UnsatCore", core |-> core])

AnswerUnknown == pc = "query" /\ Finish([kind |-> "Unknown"])

AnswerKilled == pc = "query" /\ Finish([kind |-> "Canceled"])

Next ==
  \/ AddCounterModel \/ Reduce \/ Reduced
  \/ AnswerUnsat \/ AnswerUnknown \/ AnswerKilled

(* The loop goes on as long as the solver answers.                         *)
Spec == Init /\ [][Next]_vars /\ WF_vars(Next)

----------------------------------------------------------------------------
Indices == 1 .. Len(counter_models)

(* Every variable keeps its type.                                          *)
TypeOK ==
  /\ conf \in Confs
  /\ models \in SUBSET Model
  /\ participants \in SUBSET Formulas
  /\ counter_models \in Seq(Model)
  /\ to_participants \in [Indices -> SUBSET Formulas]
  /\ DOMAIN to_counter_models \in SUBSET Formulas
  /\ \A p \in DOMAIN to_counter_models : to_counter_models[p] \in SUBSET Indices
  /\ pc \in {"query", "reduce", "done"}
  /\ \/ result \in [kind : {"none", "Unknown", "Canceled"}]
     \/ result \in [kind : {"Cex"}, model : Model]
     \/ result \in [kind : {"UnsatCore"}, core : SUBSET Formulas]

(* The two maps are each other's inverse, and say exactly which participant *)
(* falsifies which counter-model, however often a formula has left the     *)
(* core and come back: the unwrap()s and the asserts of reduce rely on it. *)
MapsAgree ==
  /\ conf.gradual => DOMAIN to_counter_models = participants
  /\ \A i \in Indices : to_participants[i] = counter_models[i] \cap participants
  /\ \A p \in DOMAIN to_counter_models :
       to_counter_models[p] = {i \in Indices : p \in counter_models[i]}

(* Every counter-model seen stays blocked, also halfway through a reduction *)
(* (doc of add_counter_model: "blocks the given model and all previously   *)
(* blocked models").                                                       *)
AllBlocked == \A i \in Indices : counter_models[i] \cap participants # {}

(* No counter-model is met twice, so the loop makes at most one round for  *)
(* each way of falsifying the hypotheses.                                  *)
NoRepetition ==
  \A i, j \in Indices : counter_models[i] = counter_models[j] => i = j

(* With the flag minimal every query assumes a locally minimal core: each  *)
(* participant is the only one to block some counter-model.  This is the   *)
(* assertion at the end of add_counter_model, and the doc of Core.         *)
LocallyMinimal ==
  conf.minimal /\ conf.gradual /\ pc = "query" =>
    \A p \in participants : \E i \in to_counter_models[p] : to_participants[i] = {p}

(* The result is right: an unsat core blocks every model of the query, and *)
(* a counterexample satisfies every hypothesis.                            *)
ResultSound ==
  /\ result.kind = "UnsatCore" => \A m \in models : m \cap result.core # {}
  /\ result.kind = "Cex" => result.model \in models /\ result.model = {}
==============================================================================
