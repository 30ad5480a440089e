-------------------------------- MODULE Updr --------------------------------
(***************************************************************************)
(* The UPDR search of inference/src/updr.rs: a sequence of frames, of      *)
(* which the first holds initially and each next one after one more        *)
(* transition, is strengthened until no frame but perhaps those to come    *)
(* contains an unsafe state, and until one frame equals the next.          *)
(*                                                                         *)
(* A formula is the set of structures in which it holds.  Some queries of  *)
(* this code assume the axioms and the safety properties and some do not;  *)
(* structures that violate them are therefore part of the model.           *)
(* Assertions are universally quantified, as term_to_cnf_clauses and the   *)
(* end of block() require.                                                 *)
(***************************************************************************)
EXTENDS Naturals, Sequences, FiniteSetsExt

CONSTANTS
  States,      \* the structures of the signature
  Diagram,     \* of each one, those that satisfy its diagram
  Cubes,       \* ... and those that satisfy part of it, for every nonempty part
  Inits,       \* the sets of clauses that may be `inits`
  Axioms,      \* the structures that may be those the axioms allow
  Proofs,      \* of a module, the assertions: a safety property each, and its clauses
  Steps,       \* the transitions considered
  MaxTrans,    \* the bound on those of one module
  MaxFrames,   \* the bound on the frames
  Unanswered   \* the frames whose transition queries may get no answer

ASSUME UpdrAssumption ==
  /\ Diagram \in [States -> SUBSET States] /\ Cubes \in [States -> SUBSET SUBSET States]
  /\ \A s \in States : s \in Diagram[s] /\ Diagram[s] \in Cubes[s]
  /\ \A s \in States : \A D \in Cubes[s] : Diagram[s] \subseteq D
  /\ Inits \subseteq SUBSET SUBSET States /\ Axioms \subseteq SUBSET States
  /\ Proofs \subseteq Seq([safety : SUBSET States, clauses : Seq(SUBSET States)])
  /\ Steps \subseteq States \X States
  /\ MaxTrans \in Nat /\ MaxFrames \in Nat \ {0}
  /\ Unanswered \subseteq 0 .. MaxFrames

VARIABLES
  inits, axioms, trans, proofs,   (* the module                                *)
  frames,      (* frames[i + 1] is the frame with index i                      *)
  states,      (* backwards_reachable_states                                   *)
  blocking,    (* currently_blocking_id, as an index into states               *)
  stack,       (* the calls of block() in progress, the last one first         *)
  pushed,      (* the loop variable of add_frame_and_push                      *)
  pc,          (* "establish", "block", "simplify", "check", "push"; or how it ended *)
  result       (* the inductive frame                                          *)

module == <<inits, axioms, trans, proofs>>
vars == <<module, frames, states, blocking, stack, pushed, pc, result>>

(* A term of a frame: one that the module gives, or one that was learned.  *)
(* The two never have the same text.                                       *)
Given(S) == [text |-> "given", holds |-> S]
Learned(S) == [text |-> "learned", holds |-> S]
Term == [text : {"given", "learned"}, holds : SUBSET States]

All(F) == {s \in States : \A t \in F : s \in t.holds}

Safety == {proofs[i].safety : i \in DOMAIN proofs}
Safe == {s \in States : \A S \in Safety : s \in S}

Last == Len(frames) - 1
Frame(i) == frames[i + 1]

(* A TermOrModel: the negation of a clause, or a model.                    *)
Bad(S) == [kind |-> "term", bad |-> S]
Cex(s) == [kind |-> "model", model |-> s]
Target(x) == IF x.kind = "term" THEN x.bad ELSE Diagram[x.model]

Known(x, steps, absent) == [what |-> x, steps |-> steps, absent |-> absent]

Pre(S) == {t[1] : t \in {t \in trans : t[1] \in axioms /\ t[2] \in axioms /\ t[2] \in S}}
Post(S) == {t[2] : t \in {t \in trans : t[1] \in axioms /\ t[2] \in axioms /\ t[1] \in S}}

(* One entry for each clause of the safety properties, in their order.     *)
(* term_to_cnf_clauses reads "true" as "false" and "false" as "true", so    *)
(* that the clauses need not say what the property says.                   *)
FromProofs(ps) ==
  LET Of[k \in 0 .. Len(ps)] ==
        IF k = 0 THEN <<>>
        ELSE Of[k - 1] \o [i \in DOMAIN ps[k].clauses |-> Known(Bad(States \ ps[k].clauses[i]), 0, 0)]
  IN  Of[Len(ps)]

Init ==
  /\ inits \in Inits /\ axioms \in Axioms /\ proofs \in Proofs
  /\ trans \in UNION {kSubset(k, Steps) : k \in 0 .. MaxTrans}
  /\ frames = <<{Given(S) : S \in inits}>>
  /\ states = FromProofs(proofs)
  /\ blocking = 0 /\ stack = <<>> /\ pushed = 0
  /\ pc = "establish" /\ result = {}
----------------------------------------------------------------------------
(* find_state_to_block                                                     *)

Before(b, c) == b.absent < c.absent \/ (b.absent = c.absent /\ b.steps < c.steps)

(* The known state to look at: the first with the least indices.           *)
Oldest ==
  CHOOSE i \in DOMAIN states :
    \A j \in DOMAIN states : Before(states[i], states[j])
                             \/ (~Before(states[j], states[i]) /\ i <= j)

AllAbsent == states = <<>> \/ states[Oldest].absent = Last

(* Whether a known state appears in the frame after those it is known to   *)
(* be absent from: a query for a term, an evaluation for a model.          *)
Appears(b) ==
  LET F == All(Frame(b.absent + 1)) IN
  IF b.what.kind = "term" THEN F \cap b.what.bad # {} ELSE b.what.model \in F

Absent ==
  /\ pc = "establish" /\ ~AllAbsent
  /\ ~Appears(states[Oldest])
  /\ states' = [states EXCEPT ![Oldest].absent = @ + 1]
  /\ UNCHANGED <<module, frames, blocking, stack, pushed, pc, result>>

Start(i, x, k) ==
  /\ blocking' = i
  /\ stack' = <<[what |-> x, index |-> k]>>
  /\ pc' = "block"

BlockKnown ==
  /\ pc = "establish" /\ ~AllAbsent
  /\ LET b == states[Oldest] IN
       /\ Appears(b)
       /\ Start(Oldest, b.what, b.absent + 1)
  /\ UNCHANGED <<module, frames, states, pushed, result>>

(* The models of the last frame that violate an assertion, but none of     *)
(* those before it (safe_cex).                                             *)
Unsafe ==
  {s \in All(Frame(Last)) : \E k \in DOMAIN proofs :
     /\ s \notin proofs[k].safety
     /\ \A j \in 1 .. k - 1 : All(Frame(Last)) \subseteq proofs[j].safety}

Panic ==
  /\ pc' = "panic"
  /\ UNCHANGED <<module, frames, states, blocking, stack, pushed, result>>

(* With one frame only, frames.len() - 2 is out of range.                  *)
UnsafeInit == pc = "establish" /\ AllAbsent /\ Unsafe # {} /\ Last = 0 /\ Panic

BlockNew ==
  /\ pc = "establish" /\ AllAbsent
  /\ Last > 0
  /\ \E s \in Unsafe :
       /\ states' = Append(states, Known(Cex(s), 0, Last - 1))
       /\ Start(Len(states) + 1, Cex(s), Last)
  /\ UNCHANGED <<module, frames, pushed, result>>

Established ==
  /\ pc = "establish" /\ AllAbsent
  /\ Unsafe = {}
  /\ pc' = "simplify"
  /\ UNCHANGED <<module, frames, states, blocking, stack, pushed, result>>
----------------------------------------------------------------------------
(* block                                                                   *)

Top == Head(stack)

AtInit == Top.index = 0 \/ (Top.index = 1 /\ All(Frame(0)) \cap Target(Top.what) # {})

(* The test comes once, when the call begins; frames only get stronger, so *)
(* it does not come out otherwise later.                                   *)
AbstractCex == pc = "block" /\ AtInit /\ Panic

Predecessors == All(Frame(Top.index - 1)) \cap Pre(Target(Top.what))

(* A mutation: the steps up to the frame, without the one from it.       *)
PredecessorNear ==
  /\ pc = "block" /\ ~AtInit
  /\ \E s \in Predecessors :
       LET src == states[blocking] IN
       /\ states' = Append(states, Known(Cex(s), src.absent + 1 - Top.index + src.steps, 0))
       /\ stack' = <<[what |-> Cex(s), index |-> Top.index - 1]>> \o stack
  /\ UNCHANGED <<module, frames, blocking, pushed, pc, result>>

(* A mutation: absent from the frame in which it was found.              *)
PredecessorAbsent ==
  /\ pc = "block" /\ ~AtInit
  /\ \E s \in Predecessors :
       LET src == states[blocking] IN
       /\ states' = Append(states,
                     Known(Cex(s), src.absent + 2 - Top.index + src.steps, Top.index - 1))
       /\ stack' = <<[what |-> Cex(s), index |-> Top.index - 1]>> \o stack
  /\ UNCHANGED <<module, frames, blocking, pushed, pc, result>>

(* get_predecessor finds a state, which must be blocked first.             *)
Predecessor ==
  /\ pc = "block" /\ ~AtInit
  /\ \E s \in Predecessors :
       LET src == states[blocking] IN
       /\ states' = Append(states, Known(Cex(s), src.absent + 2 - Top.index + src.steps, 0))
       /\ stack' = <<[what |-> Cex(s), index |-> Top.index - 1]>> \o stack
  /\ UNCHANGED <<module, frames, blocking, pushed, pc, result>>

(* A mutation: a core of the diagram alone, without the transitions.     *)
GeneralizedToAny(x, F) == IF x.kind = "term" THEN {x.bad} ELSE Cubes[x.model]

(* What the core of get_predecessor leaves of a diagram: any part of it    *)
(* that no transition reaches, but all of it for an empty core.  For a     *)
(* term there is no core.                                                  *)
Generalized(x, F) ==
  IF x.kind = "term" THEN {x.bad}
  ELSE {D \in Cubes[x.model] : Post(All(F)) \cap D = {}}

(* trans_cex, with_safety: what F, the safety properties and the axioms    *)
(* imply after a transition.                                               *)
Preserved(F, S) == Post(All(F) \cap Safe) \subseteq S

(* The frames up to which a clause of frame k is pushed.  A query that is  *)
(* not answered counts as a failed one.                                    *)
PushedTo(k, t) ==
  LET Holds(i) == Preserved(Frame(i) \cup {t}, t.holds) IN
  {j \in k .. Last :
     /\ \A i \in k .. j - 1 : t \in Frame(i + 1) \/ Holds(i)
     /\ j < Last => /\ t \notin Frame(j + 1)
                    /\ j \in Unanswered \/ ~Holds(j)}

(* There is no predecessor: the clause joins the frames up to the index,   *)
(* whatever the initial states, and those it can be pushed to.  When this  *)
(* ends the first call, establish_safety goes on.                          *)
Strengthen ==
  /\ pc = "block" /\ ~AtInit
  /\ Predecessors = {}
  /\ \E D \in Generalized(Top.what, Frame(Top.index - 1)) :
       LET t == Learned(States \ D) IN
       \E j \in PushedTo(Top.index, t) :
         frames' = [i \in DOMAIN frames |-> frames[i] \cup IF i <= j + 1 THEN {t} ELSE {}]
  /\ stack' = Tail(stack)
  /\ IF Len(stack) = 1
     THEN states' = [states EXCEPT ![blocking].absent = @ + 1] /\ pc' = "establish"
     ELSE UNCHANGED <<states, pc>>
  /\ UNCHANGED <<module, blocking, pushed, result>>
----------------------------------------------------------------------------
(* The rest of find_frame                                                  *)

(* What simplify may leave of a frame: no safety property, and no term     *)
(* that the others imply; the terms it looks at one by one are implied by  *)
(* what is left together with the safety properties that are dropped.      *)
Simplified(F) ==
  LET dropped == {t \in F : t.text = "given" /\ t.holds \in Safety} IN
  {K \in SUBSET (F \ dropped) :
     /\ All(K \cup dropped) = All(F)
     /\ \A t \in K : ~(All(K \ {t}) \subseteq t.holds)}

Simplify ==
  /\ pc = "simplify"
  /\ frames' \in {f \in [DOMAIN frames -> UNION {Simplified(frames[i]) : i \in DOMAIN frames}] :
                    \A i \in DOMAIN frames : f[i] \in Simplified(frames[i])}
  /\ pc' = "check"
  /\ UNCHANGED <<module, states, blocking, stack, pushed, result>>

(* A mutation: compared the other way.                                   *)
RepeatsBack == {i \in 0 .. Last - 1 : All(Frame(i)) \subseteq All(Frame(i + 1))}

Repeats == {i \in 0 .. Last - 1 : All(Frame(i + 1)) \subseteq All(Frame(i))}

(* get_inductive_frame                                                     *)
Found ==
  /\ pc = "check"
  /\ \E i \in Repeats : (\A j \in Repeats : i <= j) /\ result' = Frame(i)
  /\ pc' = "done"
  /\ UNCHANGED <<module, frames, states, blocking, stack, pushed>>

AddFrame ==
  /\ pc = "check" /\ Repeats = {}
  /\ Len(frames) < MaxFrames
  /\ frames' = Append(frames, {})
  /\ pushed' = 0 /\ pc' = "push"
  /\ UNCHANGED <<module, states, blocking, stack, result>>

(* One round of the loop of add_frame_and_push.                            *)
Push ==
  /\ pc = "push" /\ pushed < Last
  /\ LET pushable == {t \in Frame(pushed) : Preserved(Frame(pushed), t.holds)} IN
     \E new \in IF pushed \in Unanswered THEN SUBSET pushable ELSE {pushable} :
       frames' = [frames EXCEPT ![pushed + 2] = @ \cup new]
  /\ pushed' = pushed + 1
  /\ UNCHANGED <<module, states, blocking, stack, pc, result>>

Pushed ==
  /\ pc = "push" /\ pushed = Last
  /\ pc' = "establish"
  /\ UNCHANGED <<module, frames, states, blocking, stack, pushed, result>>

(* implies_cex and get_pred panic when they get no answer.                 *)
NoAnswer ==
  /\ \/ pc = "establish" /\ (AllAbsent \/ states[Oldest].what.kind = "term")
     \/ pc = "block"
     \/ pc = "simplify" /\ \E i \in DOMAIN frames : frames[i] # {}
     \/ pc = "check" /\ Last > 0
  /\ Panic

Step ==
  \/ Absent \/ BlockKnown \/ UnsafeInit \/ BlockNew \/ Established
  \/ AbstractCex \/ Predecessor \/ Strengthen
  \/ Simplify \/ Found \/ AddFrame \/ Push \/ Pushed

Next == Step \/ NoAnswer

Spec == Init /\ [][Next]_vars
----------------------------------------------------------------------------
(* The frames over-approximate what is reached without an unsafe state on  *)
(* the way, in one step more each: although block() strengthens many at    *)
(* once, and simplify() drops the safety properties from all of them.      *)
FramesChain ==
  \A i \in 0 .. Last - 1 :
    /\ All(Frame(i)) \cap Safe \subseteq All(Frame(i + 1))
    /\ Post(All(Frame(i)) \cap Safe) \subseteq All(Frame(i + 1))

(* A state that is remembered as absent is absent, from each of these      *)
(* frames, however they were simplified since.                             *)
AbsentIsAbsent ==
  \A i \in DOMAIN states : LET b == states[i] IN
    \A k \in 1 .. b.absent :
      All(Frame(k)) \cap Safe \cap (IF b.what.kind = "term" THEN b.what.bad ELSE {b.what.model}) = {}

(* The states that reach a diagram of an unsafe one in exactly n steps,    *)
(* each from a diagram of the one before.                                  *)
Reaching(n) ==
  LET Of[k \in 0 .. n] ==
        IF k = 0 THEN States \ Safe ELSE Pre(UNION {Diagram[s] : s \in Of[k - 1]})
  IN  Of[n]

(* num_steps_to_bad is the length of such a chain, whatever the depth of   *)
(* the recursion that found the state.                                     *)
StepsToBad ==
  \A i \in DOMAIN states : LET b == states[i] IN
    b.what.kind = "model" => b.what.model \in Reaching(b.steps)

Inductive(S) == Post(S) \subseteq S

(* What the search returns is inductive and safe, together with the safety *)
(* properties.                                                             *)
ResultInductive == pc = "done" => Inductive(All(result) \cap Safe)

(* Search for an inductive invariant (doc of Updr::search): it holds       *)
(* initially.                                                              *)
ResultInitial == pc = "done" => axioms \cap All({Given(S) : S \in inits}) \subseteq All(result)
============================================================================
