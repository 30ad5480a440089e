---------------------------- MODULE ParallelQuery ----------------------------
(***************************************************************************)
(* One cancellable query of FOModule::trans_cex (inference/src/basics.rs): *)
(* a rayon job for every disjunctive transition, each of which asks a set  *)
(* of solvers in rounds (ParallelSolvers or FallbackSolvers,               *)
(* solver/src/basics.rs), and the tree of SolverCancelers through which    *)
(* the caller, a transition that has found a counterexample and a solver   *)
(* that has found an answer stop the others.                               *)
(*                                                                         *)
(* A node of the tree is its address; threads go by the address of what    *)
(* they run; which thread runs it, and when, is the business of            *)
(* ParallelPool.  A solver process is what CancellableSolver promises: no  *)
(* expensive call succeeds after kill(), none is answered Killed before    *)
(* it, and a call may panic.  What is asked is abstracted to its answer.   *)
(***************************************************************************)
EXTENDS Naturals, FiniteSets

CONSTANTS
  Transitions,   \* the disjunctive transitions of the module
  NumSolvers,    \* the solvers of the ParallelSolvers or FallbackSolvers
  Strategies,    \* which of the two it may be
  Answering,     \* what a solver may ever answer besides the truth
  MaxBlocked     \* the bound on the counter-models that hypotheses block

(* disj_trans gives at least one transition: no disjunction is empty.      *)
ASSUME ParallelQueryAssumption ==
  /\ Transitions # {}
  /\ NumSolvers \in Nat \ {0} /\ MaxBlocked \in Nat
  /\ Strategies \subseteq {"parallel", "fallback"}
  /\ Answering \subseteq {"Unknown", "Error"}

Solvers == 1 .. NumSolvers

Root == <<>>                   \* `cancelers`, shared with the caller
Query == <<"q">>               \* local_cancelers of trans_cex
Group(t) == <<"q", t>>         \* local_cancelers of ParallelSolvers, one per round
Proc(t, s) == <<"q", t, s>>    \* the SmtPid of one solver
NoThread == <<"none">>

Groups == {Group(t) : t \in Transitions}
Nodes == {Root, Query} \cup Groups
Procs == {Proc(t, s) : t \in Transitions, s \in Solvers}
ThreadIds == {Root} \cup Groups \cup Procs

VARIABLES
  strategy,   (* whether the solvers run in parallel or take turns              *)
  truth,      (* of each transition, whether a counterexample exists           *)
  answering,  (* what a solver may answer besides the truth                    *)
  canceled,   (* the flag of each SolverCancelers                              *)
  children,   (* what is registered with it                                    *)
  holder,     (* the thread that holds its lock to cancel it                   *)
  left,       (* what the drain of its children has not cancelled yet          *)
  killed,     (* the processes in a call that kill() was called on             *)
  lpc, lres,  (* the jobs of check_sat: where they are, what they return       *)
  tpc, tres,  (* the jobs of the transitions                                   *)
  blocked,    (* how many counter-models hypotheses may still block           *)
  answer,     (* what a solver that answers the current query answers          *)
  caller,     (* whether the caller has cancelled, or can (updr.rs cannot)     *)
  result      (* the CexResult of trans_cex                                    *)

tree == <<canceled, children, holder, left>>
solving == <<lpc, lres, killed>>
running == <<tpc, tres, blocked, answer>>
given == <<strategy, truth, answering>>
vars == <<given, tree, solving, running, caller, result>>

Parallel == strategy = "parallel"

(* Where check_sat_conf registers the pid of its solver.                   *)
Home(t) == IF Parallel THEN Group(t) ELSE Query

(* What the next query of a transition is answered: the truth, or a model  *)
(* of its negation that some hypothesis blocks.                            *)
Possible(t) == {truth[t]} \cup IF blocked > 0 THEN {"blocked"} ELSE {}

Init ==
  /\ strategy \in Strategies
  /\ truth \in [Transitions -> {"sat", "unsat"}] /\ answering \in SUBSET Answering
  /\ canceled = [n \in Nodes |-> FALSE]
  /\ children = [n \in Nodes |-> {}]
  /\ holder = [n \in Nodes |-> NoThread]
  /\ left = [n \in Nodes |-> {}]
  /\ killed = {}
  /\ lpc = [l \in Procs |-> "off"] /\ lres = [l \in Procs |-> "none"]
  /\ tpc = [t \in Transitions |-> "off"] /\ tres = [t \in Transitions |-> "none"]
  /\ answer \in [Transitions -> {"sat", "unsat", "blocked"}]
  /\ \A t \in Transitions : answer[t] \in {truth[t], "blocked"}
  /\ blocked \in 0 .. MaxBlocked
  /\ blocked + Cardinality({t \in Transitions : answer[t] = "blocked"}) <= MaxBlocked
  /\ caller \in {"idle", "never"} /\ result = "none"

----------------------------------------------------------------------------
(* SolverCancelers                                                         *)

(* A mutation: the flag is not looked at.                                  *)
AddCancelerAnyway(n, c) ==
  /\ holder[n] = NoThread
  /\ children' = [children EXCEPT ![n] = @ \cup {c}]
  /\ UNCHANGED <<canceled, holder, left>>

(* add_canceler, under the lock.                                           *)
AddCanceler(n, c) ==
  /\ holder[n] = NoThread
  /\ ~canceled[n]
  /\ children' = [children EXCEPT ![n] = @ \cup {c}]
  /\ UNCHANGED <<canceled, holder, left>>

Refused(n) ==
  /\ holder[n] = NoThread
  /\ canceled[n]
  /\ UNCHANGED tree

(* Who calls cancel, and on which node.                                    *)
Calls(th) ==
  CASE th = Root -> caller = "cancel"
    [] th \in Groups -> tpc[th[2]] = "cancel"
    [] th \in Procs -> lpc[th] = "cancel"

Target(th) ==
  CASE th = Root -> Root
    [] th \in Groups -> Query
    [] th \in Procs -> Group(th[2])

(* The node whose children th is draining: the innermost it has locked.    *)
Draining(th, n) ==
  /\ holder[n] = th
  /\ \A m \in left[n] \cap Nodes : holder[m] # th

(* A mutation: the children are cancelled, the flag is not set.            *)
EnterNoFlag(th, n) ==
  /\ n = Target(th) \/ \E p \in Nodes : Draining(th, p) /\ n \in left[p]
  /\ holder[n] = NoThread
  /\ holder' = [holder EXCEPT ![n] = th]
  /\ left' = [left EXCEPT ![n] = children[n]]
  /\ children' = [children EXCEPT ![n] = {}]
  /\ UNCHANGED <<canceled, given, solving, running, caller, result>>

(* cancel takes the lock and sets the flag, then drains the children with  *)
(* the lock held.                                                          *)
Enter(th, n) ==
  /\ n = Target(th) \/ \E p \in Nodes : Draining(th, p) /\ n \in left[p]
  /\ holder[n] = NoThread
  /\ holder' = [holder EXCEPT ![n] = th]
  /\ canceled' = [canceled EXCEPT ![n] = TRUE]
  /\ left' = [left EXCEPT ![n] = children[n]]
  /\ children' = [children EXCEPT ![n] = {}]
  /\ UNCHANGED <<given, solving, running, caller, result>>

Busy == {l \in Procs : lpc[l] \in {"query", "extract"}}

(* A leaf of the tree is the pid of a process: SmtPid::kill, which leaves  *)
(* one that is not in a call alone.                                        *)
Kill(th, n) ==
  /\ Draining(th, n)
  /\ \E l \in left[n] \cap Procs :
       /\ left' = [left EXCEPT ![n] = @ \ {l}]
       /\ killed' = killed \cup ({l} \cap Busy)
  /\ UNCHANGED <<given, canceled, children, holder, lpc, lres, running, caller, result>>

(* The children are done: cancel returns, to the drain of the parent or to *)
(* the code that called it.                                                *)
Leave(th, n) ==
  /\ holder[n] = th
  /\ left[n] = {}
  /\ holder' = [holder EXCEPT ![n] = NoThread]
  /\ IF n = Target(th)
     THEN /\ caller' = IF th = Root THEN "done" ELSE caller
          /\ tpc' = [t \in Transitions |-> IF th = Group(t) THEN "done" ELSE tpc[t]]
          /\ lpc' = [l \in Procs |-> IF th = l THEN "done" ELSE lpc[l]]
          /\ UNCHANGED left
     ELSE /\ left' = [p \in Nodes |-> IF holder[p] = th THEN left[p] \ {n} ELSE left[p]]
          /\ UNCHANGED <<caller, tpc, lpc>>
  /\ UNCHANGED <<given, canceled, children, killed, lres, tres, blocked, answer, result>>

Cancelling(th) == Calls(th) /\ \E n \in Nodes : Enter(th, n) \/ Kill(th, n) \/ Leave(th, n)

----------------------------------------------------------------------------
(* check_sat_conf                                                          *)

Definite == {"sat", "unsat", "Error"}

(* A mutation: the others are left to run.                                 *)
ReturnAlone(l, r) ==
  /\ lres' = [lres EXCEPT ![l] = r]
  /\ killed' = killed \ {l}
  /\ lpc' = [lpc EXCEPT ![l] = "done"]

(* A job returns.  In a ParallelSolvers, one that has an answer cancels    *)
(* the others first.                                                       *)
Return(l, r) ==
  /\ lres' = [lres EXCEPT ![l] = r]
  /\ killed' = killed \ {l}
  /\ lpc' = [lpc EXCEPT ![l] = IF Parallel /\ r \in Definite THEN "cancel" ELSE "done"]

(* The solvers of a FallbackSolvers take turns, the first with an answer   *)
(* ends it.                                                                *)
Turn(t, s) ==
  Parallel \/ \A r \in 1 .. s - 1 : lpc[Proc(t, r)] = "done" /\ lres[Proc(t, r)] = "Unknown"

(* A job starts a solver and registers its pid, or gives up.               *)
StartSolver(t, s) ==
  /\ tpc[t] = "join" /\ lpc[Proc(t, s)] = "ready" /\ Turn(t, s)
  /\ \/ /\ AddCanceler(Home(t), Proc(t, s))
        /\ lpc' = [lpc EXCEPT ![Proc(t, s)] = "query"]
        /\ UNCHANGED <<lres, killed>>
     \/ Refused(Home(t)) /\ Return(Proc(t, s), "Killed")
  /\ UNCHANGED <<given, running, caller, result>>

(* check_sat is answered.                                                  *)
Answer(t, s) ==
  LET l == Proc(t, s) IN
  /\ lpc[l] = "query" /\ l \notin killed
  /\ \/ lpc' = [lpc EXCEPT ![l] = "extract"] /\ UNCHANGED <<lres, killed>>
     \/ \E r \in answering : Return(l, r)
  /\ UNCHANGED <<given, tree, running, caller, result>>

(* get_minimal_model may fail to minimise, which counts as unknown; the    *)
(* core is a matter of one cheap call, which may go through on a killed    *)
(* solver.                                                                 *)
Extract(t, s) ==
  LET l == Proc(t, s) IN
  /\ lpc[l] = "extract"
  /\ \/ answer[t] = "unsat" /\ Return(l, "unsat")
     \/ answer[t] # "unsat" /\ l \notin killed /\ \E r \in {"sat"} \cup answering : Return(l, r)
  /\ UNCHANGED <<given, tree, running, caller, result>>

AnswerKilled(t, s) ==
  LET l == Proc(t, s) IN
  /\ lpc[l] \in {"query", "extract"} /\ l \in killed
  /\ Return(l, "Killed")
  /\ UNCHANGED <<given, tree, running, caller, result>>

(* The thread that asks panics (Break of CancellableSolver), and stops no  *)
(* other: a kill() comes after an unknown answer, whose reason cannot be   *)
(* had any more, or between a look at the status and the write that        *)
(* follows it in an expensive call; or the solver exits with no error      *)
(* message.                                                                *)
Panics(t, s) ==
  LET l == Proc(t, s) IN
  /\ \/ lpc[l] = "query" /\ l \in killed /\ "Unknown" \in answering
     \/ lpc[l] = "extract" /\ l \in killed /\ answer[t] # "unsat"
     \/ lpc[l] \in {"query", "extract"} /\ l \notin killed /\ "Error" \in answering
  /\ Return(l, "panic")
  /\ UNCHANGED <<given, tree, running, caller, result>>

----------------------------------------------------------------------------
(* trans_cex                                                               *)

StartQuery ==
  /\ \A t \in Transitions : tpc[t] = "off"
  /\ result = "none"
  /\ \/ /\ AddCanceler(Root, Query)
        /\ tpc' = [t \in Transitions |-> "ready"]
        /\ UNCHANGED result
     \/ /\ Refused(Root)
        /\ result' = "Canceled"
        /\ UNCHANGED tpc
  /\ UNCHANGED <<given, solving, tres, blocked, answer, caller>>

Conclude(t, r) ==
  /\ tres' = [tres EXCEPT ![t] = r]
  /\ tpc' = [tpc EXCEPT ![t] = IF r = "Cex" THEN "cancel" ELSE "done"]

(* A round begins: ParallelSolvers::check_sat registers a fresh group.     *)
StartCheck(t) ==
  /\ tpc[t] = "ready"
  /\ \/ /\ IF Parallel
           THEN /\ holder[Query] = NoThread /\ ~canceled[Query]
                /\ children' = [children EXCEPT ![Query] = @ \cup {Group(t)}, ![Group(t)] = {}]
                /\ canceled' = [canceled EXCEPT ![Group(t)] = FALSE]
                /\ UNCHANGED <<holder, left>>
           ELSE UNCHANGED tree
        /\ lpc' = [l \in Procs |-> IF \E s \in Solvers : l = Proc(t, s) THEN "ready" ELSE lpc[l]]
        /\ lres' = [l \in Procs |-> IF \E s \in Solvers : l = Proc(t, s) THEN "none" ELSE lres[l]]
        /\ tpc' = [tpc EXCEPT ![t] = "join"]
        /\ UNCHANGED <<tres, killed>>
     \/ Parallel /\ Refused(Query) /\ Conclude(t, "Canceled") /\ UNCHANGED solving
  /\ UNCHANGED <<given, blocked, answer, caller, result>>

Results(t) == {lres[Proc(t, s)] : s \in Solvers} \ {"none"}

Joined(t) ==
  /\ tpc[t] = "join"
  /\ IF Parallel THEN \A s \in Solvers : lpc[Proc(t, s)] = "done"
     ELSE \E s \in Solvers : /\ lpc[Proc(t, s)] = "done"
                             /\ s = NumSolvers \/ lres[Proc(t, s)] # "Unknown"

(* A mutation: Killed goes first.                                          *)
ResponseKilledFirst(t) ==
  IF "panic" \in Results(t) THEN "panic"
  ELSE IF "Killed" \in Results(t) THEN "Killed"
  ELSE IF Results(t) \cap {"sat", "unsat"} # {} THEN answer[t]
  ELSE IF "Error" \in Results(t) THEN "Error" ELSE "Unknown"

(* A panic of one of the jobs is raised again where they are joined.  Else *)
(* a solver's answer goes before an error, and an error before Killed.     *)
Response(t) ==
  IF "panic" \in Results(t) THEN "panic"
  ELSE IF Results(t) \cap {"sat", "unsat"} # {} THEN answer[t]
  ELSE IF "Error" \in Results(t) THEN "Error"
  ELSE IF "Killed" \in Results(t) THEN "Killed" ELSE "Unknown"

(* The response to a round.  A counter-model that some hypothesis blocks   *)
(* starts another one; whether it does, and what the next query is         *)
(* answered, is the business of the module Core.                           *)
Respond(t) ==
  /\ Joined(t)
  /\ \/ /\ Response(t) = "blocked"
        /\ tpc' = [tpc EXCEPT ![t] = "ready"]
        /\ \E a \in Possible(t) :
             /\ answer' = [answer EXCEPT ![t] = a]
             /\ blocked' = IF a = "blocked" THEN blocked - 1 ELSE blocked
        /\ UNCHANGED tres
     \/ /\ \/ Response(t) = "sat" /\ Conclude(t, "Cex")
           \/ Response(t) = "unsat" /\ Conclude(t, "UnsatCore")
           \/ Response(t) = "Unknown" /\ Conclude(t, "Unknown")
           \/ Response(t) = "Killed" /\ Conclude(t, "Canceled")
           \/ Response(t) \in {"Error", "panic"} /\ Conclude(t, "panic")
        /\ UNCHANGED <<blocked, answer>>
  /\ UNCHANGED <<given, tree, solving, caller, result>>

(* A mutation: the first job decides.                                      *)
CollectOne ==
  /\ \A t \in Transitions : tpc[t] = "done"
  /\ result = "none"
  /\ \E t \in Transitions : result' = tres[t]
  /\ UNCHANGED <<given, tree, solving, running, caller>>

(* The jobs are done: a counterexample goes first, then Canceled, then     *)
(* Unknown.  A panic in a job is raised again in the thread that waits.    *)
Collect ==
  /\ \A t \in Transitions : tpc[t] = "done"
  /\ result = "none"
  /\ LET all == {tres[t] : t \in Transitions} IN
     result' = CHOOSE r \in all : \A better \in {"panic", "Cex", "Canceled", "Unknown"} \cap all :
       \/ r = better
       \/ r = "panic"
       \/ r = "Cex" /\ better \in {"Canceled", "Unknown"}
       \/ r = "Canceled" /\ better = "Unknown"
  /\ UNCHANGED <<given, tree, solving, running, caller>>

(* The caller may cancel at any time: in lemma.rs, when the query of       *)
(* another lemma has found a counterexample.                               *)
CallerCancels ==
  /\ caller = "idle"
  /\ caller' = "cancel"
  /\ UNCHANGED <<given, tree, solving, running, result>>

Next ==
  \/ StartQuery \/ Collect \/ CallerCancels
  \/ \E t \in Transitions : StartCheck(t) \/ Respond(t)
  \/ \E t \in Transitions, s \in Solvers :
       StartSolver(t, s) \/ Answer(t, s) \/ Extract(t, s) \/ AnswerKilled(t, s) \/ Panics(t, s)
  \/ \E th \in ThreadIds : Cancelling(th)

Spec == Init /\ [][Next]_vars

----------------------------------------------------------------------------
Above(t) == {Root, Query, Home(t)}

(* No process escapes: once cancel() on a node has returned, every solver  *)
(* below it that is in a call has been killed, whenever it was started     *)
(* (doc of SolverCancelers: "the cancellation of a node cancels all of its *)
(* descendants").                                                          *)
NoEscape ==
  \A t \in Transitions, s \in Solvers :
    lpc[Proc(t, s)] \in {"query", "extract"}
      /\ (\E n \in Above(t) : canceled[n] /\ holder[n] = NoThread)
    => Proc(t, s) \in killed

(* An answer does not get lost to the cancellations that come from inside: *)
(* when a solver has answered and cancelled its group, the round ends with *)
(* the answer, unless a thread that asked another solver has panicked      *)
(* (comment in ParallelSolvers::check_sat: "If a SAT or UNSAT result was   *)
(* found, return it").                                                     *)
AnswerNotLost ==
  [][\A t \in Transitions :
       tpc[t] = "join" /\ tpc'[t] # "join" /\ (\E s \in Solvers : lres[Proc(t, s)] \in {"sat", "unsat"})
       => \/ answer[t] = "blocked" /\ tpc'[t] = "ready"
          \/ answer[t] = "sat" /\ tres'[t] = "Cex"
          \/ answer[t] = "unsat" /\ tres'[t] = "UnsatCore"
          \/ tres'[t] = "panic" /\ \E s \in Solvers : lres[Proc(t, s)] = "panic"]_vars

(* The result is that of the query: a counterexample exists when one is    *)
(* reported, a core means that every transition was decided, and it is     *)
(* Canceled only when the caller has cancelled it, although the solvers    *)
(* and the transitions cancel each other.                                  *)
ResultRight ==
  /\ result = "Cex" => \E t \in Transitions : truth[t] = "sat"
  /\ result = "UnsatCore" => \A t \in Transitions : truth[t] = "unsat"
  /\ result = "Canceled" => caller \in {"cancel", "done"}
==============================================================================
