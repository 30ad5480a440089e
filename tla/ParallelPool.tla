---------------------------- MODULE ParallelPool -----------------------------
(***************************************************************************)
(* The query of ParallelQuery on the threads of rayon's pool.  The jobs of *)
(* the transitions and of their solvers are pending until a thread takes   *)
(* them, and a transition that waits for its solvers lends its thread:     *)
(* what the thread takes meanwhile, a job of any transition, runs on top   *)
(* of it, and the transition goes on when all of that is done.  The pool   *)
(* is the library's; a thread is the stack of the jobs it has begun.       *)
(***************************************************************************)
EXTENDS ParallelQuery, Sequences, SequencesExt

CONSTANT NumThreads   \* the threads of the pool

ASSUME ParallelPoolAssumption == NumThreads \in Nat \ {0}

VARIABLE stacks   \* of each thread that has a job, those it has begun, the innermost last

poolVars == <<vars, stacks>>

(* The job that a step of a transition's solver belongs to: the solvers of *)
(* a FallbackSolvers take turns on the thread of the transition.           *)
Job(t, s) == IF Parallel THEN Proc(t, s) ELSE Group(t)

Begun == UNION {ToSet(k) : k \in stacks}

Ready ==
  {Group(t) : t \in {u \in Transitions : tpc[u] = "ready"}} \cup
  {l \in Procs : Parallel /\ lpc[l] = "ready"}

Pending == Ready \ Begun

Running(j) == \E k \in stacks : Last(k) = j

(* A thread that waits for the solvers of a transition.                    *)
Waits(k) ==
  /\ Parallel
  /\ \E t \in Transitions : Last(k) = Group(t) /\ tpc[t] = "join" /\ ~Joined(t)

PoolInit == Init /\ stacks = {}

(* A thread takes a job: one that has none, or one that waits.             *)
Take ==
  /\ \E j \in Pending :
       \/ Cardinality(stacks) < NumThreads /\ stacks' = stacks \cup {<<j>>}
       \/ \E k \in stacks : Waits(k) /\ stacks' = (stacks \ {k}) \cup {Append(k, j)}
  /\ UNCHANGED vars

Over(j) == IF j \in Procs THEN lpc[j] = "done" ELSE tpc[j[2]] = "done"

(* A job that is over leaves its thread.                                   *)
Settle == stacks' = {IF Over(Last(k))' THEN Front(k) ELSE k : k \in stacks} \ {<<>>}

Transition(t) ==
  /\ Running(Group(t))
  /\ StartCheck(t) \/ Respond(t) \/ Cancelling(Group(t))
  /\ Settle

(* The steps of a solver's job that do not wait for an answer.             *)
Asking(t, s) ==
  /\ Running(Job(t, s))
  /\ StartSolver(t, s) \/ AnswerKilled(t, s) \/ Cancelling(Proc(t, s))
  /\ Settle

Answered(t, s) ==
  /\ Running(Job(t, s))
  /\ Answer(t, s) \/ Extract(t, s) \/ Panics(t, s)
  /\ Settle

(* The thread that asks the query, and cancels it, is not of the pool.     *)
Outside ==
  /\ StartQuery \/ Collect \/ Cancelling(Root)
  /\ UNCHANGED stacks

(* The caller need not cancel.                                             *)
Interrupt == CallerCancels /\ UNCHANGED stacks

PoolNext ==
  \/ Take \/ Outside \/ Interrupt
  \/ \E t \in Transitions : Transition(t)
  \/ \E t \in Transitions, s \in Solvers : Asking(t, s) \/ Answered(t, s)

(* What goes on by itself.  A pending job is sure to be taken only when    *)
(* every thread that has a job waits: the thread that is to run it may     *)
(* have it in a sequence behind another.  A solver need not answer, but    *)
(* once killed it says so (CancelUnblocks of SmtProc).                     *)
Assured ==
  \/ Outside
  \/ Take /\ \A k \in stacks : Waits(k)
  \/ \E t \in Transitions : Transition(t)
  \/ \E t \in Transitions, s \in Solvers : Asking(t, s)

(* Threads run.  A query makes finitely many steps, so fairness to all     *)
(* threads together is fairness to each.                                   *)
PoolSpec == PoolInit /\ [][PoolNext]_poolVars /\ WF_poolVars(Assured)

----------------------------------------------------------------------------
(* When the caller cancels, trans_cex returns, even if no solver ever      *)
(* answers, and however few threads there are: it does not stay cancelled  *)
(* without a result.                                                       *)
CancelReturns == []<>~(caller \in {"cancel", "done"} /\ result = "none")

Decided(t) == \E s \in Solvers : lres[Proc(t, s)] \in Definite

(* So it does when one transition has found a counterexample.  And the     *)
(* transitions do not wait for ever while a solver of each has answered    *)
(* (doc of ParallelSolvers: "tried in parallel until (1) one of them       *)
(* returns a sat/unsat/error response"); one of them may, when its thread  *)
(* has taken another, whose solvers do not answer.                         *)
AnswerReturns ==
  []<>~(\/ result = "none" /\ \E t \in Transitions : tres[t] = "Cex"
        \/ /\ \E t \in Transitions : tpc[t] = "join"
           /\ \A t \in Transitions : tpc[t] = "join" => Decided(t))
==============================================================================
