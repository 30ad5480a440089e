-------------------------- MODULE CancellableSolver --------------------------
(***************************************************************************)
(* What a cancellable solver promises to the thread that calls it and to   *)
(* the threads that cancel it (the doc comments of Status, SmtPid and      *)
(* SolverError in smtlib/src/proc.rs), without the process, the pipes and  *)
(* the lock.  SmtProc implements it.                                       *)
(***************************************************************************)
CONSTANTS Calls, Expensive

VARIABLES
  phase,   (* "up"; "cancelled" and not yet acted upon; "down"             *)
  busy,    (* the call in progress, or "none"                              *)
  outcome  (* how the last call ended                                      *)

vars == <<phase, busy, outcome>>

Errors == {"UnexpectedClose", "Io"}

Init == phase = "up" /\ busy = "none" /\ outcome = "none"

(* Whoever finds the solver cancelled takes it down for good.              *)
NoticeCancel == phase' = IF phase = "cancelled" THEN "down" ELSE phase

Begin(c) ==
  /\ busy = "none"
  /\ busy' = c
  /\ outcome' = "none"
  /\ UNCHANGED phase

Cancel ==
  /\ phase = "up"
  /\ phase' = "cancelled"
  /\ UNCHANGED <<busy, outcome>>

Notice == NoticeCancel /\ UNCHANGED <<busy, outcome>>

(* An expensive call succeeds only on a solver nobody has cancelled; the   *)
(* others may still succeed, or pretend to.                                *)
Succeed ==
  /\ busy # "none"
  /\ busy \in Expensive => phase = "up"
  /\ UNCHANGED phase \/ NoticeCancel
  /\ busy' = "none"
  /\ outcome' = "Ok"

(* Killed is the answer on a cancelled solver, and on no other; once it is *)
(* given the solver is down.                                               *)
AnswerKilled ==
  /\ busy # "none"
  /\ phase # "up"
  /\ phase' = "down"
  /\ busy' = "none"
  /\ outcome' = "Killed"

(* A cancellation is never reported as an error of the solver.             *)
AnswerError ==
  /\ busy # "none"
  /\ phase = "up"
  /\ busy' = "none"
  /\ outcome' \in Errors
  /\ UNCHANGED phase

(* The implementation gives up.                                            *)
Break ==
  /\ busy # "none"
  /\ UNCHANGED phase \/ NoticeCancel
  /\ busy' = "none"
  /\ outcome' = "panic"

Close ==
  /\ busy = "none"
  /\ phase' = "down"
  /\ UNCHANGED <<busy, outcome>>

Next ==
  \/ \E c \in Calls : Begin(c)
  \/ Cancel \/ Notice
  \/ Succeed \/ AnswerKilled \/ AnswerError \/ Break
  \/ Close

Spec == Init /\ [][Next]_vars
==============================================================================
