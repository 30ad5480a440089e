------------------------------- MODULE SmtProc -------------------------------
(***************************************************************************)
(* smtlib/src/proc.rs: one running solver process, the thread that owns    *)
(* its SmtProc, and the SmtPid handles through which other threads cancel  *)
(* it.                                                                     *)
(*                                                                         *)
(* The only state the threads share is the mutex `terminated` around a     *)
(* Status.  Every critical section of that mutex is one action here, and   *)
(* so is every write to and read from the solver's pipes; between any two  *)
(* of them other threads and the solver may run.                           *)
(*                                                                         *)
(* The owner is a most general client: it may make any API call after any  *)
(* other one, whatever that one returned, and drop the SmtProc at any      *)
(* point.  The solver is external: it may answer, hang in an expensive     *)
(* command, report an error, or exit.                                      *)
(***************************************************************************)
CONSTANT CheckReplies  (* what the solver may answer to (check-sat) *)

ASSUME RepliesAssumption == CheckReplies \subseteq {"sat", "unsat", "unknown", "error"}

VARIABLES
  status,    (* the Status inside the mutex `terminated`                   *)
  child,     (* the process, as the operating system sees it               *)
  wire,      (* the solver's stdin/stdout since the last (echo "<<DONE>>") *)
  reply,     (* what the solver wrote in answer to the last command        *)
  call,      (* the API call the owner is in, or was last in               *)
  nested,    (* TRUE inside the get_info that parse_sat makes              *)
  pc,        (* where the owner is                                         *)
  result,    (* how the owner's last call ended                            *)
  poisoned,  (* the mutex is poisoned: its holder panicked                 *)
  cancelled, (* history: some SmtPid::kill() took effect                   *)
  stray,     (* history: SIGKILL was sent to a pid already reaped          *)
  failed     (* history: the solver reported an error or exited            *)

owner == <<call, nested, pc, result>>
vars  == <<status, child, wire, reply, owner, poisoned, cancelled, stray, failed>>

Calls     == {"check_sat", "get_model", "get_unsat_assumptions", "send"}
(* The calls made between start_call and end_call.                         *)
Expensive == {"check_sat", "get_model"}

(* Running { in_call: false } is "idle", Running { in_call: true } is      *)
(* "in_call".                                                              *)
Running == {"idle", "in_call"}
Status  == Running \union {"Stopping", "NeedsWait", "Terminated"}

(* A "dying" process has a SIGKILL pending; a "zombie" has exited, its     *)
(* ends of the pipes closed, and is not yet waited for; the pid of a       *)
(* "reaped" process may be reused.                                         *)
Child   == {"alive", "dying", "zombie", "reaped"}
Writable == child \in {"alive", "dying"}

Results == {"none", "Ok", "Killed", "UnexpectedClose", "Io", "panic"}
Pcs     == {"ready", "send", "send_raw", "start_call", "echo", "read", "end_call",
            "drop_kill", "drop_wait", "drop_mark", "gone", "aborted"}
------------------------------------------------------------------------------
(* Ends of a call                                                          *)

Return(r) == pc' = "ready" /\ result' = r /\ nested' = FALSE

(* Unwinding drops the SmtProc.                                            *)
Panic == pc' = "drop_kill" /\ result' = "panic" /\ nested' = FALSE

(* parse_sat unwraps the result of its get_info with expect().             *)
Fail(r) == IF nested THEN Panic ELSE Return(r)

(* Mutant of Reap: the status is left for someone else to settle.          *)
ReapNoMark == /\ status \notin Running
              /\ status' = "NeedsWait"
              /\ child'  = "reaped"

(* handle_termination_status on a solver that no longer runs: kill it if   *)
(* it is only Stopping, wait() for it, leave it Terminated.                *)
Reap == /\ status \notin Running
        /\ status' = "Terminated"
        /\ child'  = "reaped"

(* check_killed()?; Err(r)                                                 *)
FailUnlessKilled(r) ==
  \/ /\ status \in Running
     /\ Fail(r)
     /\ UNCHANGED <<status, child>>
  \/ /\ Reap
     /\ Fail("Killed")

------------------------------------------------------------------------------
(* The owner's calls                                                       *)

(* Mutant of Begin: the call is not entered.                               *)
BeginReturned(c) ==
  /\ pc = "ready"
  /\ call' = c
  /\ nested' = FALSE
  /\ result' = c
  /\ pc' = "ready"
  /\ UNCHANGED <<status, child, wire, reply, poisoned, cancelled, stray, failed>>

Begin(c) ==
  /\ pc = "ready"
  /\ call' = c
  /\ nested' = FALSE
  /\ result' = "none"
  /\ pc' = IF c = "get_model" THEN "start_call" ELSE "send"
  /\ UNCHANGED <<status, child, wire, reply, poisoned, cancelled, stray, failed>>

(* What follows a send().                                                  *)
AfterSend ==
  CASE call = "send"                   -> Return("Ok")
    [] call = "check_sat" /\ ~nested   -> pc' = "start_call" /\ UNCHANGED <<result, nested>>
    [] OTHER                           -> pc' = "echo" /\ UNCHANGED <<result, nested>>

(* send() looks at the status under the lock.  A cancelled solver is       *)
(* reaped and the command dropped, as if it had succeeded.                 *)
Send ==
  /\ pc = "send"
  /\ ~poisoned
  /\ \/ /\ status \in Running
        /\ pc' = "send_raw"
        /\ UNCHANGED <<status, child, nested, result>>
     \/ Reap /\ AfterSend
  /\ UNCHANGED <<wire, reply, call, poisoned, cancelled, stray, failed>>

(* The lock is released by now.                                            *)
SendRaw ==
  /\ pc = "send_raw"
  /\ IF Writable THEN AfterSend ELSE Panic
  /\ UNCHANGED <<status, child, wire, reply, call, poisoned, cancelled, stray, failed>>

(* The assertion fails with the lock held.                                 *)
StartCall ==
  /\ pc = "start_call"
  /\ ~poisoned
  /\ \/ /\ status = "idle"
        /\ status' = "in_call"
        /\ pc' = IF call = "get_model" THEN "send" ELSE "echo"
        /\ UNCHANGED <<child, nested, result, poisoned>>
     \/ /\ status = "in_call"
        /\ Panic
        /\ poisoned' = TRUE
        /\ UNCHANGED <<status, child>>
     \/ /\ Reap
        /\ Return("Killed")
        /\ UNCHANGED poisoned
  /\ UNCHANGED <<wire, reply, call, cancelled, stray, failed>>

(* get_response first writes the end marker.                               *)
Echo ==
  /\ pc = "echo"
  /\ ~poisoned
  /\ \/ /\ Writable
        /\ wire' = "asked"
        /\ reply' = "none"
        /\ pc' = "read"
        /\ UNCHANGED <<status, child, nested, result>>
     \/ /\ ~Writable
        /\ FailUnlessKilled("Io")
        /\ UNCHANGED <<wire, reply>>
  /\ UNCHANGED <<call, poisoned, cancelled, stray, failed>>

(* get_response read the marker.  An answer that is not sat, unsat or      *)
(* unknown is an error; unknown asks the solver for its reason.            *)
ReadReply ==
  /\ pc = "read"
  /\ ~poisoned
  /\ wire = "answered"
  /\ wire' = "quiet"
  /\ \/ /\ call = "check_sat" /\ ~nested /\ reply = "unknown"
        /\ pc' = "send"
        /\ nested' = TRUE
        /\ UNCHANGED <<status, child, result>>
     \/ /\ call = "check_sat" /\ ~nested /\ reply = "error"
        /\ FailUnlessKilled("UnexpectedClose")
     \/ /\ call \in Expensive
        /\ call = "check_sat" /\ ~nested => reply \in {"sat", "unsat"}
        /\ pc' = "end_call"
        /\ nested' = FALSE
        /\ UNCHANGED <<status, child, result>>
     \/ /\ call \notin Expensive
        /\ Return("Ok")
        /\ UNCHANGED <<status, child>>
  /\ UNCHANGED <<reply, call, poisoned, cancelled, stray, failed>>

(* read_line returned 0.  If nobody killed the solver its output has to    *)
(* hold an error.                                                          *)
ReadEof ==
  /\ pc = "read"
  /\ ~poisoned
  /\ wire # "answered"
  /\ ~Writable
  /\ \/ /\ status \in Running
        /\ IF reply = "error" THEN Fail("UnexpectedClose") ELSE Panic
        /\ UNCHANGED <<status, child>>
     \/ /\ Reap
        /\ Fail("Killed")
  /\ UNCHANGED <<wire, reply, call, poisoned, cancelled, stray, failed>>

(* Mutants of EndCall: the missing reset of in_call, the status not looked *)
(* at.                                                                     *)
EndCallNoReset ==
  /\ pc = "end_call"
  /\ status \in Running
  /\ Return("Ok")
  /\ UNCHANGED <<status, child, wire, reply, call, poisoned, cancelled, stray, failed>>

EndCallNoCheck ==
  /\ pc = "end_call"
  /\ status' = IF status \in Running THEN "idle" ELSE status
  /\ Return("Ok")
  /\ UNCHANGED <<child, wire, reply, call, poisoned, cancelled, stray, failed>>

EndCall ==
  /\ pc = "end_call"
  /\ ~poisoned
  /\ \/ /\ status \in Running
        /\ status' = "idle"
        /\ IF status = "in_call" THEN Return("Ok") ELSE Panic
        /\ poisoned' = IF status = "in_call" THEN FALSE ELSE TRUE
        /\ UNCHANGED child
     \/ /\ Reap
        /\ Return("Killed")
        /\ UNCHANGED poisoned
  /\ UNCHANGED <<wire, reply, call, cancelled, stray, failed>>
------------------------------------------------------------------------------
(* Drop: the status is written after the process is gone                   *)

Drop ==
  /\ pc = "ready"
  /\ pc' = "drop_kill"
  /\ UNCHANGED <<status, child, wire, reply, call, nested, result, poisoned, cancelled, stray, failed>>

DropKill ==
  /\ pc = "drop_kill"
  /\ pc' = "drop_wait"
  /\ child' = IF child = "alive" THEN "dying" ELSE child
  /\ UNCHANGED <<status, wire, reply, call, nested, result, poisoned, cancelled, stray, failed>>

DropWait ==
  /\ pc = "drop_wait"
  /\ child \in {"zombie", "reaped"}
  /\ child' = "reaped"
  /\ pc' = "drop_mark"
  /\ UNCHANGED <<status, wire, reply, call, nested, result, poisoned, cancelled, stray, failed>>

(* lock().unwrap() of a poisoned mutex while unwinding aborts the program. *)
DropMark ==
  /\ pc = "drop_mark"
  /\ \/ /\ ~poisoned
        /\ status' = "Terminated"
        /\ pc' = "gone"
     \/ /\ poisoned
        /\ pc' = "aborted"
        /\ UNCHANGED status
  /\ UNCHANGED <<child, wire, reply, call, nested, result, poisoned, cancelled, stray, failed>>
------------------------------------------------------------------------------
(* SmtPid::kill(), on any clone of the handle, in any other thread         *)

(* Mutant of Kill: a call in progress is only asked to stop.               *)
KillLater ==
  /\ ~poisoned
  /\ status \in Running
  /\ status' = "Stopping"
  /\ cancelled' = TRUE
  /\ UNCHANGED <<child, stray, wire, reply, owner, poisoned, failed>>

Kill ==
  /\ ~poisoned
  /\ pc # "aborted"
  /\ \/ /\ status = "in_call"
        /\ child'  = IF child = "alive" THEN "dying" ELSE child
        /\ stray'  = (stray \/ child = "reaped")
        /\ status' = "NeedsWait"
     \/ /\ status = "idle"
        /\ status' = "Stopping"
        /\ UNCHANGED <<child, stray>>
  /\ cancelled' = TRUE
  /\ UNCHANGED <<wire, reply, owner, poisoned, failed>>
------------------------------------------------------------------------------
(* The solver (external)                                                   *)

Answer ==
  /\ wire = "asked"
  /\ Writable
  /\ wire' = "answered"
  /\ reply' \in IF call = "check_sat" /\ ~nested THEN CheckReplies ELSE {"reply"}
  /\ failed' = (failed \/ reply' = "error")
  /\ UNCHANGED <<status, child, owner, poisoned, cancelled, stray>>

(* CVC5 exits on an error it reports; any solver may crash.                *)
Exit ==
  /\ child = "alive"
  /\ child' = "zombie"
  /\ reply' \in IF wire = "asked" THEN {"none", "error"} ELSE {reply}
  /\ failed' = TRUE
  /\ UNCHANGED <<status, wire, owner, poisoned, cancelled, stray>>

(* SIGKILL is delivered some time after it is sent.                        *)
Die ==
  /\ child = "dying"
  /\ child' = "zombie"
  /\ UNCHANGED <<status, wire, reply, owner, poisoned, cancelled, stray, failed>>
------------------------------------------------------------------------------
Init ==
  /\ status = "idle"
  /\ child = "alive"
  /\ wire = "quiet"
  /\ reply = "none"
  /\ call = "send"
  /\ nested = FALSE
  /\ pc = "ready"
  /\ result = "none"
  /\ poisoned = FALSE
  /\ cancelled = FALSE
  /\ stray = FALSE
  /\ failed = FALSE

(* The steps of a call or of a drop that has begun.                        *)
OwnerStep ==
  \/ Send \/ SendRaw \/ StartCall \/ Echo \/ ReadReply \/ ReadEof \/ EndCall
  \/ DropKill \/ DropWait \/ DropMark

Next ==
  \/ \E c \in Calls : Begin(c)
  \/ Drop
  \/ OwnerStep
  \/ Kill
  \/ Answer \/ Exit \/ Die

(* What is neither the solver's thinking nor the client's choice: threads  *)
(* run, SIGKILL is delivered, and commands that are not expensive are      *)
(* answered.  Nothing is assumed of (check-sat) and (get-model).           *)
Fairness ==
  /\ WF_vars(OwnerStep)
  /\ WF_vars(Die)
  /\ WF_vars(Answer /\ (nested \/ call \notin Expensive))

Spec     == Init /\ [][Next]_vars
FairSpec == Spec /\ Fairness
------------------------------------------------------------------------------
(* Every variable keeps its type.                                          *)
TypeOK ==
  /\ status \in Status
  /\ child \in Child
  /\ wire \in {"quiet", "asked", "answered"}
  /\ reply \in {"none", "reply", "sat", "unsat", "unknown", "error"}
  /\ call \in Calls
  /\ nested \in BOOLEAN
  /\ pc \in Pcs
  /\ result \in Results
  /\ poisoned \in BOOLEAN
  /\ cancelled \in BOOLEAN
  /\ stray \in BOOLEAN
  /\ failed \in BOOLEAN

(* status says Terminated as soon as the process is reaped, except between *)
(* the wait() and the store at the end of Drop (and for good when the      *)
(* mutex is poisoned there).  SmtProc::handle_termination_status, kill.    *)
ReapIsRecorded ==
  child = "reaped" => status = "Terminated" \/ pc \in {"drop_mark", "aborted"}

(* No handle ever signals a pid that was reaped and that another process   *)
(* may hold by now, which the comment on SmtProc::terminated asks for: not *)
(* before the solver has failed.                                           *)
NoStraySignal == stray => failed

(* start_call and end_call bracket every expensive call: the assertions    *)
(* they make on in_call, with the lock held, do not fail before the solver *)
(* does.                                                                   *)
CallsAreBracketed == poisoned => failed

(* The owner panics only after a cancellation or a failure of the solver.  *)
PanicOnlyIfCancelled == result = "panic" => cancelled \/ failed

InCall == pc \in {"send", "send_raw", "start_call", "echo", "read", "end_call"}

(* Once cancelled, no call stays blocked, even on a solver that would      *)
(* never have answered.                                                    *)
CancelUnblocks == (cancelled /\ InCall) ~> ~InCall

(* The contract's view of this state.                                      *)
Phase == CASE status \in Running      -> "up"
           [] status = "Terminated"   -> "down"
           [] OTHER                   -> "cancelled"
Busy  == IF InCall THEN call ELSE "none"

Abstract == INSTANCE CancellableSolver WITH
  phase <- Phase, busy <- Busy, outcome <- result

(* An expensive call succeeds only if no cancellation came before its end, *)
(* Killed is returned exactly for cancellations and leaves the process     *)
(* down, and a cancellation is never reported as a solver error.           *)
Contract == Abstract!Spec
==============================================================================
