---------------------------- MODULE SmtProcProofs ----------------------------
(***************************************************************************)
(* What TLC checks of SmtProc on its instances, proved for every set of    *)
(* answers the solver may give.                                            *)
(***************************************************************************)
EXTENDS SmtProc, TLAPS

(* Where a command that was sent, or dropped, leaves its call.             *)
LEMMA AfterSendType ==
  ASSUME TypeOK, AfterSend
  PROVE  pc' \in Pcs /\ result' \in Results /\ nested' \in BOOLEAN
<1>1. CASE call = "send"
  BY <1>1 DEF TypeOK, AfterSend, Return, Pcs, Results
<1>2. CASE call = "check_sat" /\ ~nested
  BY <1>2 DEF TypeOK, AfterSend, Pcs
<1>3. CASE call # "send" /\ ~(call = "check_sat" /\ ~nested)
  BY <1>3 DEF TypeOK, AfterSend, Pcs
<1> QED BY <1>1, <1>2, <1>3

(* The variables keep their types, whatever the solver, the client and the *)
(* cancelling threads do (the Status enum of smtlib/src/proc.rs).          *)
THEOREM TypeCorrect == Spec => []TypeOK
<1>1. Init => TypeOK
  BY DEF Init, TypeOK, Status, Running, Child, Calls, Pcs, Results
<1>2. TypeOK /\ [Next]_vars => TypeOK'
  <2> SUFFICES ASSUME TypeOK, [Next]_vars PROVE TypeOK'
    OBVIOUS
  <2> USE DEF TypeOK
  <2>1. ASSUME NEW c \in Calls, Begin(c) PROVE TypeOK'
    BY <2>1 DEF Begin, Pcs, Results
  <2>2. CASE Drop  BY <2>2 DEF Drop, Pcs
  <2>3. CASE Send
    <3>1. /\ status' \in Status /\ child' \in Child /\ pc' \in Pcs
          /\ nested' \in BOOLEAN /\ result' \in Results
      <4>1. CASE Reap /\ AfterSend
        BY <4>1, AfterSendType DEF Reap, Status, Child
      <4>2. CASE pc' = "send_raw" /\ UNCHANGED <<status, child, nested, result>>
        BY <4>2 DEF Pcs
      <4> QED BY <2>3, <4>1, <4>2 DEF Send
    <3> QED BY <2>3, <3>1 DEF Send
  <2>4. CASE SendRaw
    <3>1. pc' \in Pcs /\ nested' \in BOOLEAN /\ result' \in Results
      <4>1. CASE AfterSend
        BY <4>1, AfterSendType
      <4>2. CASE Panic
        BY <4>2 DEF Panic, Pcs, Results
      <4> QED BY <2>4, <4>1, <4>2 DEF SendRaw
    <3> QED BY <2>4, <3>1 DEF SendRaw
  <2>5. CASE StartCall  BY <2>5 DEF StartCall, Panic, Reap, Return, Status, Running, Child, Pcs, Results
  <2>6. CASE Echo  BY <2>6 DEF Echo, FailUnlessKilled, Fail, Panic, Return, Reap, Status, Child, Pcs, Results
  <2>7. CASE ReadReply  BY <2>7 DEF ReadReply, FailUnlessKilled, Fail, Panic, Return, Reap, Status, Child, Pcs, Results
  <2>8. CASE ReadEof  BY <2>8 DEF ReadEof, Fail, Panic, Return, Reap, Status, Child, Pcs, Results
  <2>9. CASE EndCall  BY <2>9 DEF EndCall, Panic, Return, Reap, Status, Running, Child, Pcs, Results
  <2>10. CASE DropKill  BY <2>10 DEF DropKill, Child, Pcs
  <2>11. CASE DropWait  BY <2>11 DEF DropWait, Child, Pcs
  <2>12. CASE DropMark  BY <2>12 DEF DropMark, Status, Pcs
  <2>13. CASE Kill  BY <2>13 DEF Kill, owner, Status, Child
  <2>14. CASE Answer  BY <2>14, RepliesAssumption DEF Answer, owner
  <2>15. CASE Exit  BY <2>15 DEF Exit, owner, Child
  <2>16. CASE Die  BY <2>16 DEF Die, owner, Child
  <2>17. CASE UNCHANGED vars  BY <2>17 DEF vars, owner
  <2> QED
    BY <2>1, <2>2, <2>3, <2>4, <2>5, <2>6, <2>7, <2>8, <2>9, <2>10, <2>11, <2>12,
       <2>13, <2>14, <2>15, <2>16, <2>17 DEF Next, OwnerStep
<1> QED
  BY <1>1, <1>2, PTL DEF Spec

(* A reaped process is recorded as Terminated, but for the last step of    *)
(* SmtProc::kill and a poisoned mutex.                                     *)
THEOREM ReapRecorded == Spec => []ReapIsRecorded
<1>1. Init => ReapIsRecorded
  BY DEF Init, ReapIsRecorded
<1>2. TypeOK /\ ReapIsRecorded /\ [Next]_vars => ReapIsRecorded'
  <2> SUFFICES ASSUME TypeOK, ReapIsRecorded, [Next]_vars PROVE ReapIsRecorded'
    OBVIOUS
  <2> USE DEF ReapIsRecorded, Running, Writable
  <2>1. ASSUME NEW c \in Calls, Begin(c) PROVE ReapIsRecorded'
    BY <2>1 DEF Begin
  <2>2. CASE Drop  BY <2>2 DEF Drop
  <2>3. CASE Send  BY <2>3 DEF Send, Reap, AfterSend, Return
  <2>4. CASE SendRaw  BY <2>4 DEF SendRaw, AfterSend, Return, Panic
  <2>5. CASE StartCall  BY <2>5 DEF StartCall, Panic, Reap, Return
  <2>6. CASE Echo  BY <2>6 DEF Echo, FailUnlessKilled, Fail, Panic, Return, Reap
  <2>7. CASE ReadReply  BY <2>7 DEF ReadReply, FailUnlessKilled, Fail, Panic, Return, Reap
  <2>8. CASE ReadEof  BY <2>8 DEF ReadEof, Fail, Panic, Return, Reap
  <2>9. CASE EndCall  BY <2>9 DEF EndCall, Panic, Return, Reap
  <2>10. CASE DropKill  BY <2>10 DEF DropKill
  <2>11. CASE DropWait  BY <2>11 DEF DropWait
  <2>12. CASE DropMark  BY <2>12 DEF DropMark
  <2>13. CASE Kill  BY <2>13 DEF Kill, owner
  <2>14. CASE Answer  BY <2>14 DEF Answer, owner
  <2>15. CASE Exit  BY <2>15 DEF Exit, owner
  <2>16. CASE Die  BY <2>16 DEF Die, owner
  <2>17. CASE UNCHANGED vars  BY <2>17 DEF vars, owner
  <2> QED
    BY <2>1, <2>2, <2>3, <2>4, <2>5, <2>6, <2>7, <2>8, <2>9, <2>10, <2>11, <2>12,
       <2>13, <2>14, <2>15, <2>16, <2>17 DEF Next, OwnerStep
<1> QED
  BY <1>1, <1>2, TypeCorrect, PTL DEF Spec
------------------------------------------------------------------------------
(* SmtProc implements the contract of CancellableSolver                    *)

LEMMA PhaseCases ==
  ASSUME TypeOK
  PROVE  /\ Phase = "up" <=> status \in Running
         /\ Phase = "down" <=> status = "Terminated"
         /\ Phase = "cancelled" <=> status \in {"Stopping", "NeedsWait"}
         /\ Phase \in {"up", "down", "cancelled"}
BY DEF Phase, TypeOK, Status, Running

LEMMA BusyCases ==
  ASSUME TypeOK
  PROVE  /\ InCall => Busy = call /\ Busy # "none"
         /\ ~InCall => Busy = "none"
BY DEF Busy, TypeOK, Calls

(* The ends of a call, seen by the contract.                               *)
LEMMA ReapMaps ==
  ASSUME TypeOK, TypeOK', Reap
  PROVE  Phase # "up" /\ Phase' = "down" /\ Abstract!NoticeCancel
<1>1. Phase # "up" /\ (Phase = "cancelled" \/ Phase = "down")
  BY PhaseCases DEF Reap
<1>2. Phase' = "down"
  BY DEF Reap, Phase, Running
<1> QED
  BY <1>1, <1>2 DEF Abstract!NoticeCancel

LEMMA SamePhase ==
  ASSUME UNCHANGED status
  PROVE  UNCHANGED Phase
BY DEF Phase

LEMMA SameBusy ==
  ASSUME UNCHANGED call, InCall, InCall'
  PROVE  UNCHANGED Busy
BY DEF Busy

LEMMA PanicMaps ==
  ASSUME TypeOK, TypeOK', InCall, Panic, UNCHANGED status \/ Reap
  PROVE  Abstract!Break
<1>1. Busy # "none"
  BY BusyCases
<1>2. Busy' = "none" /\ result' = "panic"
  BY DEF Panic, Busy, InCall
<1>3. UNCHANGED Phase \/ Abstract!NoticeCancel
  BY SamePhase, ReapMaps
<1> QED
  BY <1>1, <1>2, <1>3 DEF Abstract!Break

LEMMA KilledMaps ==
  ASSUME TypeOK, TypeOK', InCall, Reap, Return("Killed")
  PROVE  Abstract!AnswerKilled
<1>1. Busy # "none"
  BY BusyCases
<1>2. Busy' = "none" /\ result' = "Killed"
  BY DEF Return, Busy, InCall
<1> QED
  BY <1>1, <1>2, ReapMaps DEF Abstract!AnswerKilled

LEMMA ErrorMaps ==
  ASSUME TypeOK, TypeOK', InCall, status \in Running, UNCHANGED status,
         NEW r \in Abstract!Errors, Return(r)
  PROVE  Abstract!AnswerError
<1>1. Busy # "none"
  BY BusyCases
<1>2. Busy' = "none" /\ result' = r
  BY DEF Return, Busy, InCall
<1>3. Phase = "up" /\ UNCHANGED Phase
  BY PhaseCases, SamePhase
<1> QED
  BY <1>1, <1>2, <1>3 DEF Abstract!AnswerError

LEMMA OkMaps ==
  ASSUME TypeOK, TypeOK', InCall, UNCHANGED status \/ Reap, Return("Ok"),
         call \in Expensive => status \in Running
  PROVE  Abstract!Succeed
<1>1. Busy # "none" /\ Busy = call
  BY BusyCases
<1>2. Busy' = "none" /\ result' = "Ok"
  BY DEF Return, Busy, InCall
<1>3. UNCHANGED Phase \/ Abstract!NoticeCancel
  BY SamePhase, ReapMaps
<1>4. Busy \in Expensive => Phase = "up"
  BY <1>1, PhaseCases
<1> QED
  BY <1>1, <1>2, <1>3, <1>4 DEF Abstract!Succeed

LEMMA FailMaps ==
  ASSUME TypeOK, TypeOK', InCall, NEW r \in Abstract!Errors, FailUnlessKilled(r)
  PROVE  Abstract!Next
<1>1. CASE nested
  BY <1>1, PanicMaps DEF FailUnlessKilled, Fail, Abstract!Next
<1>2. CASE ~nested /\ status \in Running
  BY <1>2, ErrorMaps DEF FailUnlessKilled, Fail, Reap, Abstract!Next
<1>3. CASE ~nested /\ status \notin Running
  BY <1>3, KilledMaps DEF FailUnlessKilled, Fail, Abstract!Next
<1> QED
  BY <1>1, <1>2, <1>3

(* Steps inside a call that only move on, reaping or not, are stuttering   *)
(* or Notice steps of the contract.                                        *)
LEMMA MoveMaps ==
  ASSUME TypeOK, TypeOK', InCall, InCall', UNCHANGED <<call, result>>,
         \/ UNCHANGED status
         \/ Reap
         \/ status \in Running /\ status' \in Running
  PROVE  [Abstract!Next]_(Abstract!vars)
<1>1. UNCHANGED Busy
  BY SameBusy
<1>2. CASE UNCHANGED status
  BY <1>1, <1>2, SamePhase DEF Abstract!vars
<1>3. CASE Reap
  BY <1>1, <1>3, ReapMaps DEF Abstract!Next, Abstract!Notice
<1>4. CASE status \in Running /\ status' \in Running
  <2>1. Phase = "up" /\ Phase' = "up"
    BY <1>4 DEF Phase, Running
  <2>2. UNCHANGED <<Phase, Busy, result>>
    BY <1>1, <2>1
  <2> QED
    BY <2>2 DEF Abstract!vars
<1> QED
  BY <1>2, <1>3, <1>4

(* Every step of SmtProc is a step of the contract: an expensive call      *)
(* succeeds only if nobody cancelled it, Killed is only for cancellations, *)
(* and a cancellation is never reported as a solver error.                 *)
THEOREM ImplementsContract == Spec => Contract
<1>1. Init => Abstract!Init
  BY DEF Init, Abstract!Init, Phase, Busy, InCall, Running
<1>2. TypeOK /\ TypeOK' /\ [Next]_vars => [Abstract!Next]_(Abstract!vars)
  <2> SUFFICES ASSUME TypeOK, TypeOK', [Next]_vars
               PROVE  [Abstract!Next]_(Abstract!vars)
    OBVIOUS
  <2>1. ASSUME NEW c \in Calls, Begin(c) PROVE Abstract!Next
    <3>1. UNCHANGED Phase
      BY <2>1, SamePhase DEF Begin
    <3>2. Busy = "none" /\ Busy' = c /\ result' = "none"
      BY <2>1 DEF Begin, Busy, InCall
    <3> QED
      BY <3>1, <3>2 DEF Abstract!Next, Abstract!Begin
  <2>2. CASE Drop
    BY <2>2, SamePhase DEF Drop, Abstract!vars, Busy, InCall
  <2>3. CASE Send
    <3>1. CASE status \in Running
      BY <2>3, <3>1, MoveMaps DEF Send, Reap, InCall
    <3>2. CASE Reap /\ call = "send"
      BY <2>3, <3>2, OkMaps DEF Send, AfterSend, InCall, Expensive, Abstract!Next, Reap
    <3>3. CASE Reap /\ call # "send"
      BY <2>3, <3>3, MoveMaps DEF Send, AfterSend, InCall, Reap
    <3> QED
      BY <2>3, <3>1, <3>2, <3>3 DEF Send
  <2>4. CASE SendRaw
    <3>1. CASE ~Writable
      BY <2>4, <3>1, PanicMaps DEF SendRaw, InCall, Abstract!Next
    <3>2. CASE Writable /\ call = "send"
      BY <2>4, <3>2, OkMaps DEF SendRaw, AfterSend, InCall, Expensive, Abstract!Next
    <3>3. CASE Writable /\ call # "send"
      BY <2>4, <3>3, MoveMaps DEF SendRaw, AfterSend, InCall
    <3> QED
      BY <3>1, <3>2, <3>3
  <2>5. CASE StartCall
    <3>1. CASE status = "idle"
      BY <2>5, <3>1, MoveMaps DEF StartCall, InCall, Running, Reap
    <3>2. CASE status = "in_call"
      BY <2>5, <3>2, PanicMaps DEF StartCall, InCall, Running, Reap, Abstract!Next
    <3>3. CASE status \notin Running
      BY <2>5, <3>3, KilledMaps DEF StartCall, InCall, Running, Abstract!Next
    <3> QED
      BY <3>1, <3>2, <3>3 DEF Running
  <2>6. CASE Echo
    <3>1. CASE Writable
      BY <2>6, <3>1, MoveMaps DEF Echo, InCall
    <3>2. CASE ~Writable
      BY <2>6, <3>2, FailMaps DEF Echo, InCall, Abstract!Errors
    <3> QED
      BY <3>1, <3>2
  <2>7. CASE ReadReply
    <3>1. CASE FailUnlessKilled("UnexpectedClose")
      BY <2>7, <3>1, FailMaps DEF ReadReply, InCall, Abstract!Errors
    <3>2. CASE call \notin Expensive /\ Return("Ok") /\ UNCHANGED status
      BY <2>7, <3>2, OkMaps DEF ReadReply, InCall, Abstract!Next
    <3>3. CASE pc' \in {"send", "end_call"} /\ UNCHANGED <<status, call, result>>
      BY <2>7, <3>3, MoveMaps DEF ReadReply, InCall
    <3> QED
      BY <2>7, <3>1, <3>2, <3>3 DEF ReadReply
  <2>8. CASE ReadEof
    <3>1. CASE nested \/ (status \in Running /\ reply # "error")
      BY <2>8, <3>1, PanicMaps DEF ReadEof, Fail, InCall, Abstract!Next, Reap
    <3>2. CASE ~nested /\ status \in Running /\ reply = "error"
      BY <2>8, <3>2, ErrorMaps DEF ReadEof, Fail, InCall, Abstract!Next, Abstract!Errors, Reap
    <3>3. CASE ~nested /\ status \notin Running
      BY <2>8, <3>3, KilledMaps DEF ReadEof, Fail, InCall, Abstract!Next
    <3> QED
      BY <3>1, <3>2, <3>3
  <2>9. CASE EndCall
    <3>1. CASE status = "in_call"
      <4>1. Busy # "none" /\ Busy' = "none" /\ result' = "Ok"
        BY <2>9, <3>1, BusyCases DEF EndCall, Return, Busy, InCall, Reap, Running
      <4>2. Phase = "up" /\ UNCHANGED Phase
        BY <2>9, <3>1 DEF EndCall, Phase, Running, Reap
      <4> QED
        BY <4>1, <4>2 DEF Abstract!Succeed, Abstract!Next
    <3>2. CASE status = "idle"
      BY <2>9, <3>2, PanicMaps DEF EndCall, InCall, Running, Reap, Abstract!Next
    <3>3. CASE status \notin Running
      BY <2>9, <3>3, KilledMaps DEF EndCall, InCall, Abstract!Next
    <3> QED
      BY <3>1, <3>2, <3>3 DEF Running
  <2>10. CASE DropKill
    BY <2>10, SamePhase DEF DropKill, Abstract!vars, Busy, InCall
  <2>11. CASE DropWait
    BY <2>11, SamePhase DEF DropWait, Abstract!vars, Busy, InCall
  <2>12. CASE DropMark
    <3>1. Busy = "none" /\ Busy' = "none" /\ UNCHANGED result
      BY <2>12 DEF DropMark, Busy, InCall
    <3>2. CASE UNCHANGED status
      BY <3>1, <3>2, SamePhase DEF Abstract!vars
    <3>3. CASE status' = "Terminated"
      BY <3>1, <3>3 DEF Phase, Running, Abstract!Next, Abstract!Close
    <3> QED
      BY <2>12, <3>2, <3>3 DEF DropMark
  <2>13. CASE Kill
    <3>1. UNCHANGED <<Busy, result>>
      BY <2>13 DEF Kill, owner, Busy, InCall
    <3>2. Phase = "up" /\ Phase' = "cancelled"
      BY <2>13 DEF Kill, Phase, Running
    <3> QED
      BY <3>1, <3>2 DEF Abstract!Next, Abstract!Cancel
  <2>14. CASE Answer \/ Exit \/ Die \/ UNCHANGED vars
    BY <2>14, SamePhase DEF Answer, Exit, Die, vars, owner, Abstract!vars, Busy, InCall
  <2> QED
    BY <2>1, <2>2, <2>3, <2>4, <2>5, <2>6, <2>7, <2>8, <2>9, <2>10, <2>11, <2>12,
       <2>13, <2>14 DEF Next, OwnerStep
<1> QED
  BY <1>1, <1>2, TypeCorrect, PTL DEF Spec, Contract, Abstract!Spec

------------------------------------------------------------------------------
(* Until the solver reports an error or exits                              *)

(* The owner is between a start_call and the matching end_call.            *)
InBracket ==
  \/ call \in Expensive /\ pc \in {"echo", "read", "end_call"}
  \/ (nested \/ call = "get_model") /\ pc \in {"send", "send_raw"}

(* The inductive invariant: in_call is set exactly inside the bracket, as  *)
(* long as nobody cancels; the process stops running only when it was      *)
(* signalled or is being dropped; no error is ever read.                   *)
BracketInv ==
  /\ status = "in_call" => InBracket
  /\ InBracket => status # "idle"
  /\ nested => call = "check_sat" /\ pc \in {"send", "send_raw", "echo", "read"}
  /\ pc \in {"start_call", "end_call"} => call \in Expensive
  /\ child # "alive" /\ pc \notin {"drop_wait", "drop_mark", "gone"} => status \notin Running
  /\ reply # "error"
  /\ ~poisoned
  /\ ~stray

LEMMA BracketInit == Init => BracketInv
BY DEF Init, BracketInv, InBracket

LEMMA BracketStep ==
  ASSUME TypeOK, BracketInv, [Next]_vars, ~failed'
  PROVE  BracketInv'
<1> USE DEF BracketInv
<1>1. ASSUME NEW c \in Calls, Begin(c) PROVE BracketInv'
  BY <1>1 DEF Begin, InBracket, Expensive
<1>2. CASE Drop
  BY <1>2 DEF Drop, InBracket
<1>3. CASE Send
  BY <1>3 DEF Send, Reap, AfterSend, Return, InBracket, Running, Expensive, TypeOK, Calls
<1>4. CASE SendRaw
  <2>1. CASE Writable
    BY <1>4, <2>1 DEF SendRaw, AfterSend, Return, InBracket, Expensive, TypeOK, Calls
  <2>2. CASE ~Writable
    BY <1>4, <2>2 DEF SendRaw, Panic, InBracket, Running, Writable
  <2> QED
    BY <2>1, <2>2
<1>5. CASE StartCall
  <2>1. status # "in_call"
    BY <1>5 DEF StartCall, InBracket
  <2>2. CASE status = "idle"
    BY <1>5, <2>2 DEF StartCall, Reap, InBracket, Running, Expensive
  <2>3. CASE status # "idle"
    BY <1>5, <2>1, <2>3 DEF StartCall, Reap, Return, InBracket, Running
  <2> QED
    BY <2>2, <2>3
<1>6. CASE Echo
  BY <1>6 DEF Echo, FailUnlessKilled, Fail, Panic, Return, Reap, InBracket, Running, Writable
<1>7. CASE ReadReply
  BY <1>7 DEF ReadReply, FailUnlessKilled, Fail, Panic, Return, Reap, InBracket, Running, Expensive
<1>8. CASE ReadEof
  BY <1>8 DEF ReadEof, Fail, Panic, Return, Reap, InBracket, Running, Writable
<1>9. CASE EndCall
  <2>1. status # "idle" /\ call \in Expensive
    BY <1>9 DEF EndCall, InBracket
  <2>2. CASE status = "in_call"
    BY <1>9, <2>2 DEF EndCall, Return, Reap, InBracket, Running, Expensive
  <2>3. CASE status # "in_call"
    <3>1. Reap /\ Return("Killed") /\ UNCHANGED <<call, reply, poisoned, stray>>
      BY <1>9, <2>1, <2>3 DEF EndCall, Running
    <3> QED
      BY <3>1 DEF Reap, Return, InBracket, Running
  <2> QED
    BY <2>2, <2>3
<1>10. CASE DropKill
  BY <1>10 DEF DropKill, InBracket
<1>11. CASE DropWait
  BY <1>11 DEF DropWait, InBracket
<1>12. CASE DropMark
  BY <1>12 DEF DropMark, InBracket, Running
<1>13. CASE Kill
  <2>1. status = "in_call" => child = "alive"
    BY DEF InBracket, Running
  <2>2. stray' = FALSE
    BY <1>13, <2>1 DEF Kill, TypeOK
  <2> QED
    BY <1>13, <2>2 DEF Kill, owner, InBracket, Running
<1>14. CASE Answer
  BY <1>14 DEF Answer, owner, InBracket
<1>15. CASE Exit
  BY <1>15 DEF Exit
<1>16. CASE Die
  BY <1>16 DEF Die, owner, InBracket
<1>17. CASE UNCHANGED vars
  BY <1>17 DEF vars, owner, InBracket
<1> QED
  BY <1>1, <1>2, <1>3, <1>4, <1>5, <1>6, <1>7, <1>8, <1>9, <1>10, <1>11, <1>12,
     <1>13, <1>14, <1>15, <1>16, <1>17 DEF Next, OwnerStep

LEMMA BracketUntilFailed ==
  TypeOK /\ (BracketInv \/ failed) /\ [Next]_vars => (BracketInv \/ failed)'
<1>1. TypeOK /\ failed /\ [Next]_vars => failed'
  BY DEF Next, OwnerStep, Begin, Drop, Send, SendRaw, StartCall, Echo, ReadReply, ReadEof,
     EndCall, DropKill, DropWait, DropMark, Kill, Answer, Exit, Die, vars
<1> QED
  BY <1>1, BracketStep

(* No SmtPid signals a reaped pid before the solver has failed.            *)
THEOREM NoStray == Spec => []NoStraySignal
<1>1. BracketInv \/ failed => NoStraySignal
  BY DEF BracketInv, NoStraySignal
<1> QED
  BY <1>1, BracketInit, BracketUntilFailed, TypeCorrect, PTL DEF Spec

(* The assertions of start_call and end_call do not fail before the solver *)
(* does.                                                                   *)
THEOREM Bracketed == Spec => []CallsAreBracketed
<1>1. BracketInv \/ failed => CallsAreBracketed
  BY DEF BracketInv, CallsAreBracketed
<1> QED
  BY <1>1, BracketInit, BracketUntilFailed, TypeCorrect, PTL DEF Spec

(* A status that is not Running is the work of a cancellation, or of the   *)
(* owner's Drop, after which the owner makes no call.                      *)
StoppedBySomeone == status \notin Running => cancelled \/ pc = "gone"

(* What the owner's panics need: it stopped, or it failed, or someone      *)
(* cancelled it.                                                           *)
PanicInv == (BracketInv \/ failed) /\ StoppedBySomeone /\ PanicOnlyIfCancelled

LEMMA StoppedStep ==
  ASSUME TypeOK, StoppedBySomeone, [Next]_vars
  PROVE  StoppedBySomeone'
<1> USE DEF StoppedBySomeone, Running
<1>1. ASSUME NEW c \in Calls, Begin(c) PROVE StoppedBySomeone'
  BY <1>1 DEF Begin
<1>2. CASE Drop  BY <1>2 DEF Drop
<1>3. CASE Send  BY <1>3 DEF Send, Reap
<1>4. CASE SendRaw  BY <1>4 DEF SendRaw
<1>5. CASE StartCall  BY <1>5 DEF StartCall, Reap
<1>6. CASE Echo  BY <1>6 DEF Echo, FailUnlessKilled, Reap
<1>7. CASE ReadReply  BY <1>7 DEF ReadReply, FailUnlessKilled, Reap
<1>8. CASE ReadEof  BY <1>8 DEF ReadEof, Reap
<1>9. CASE EndCall  BY <1>9 DEF EndCall, Reap
<1>10. CASE DropKill  BY <1>10 DEF DropKill
<1>11. CASE DropWait  BY <1>11 DEF DropWait
<1>12. CASE DropMark  BY <1>12 DEF DropMark
<1>13. CASE Kill  BY <1>13 DEF Kill, owner
<1>14. CASE Answer \/ Exit \/ Die  BY <1>14 DEF Answer, Exit, Die, owner
<1>15. CASE UNCHANGED vars  BY <1>15 DEF vars, owner
<1> QED
  BY <1>1, <1>2, <1>3, <1>4, <1>5, <1>6, <1>7, <1>8, <1>9, <1>10, <1>11, <1>12,
     <1>13, <1>14, <1>15 DEF Next, OwnerStep

(* Only five steps set the result to "panic", and each of them needs a     *)
(* process that stopped or an assertion on in_call that fails.             *)
LEMMA PanicStep ==
  ASSUME TypeOK, PanicInv, [Next]_vars, ~failed'
  PROVE  PanicOnlyIfCancelled'
<1>1. BracketInv /\ StoppedBySomeone /\ PanicOnlyIfCancelled /\ ~failed
  <2>1. failed => failed'
    BY DEF Next, OwnerStep, Begin, Drop, Send, SendRaw, StartCall, Echo, ReadReply, ReadEof,
       EndCall, DropKill, DropWait, DropMark, Kill, Answer, Exit, Die, vars
  <2> QED BY <2>1 DEF PanicInv
<1>2. pc \notin {"drop_wait", "drop_mark", "gone"} /\ child # "alive" => cancelled
  BY <1>1 DEF BracketInv, StoppedBySomeone
<1> USE DEF PanicOnlyIfCancelled
<1>3. ASSUME NEW c \in Calls, Begin(c) PROVE PanicOnlyIfCancelled'
  BY <1>3 DEF Begin, Calls
<1>4. CASE Send
  BY <1>1, <1>4 DEF Send, AfterSend, Return
<1>5. CASE SendRaw
  BY <1>1, <1>2, <1>5 DEF SendRaw, AfterSend, Return, Panic, Writable
<1>6. CASE StartCall
  BY <1>1, <1>6 DEF StartCall, Return, Panic, BracketInv, InBracket
<1>7. CASE Echo
  BY <1>1, <1>2, <1>7 DEF Echo, FailUnlessKilled, Fail, Panic, Return, Writable
<1>8. CASE ReadReply
  BY <1>1, <1>8 DEF ReadReply, FailUnlessKilled, Fail, Return
<1>9. CASE ReadEof
  BY <1>1, <1>2, <1>9 DEF ReadEof, Fail, Panic, Return, Writable
<1>10. CASE EndCall
  <2>1. status # "idle"
    BY <1>1, <1>10 DEF EndCall, BracketInv, InBracket
  <2> QED BY <1>1, <1>10, <2>1 DEF EndCall, Return, Panic, Running
<1>11. CASE Drop \/ DropKill \/ DropWait \/ DropMark
  BY <1>1, <1>11 DEF Drop, DropKill, DropWait, DropMark
<1>12. CASE Kill \/ Answer \/ Exit \/ Die
  BY <1>1, <1>12 DEF Kill, Answer, Exit, Die, owner
<1>13. CASE UNCHANGED vars
  BY <1>1, <1>13 DEF vars, owner
<1> QED
  BY <1>3, <1>4, <1>5, <1>6, <1>7, <1>8, <1>9, <1>10, <1>11, <1>12, <1>13 DEF Next, OwnerStep

(* The thread that owns the solver panics only if somebody cancelled the   *)
(* solver or the solver failed: an expect() of parse_sat on the reason for *)
(* unknown, a write to a closed pipe, an assertion on in_call.             *)
THEOREM PanicsAccounted == Spec => []PanicOnlyIfCancelled
<1>1. Init => PanicInv
  BY BracketInit DEF Init, PanicInv, StoppedBySomeone, PanicOnlyIfCancelled, Running
<1>2. TypeOK /\ PanicInv /\ [Next]_vars => PanicInv'
  <2> SUFFICES ASSUME TypeOK, PanicInv, [Next]_vars PROVE PanicInv'
    OBVIOUS
  <2>1. (BracketInv \/ failed)'
    BY BracketUntilFailed DEF PanicInv
  <2>2. StoppedBySomeone'
    BY StoppedStep DEF PanicInv
  <2>3. PanicOnlyIfCancelled'
    BY PanicStep DEF PanicOnlyIfCancelled
  <2> QED BY <2>1, <2>2, <2>3 DEF PanicInv
<1>3. PanicInv => PanicOnlyIfCancelled
  BY DEF PanicInv
<1> QED
  BY <1>1, <1>2, <1>3, TypeCorrect, PTL DEF Spec
==============================================================================
