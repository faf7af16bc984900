--------------------------- MODULE SyncServiceProofs ---------------------------
(***************************************************************************)
(* Proofs about SyncService that hold for every set of submissions, with   *)
(* or without faults of the store, whichever tasks are slow or unknown and *)
(* whenever clients disconnect and the process is told to stop.            *)
(***************************************************************************)
EXTENDS SyncService, TLAPS

USE ServiceAssumption

-----------------------------------------------------------------------------
(* The type invariant.                                                     *)

(* NewTask and a server that starts.                                       *)
LEMMA TypeInit == Init => TypeOK
<1> SUFFICES ASSUME Init PROVE TypeOK
  OBVIOUS
<1>1. NoAnswer \in [code : Codes, status : TaskStatus \cup {"none"},
                    result : {"empty", "output", "partial", "error", "none"},
                    stamps : SUBSET {"started", "completed"}]
  BY DEF NoAnswer, Codes
<1>2. answer \in [Tasks -> [code : Codes, status : TaskStatus \cup {"none"},
                            result : {"empty", "output", "partial", "error", "none"},
                            stamps : SUBSET {"started", "completed"}]]
  BY <1>1 DEF Init
<1> QED
  BY <1>2 DEF Init, TypeOK, InitialStatus, TaskStatus, Codes

(* The response has the fields of a task, or none of them.                 *)
LEMMA ResponseType ==
  ASSUME TypeOK, NEW t \in Tasks
  PROVE  Response(t) \in [code : Codes, status : TaskStatus \cup {"none"},
                          result : {"empty", "output", "partial", "error", "none"},
                          stamps : SUBSET {"started", "completed"}]
BY DEF TypeOK, Response, Codes

(* SetStatus returns a status.                                             *)
LEMMA SetStatusType ==
  ASSUME NEW s \in TaskStatus, NEW target \in TaskStatus
  PROVE  SetStatus(s, target) \in TaskStatus
BY DEF SetStatus

(* The steps of a submission.                                              *)
LEMMA TypeRequest ==
  ASSUME TypeOK, NEW t \in Tasks, Receive(t) \/ RequestStep(t) \/ Disconnect(t) \/ Poll(t)
  PROVE  TypeOK'
<1> USE DEF TypeOK, objectVars, Goto
<1>a. {"running", "done", "failed"} \subseteq TaskStatus
  BY DEF TaskStatus
<1>1. CASE Receive(t)
  BY <1>1 DEF Receive
<1>2. CASE Save(t)
  BY <1>2 DEF Save, Codes, StoreAnswers
<1>3. CASE TransitionToRunning(t)
  BY <1>a, <1>3, SetStatusType DEF TransitionToRunning
<1>4. CASE RunHandler(t)
  BY <1>4 DEF RunHandler, RunnerAnswers, Codes
<1>5. CASE Complete(t)
  BY <1>a, <1>5, SetStatusType DEF Complete
<1>6. CASE Fail(t)
  BY <1>a, <1>6, SetStatusType DEF Fail, FailureResult
<1>7. CASE Respond(t)
  BY <1>7, ResponseType DEF Respond
<1>8. CASE Disconnect(t)
  BY <1>8 DEF Disconnect
<1>9. CASE Poll(t)
  BY <1>9 DEF Poll
<1> QED
  BY <1>1, <1>2, <1>3, <1>4, <1>5, <1>6, <1>7, <1>8, <1>9 DEF RequestStep

(* No step of a submission or of the server leaves the types.              *)
LEMMA TypeNext == TypeOK /\ [Next]_vars => TypeOK'
<1> SUFFICES ASSUME TypeOK, [Next]_vars PROVE TypeOK'
  OBVIOUS
<1>1. CASE (\E ok \in BOOLEAN : Listen(ok)) \/ Signal \/ ShutdownStep
  BY <1>1 DEF Listen, Signal, ShutdownStep, ShutdownComplete, ShutdownTimeout, TypeOK, objectVars
<1>2. CASE UNCHANGED vars
  BY <1>2 DEF TypeOK, vars, objectVars
<1> QED
  BY <1>1, <1>2, TypeRequest DEF Next

(* Every value in the state has its type.                                  *)
THEOREM TypeCorrect == Spec => []TypeOK
BY TypeInit, TypeNext, PTL DEF Spec

-----------------------------------------------------------------------------
(* What a task object holds at each step of its goroutine.  The four       *)
(* promises are about the end of an execution; that SetStatus allows each  *)
(* of the transitions, so that the end is what the goroutine decided,      *)
(* depends on the fields all along the way.                                *)

Decided(t) == pc[t] \in {"answering", "answered"}

(* A task is in the store from its Save on, unless the store refused it.   *)
SavedUnlessRefused(t) ==
    t \in saved <=> \/ pc[t] \in {"saved", "running", "succeeded", "failed"}
                    \/ Decided(t) /\ code[t] # 500

(* NewTask's fields, and no answer yet.                                    *)
Untouched(t) ==
    status[t] = "submitted" /\ stamps[t] = {} /\ result[t] = "empty"

NotStarted(t) ==
    pc[t] \in {"new", "received", "saved"} => Untouched(t) /\ code[t] = 0

Started(t) ==
    pc[t] \in {"running", "succeeded", "failed"} =>
        /\ status[t] = "running" /\ stamps[t] = {"started"}
        /\ pc[t] = "succeeded" => code[t] = 200 /\ result[t] = "output"
        /\ pc[t] = "failed" => code[t] \in {400, 404, 422} /\ result[t] \in {"empty", "partial"}

(* The three ends of a submission.                                         *)
Finished(t, s, results) ==
    status[t] = s /\ stamps[t] = {"started", "completed"} /\ result[t] \in results

Ended(t) ==
    Decided(t) =>
        \/ code[t] = 500 /\ Untouched(t)
        \/ code[t] = 200 /\ Finished(t, "done", {"output"})
        \/ code[t] \in {400, 404, 422} /\ Finished(t, "failed", {"error", "partial"})

(* The client was told what the object says, and polls the same.           *)
AnswerAgrees(t) ==
    /\ answer[t].code = 200 => /\ pc[t] = "answered" /\ code[t] = 200
                               /\ answer[t] = Response(t)
    /\ poll[t] \in {"none", "done"}

Execution ==
    \A t \in Tasks : /\ SavedUnlessRefused(t) /\ NotStarted(t) /\ Started(t) /\ Ended(t)
                     /\ AnswerAgrees(t)

(* At the start there are no submissions.                                  *)
LEMMA ExecutionInit == Init => Execution
BY DEF Init, InitialStatus, NoAnswer, Execution, SavedUnlessRefused, NotStarted, Untouched, Started,
       Ended, Decided, AnswerAgrees

(* What the other goroutines do leaves a task alone.                       *)
LEMMA ExecutionFrame ==
  ASSUME Execution, NEW t \in Tasks,
         pc'[t] = pc[t], status'[t] = status[t], result'[t] = result[t], stamps'[t] = stamps[t],
         code'[t] = code[t], answer'[t] = answer[t], poll'[t] = poll[t],
         t \in saved' <=> t \in saved
  PROVE  /\ SavedUnlessRefused(t)' /\ NotStarted(t)' /\ Started(t)' /\ Ended(t)'
         /\ AnswerAgrees(t)'
BY DEF Execution, SavedUnlessRefused, NotStarted, Untouched, Started, Finished, Ended, Decided,
       AnswerAgrees, Response

(* The steps of a submission up to the handler.                            *)
LEMMA ExecutionBegins ==
  ASSUME TypeOK, Execution, NEW t \in Tasks, Receive(t) \/ Save(t) \/ TransitionToRunning(t)
  PROVE  Execution'
<1> SUFFICES ASSUME NEW u \in Tasks
             PROVE  /\ SavedUnlessRefused(u)' /\ NotStarted(u)' /\ Started(u)' /\ Ended(u)'
                    /\ AnswerAgrees(u)'
  BY DEF Execution
<1> USE DEF TypeOK, objectVars, Goto
<1>1. CASE u # t
  BY <1>1, ExecutionFrame DEF Receive, Save, TransitionToRunning
<1>2. CASE u = t
  <2> USE DEF SavedUnlessRefused, NotStarted, Untouched, Started, Finished, Ended, Decided,
              AnswerAgrees, Response
  <2>0. /\ SavedUnlessRefused(t) /\ NotStarted(t) /\ Started(t) /\ Ended(t)
        /\ AnswerAgrees(t)
    BY DEF Execution
  <2>1. CASE Receive(t)
    BY <1>2, <2>0, <2>1 DEF Receive
  <2>2. CASE Save(t)
    BY <1>2, <2>0, <2>2 DEF Save, StoreAnswers
  <2>3. CASE TransitionToRunning(t)
    <3>1. SetStatus("submitted", "running") = "running"
      BY DEF SetStatus, CanTransitionTo, ValidTransitions
    <3> QED
      BY <1>2, <2>0, <2>3, <3>1 DEF TransitionToRunning
  <2> QED
    BY <2>1, <2>2, <2>3
<1> QED
  BY <1>1, <1>2

(* The handler's answer, and the transition that follows it.               *)
LEMMA ExecutionEnds ==
  ASSUME TypeOK, Execution, NEW t \in Tasks, RunHandler(t) \/ Complete(t) \/ Fail(t)
  PROVE  Execution'
<1> SUFFICES ASSUME NEW u \in Tasks
             PROVE  /\ SavedUnlessRefused(u)' /\ NotStarted(u)' /\ Started(u)' /\ Ended(u)'
                    /\ AnswerAgrees(u)'
  BY DEF Execution
<1> USE DEF TypeOK, objectVars, Goto
<1>1. CASE u # t
  BY <1>1, ExecutionFrame DEF RunHandler, Complete, Fail
<1>2. CASE u = t
  <2> USE DEF SavedUnlessRefused, NotStarted, Untouched, Started, Finished, Ended, Decided,
              AnswerAgrees, Response
  <2>0. /\ SavedUnlessRefused(t) /\ NotStarted(t) /\ Started(t) /\ Ended(t)
        /\ AnswerAgrees(t)
    BY DEF Execution
  <2>1. CASE RunHandler(t)
    BY <1>2, <2>0, <2>1 DEF RunHandler, RunnerAnswers
  <2>2. CASE Complete(t)
    <3>1. SetStatus("running", "done") = "done"
      BY DEF SetStatus, CanTransitionTo, ValidTransitions
    <3> QED
      BY <1>2, <2>0, <2>2, <3>1 DEF Complete
  <2>3. CASE Fail(t)
    <3>1. SetStatus("running", "failed") = "failed"
      BY DEF SetStatus, CanTransitionTo, ValidTransitions
    <3> QED
      BY <1>2, <2>0, <2>3, <3>1 DEF Fail, FailureResult
  <2> QED
    BY <2>1, <2>2, <2>3
<1> QED
  BY <1>1, <1>2

(* The response, and the polls of a client that got it.                    *)
LEMMA ExecutionAnswers ==
  ASSUME TypeOK, Execution, NEW t \in Tasks, Respond(t) \/ Poll(t)
  PROVE  Execution'
<1> SUFFICES ASSUME NEW u \in Tasks
             PROVE  /\ SavedUnlessRefused(u)' /\ NotStarted(u)' /\ Started(u)' /\ Ended(u)'
                    /\ AnswerAgrees(u)'
  BY DEF Execution
<1> USE DEF TypeOK, objectVars, Goto
<1>1. CASE u # t
  BY <1>1, ExecutionFrame DEF Respond, Poll
<1>2. CASE u = t
  <2> USE DEF SavedUnlessRefused, NotStarted, Untouched, Started, Finished, Ended, Decided,
              AnswerAgrees, Response
  <2>0. /\ SavedUnlessRefused(t) /\ NotStarted(t) /\ Started(t) /\ Ended(t)
        /\ AnswerAgrees(t)
    BY DEF Execution
  <2>1. CASE Respond(t)
    BY <1>2, <2>0, <2>1 DEF Respond
  <2>2. CASE Poll(t)
    BY <1>2, <2>0, <2>2 DEF Poll
  <2> QED
    BY <2>1, <2>2
<1> QED
  BY <1>1, <1>2

(* Every step keeps the objects in step with their goroutines.             *)
LEMMA ExecutionNext == TypeOK /\ Execution /\ [Next]_vars => Execution'
<1> SUFFICES ASSUME TypeOK, Execution, [Next]_vars PROVE Execution'
  OBVIOUS
<1>1. CASE UNCHANGED <<pc, objectVars, saved, code, answer, poll>>
  BY <1>1, ExecutionFrame DEF Execution, objectVars
<1>2. ASSUME NEW t \in Tasks, Disconnect(t) PROVE Execution'
  BY <1>1, <1>2 DEF Disconnect
<1>3. CASE (\E ok \in BOOLEAN : Listen(ok)) \/ Signal \/ ShutdownStep
  BY <1>1, <1>3 DEF Listen, Signal, ShutdownStep, ShutdownComplete, ShutdownTimeout
<1>4. CASE UNCHANGED vars
  BY <1>1, <1>4 DEF vars
<1> QED
  BY <1>2, <1>3, <1>4, ExecutionBegins, ExecutionEnds, ExecutionAnswers DEF Next, RequestStep

(* In every reachable state the objects are in step with their goroutines. *)
LEMMA ExecutionCorrect == Spec => []Execution
BY ExecutionInit, ExecutionNext, TypeCorrect, PTL DEF Spec

-----------------------------------------------------------------------------
(* What clients are told.                                                  *)

(* A client that is told 200 got a done task with its output and both      *)
(* timestamps, and is never told otherwise by a poll.                      *)
THEOREM SuccessCorrect == Spec => []SuccessIsComplete
<1>1. Execution => SuccessIsComplete
  <2> SUFFICES ASSUME Execution, NEW t \in Tasks, answer[t].code = 200
               PROVE  /\ answer[t].status = "done" /\ answer[t].result = "output"
                      /\ answer[t].stamps = {"started", "completed"}
                      /\ poll[t] \in {"none", "done"}
    BY DEF SuccessIsComplete
  <2>1. pc[t] = "answered" /\ code[t] = 200 /\ answer[t] = Response(t)
    BY DEF Execution, AnswerAgrees
  <2>2. Finished(t, "done", {"output"})
    BY <2>1 DEF Execution, Ended, Decided
  <2>3. answer[t] = [code |-> 200, status |-> "done", result |-> "output",
                     stamps |-> {"started", "completed"}]
    BY <2>1, <2>2 DEF Finished, Response
  <2>4. poll[t] \in {"none", "done"}
    BY DEF Execution, AnswerAgrees
  <2> QED
    BY <2>3, <2>4
<1> QED
  BY <1>1, ExecutionCorrect, PTL

(* A client that is told of an error polls a failed task with a message.   *)
THEOREM ErrorCorrect == Spec => []ErrorIsRecorded
<1>1. TypeOK /\ Execution => ErrorIsRecorded
  BY DEF TypeOK, Execution, ErrorIsRecorded, SavedUnlessRefused, Ended, Decided, Finished
<1> QED
  BY <1>1, TypeCorrect, ExecutionCorrect, PTL

-----------------------------------------------------------------------------
(* The graceful exit.  Shutdown has seen every request answered, and no    *)
(* request is received once the listener is closed.                        *)

ExitedIsIdle == server = "exited" => \A t \in Tasks : ~InFlight(t)

(* Nothing is received or served after the exit.                           *)
LEMMA ExitNext == ExitedIsIdle /\ [Next]_vars => ExitedIsIdle'
<1> SUFFICES ASSUME ExitedIsIdle, [Next]_vars PROVE ExitedIsIdle'
  OBVIOUS
<1>1. CASE ShutdownComplete
  BY <1>1 DEF ShutdownComplete, Drained, ExitedIsIdle, InFlight
<1>2. CASE server' # "exited"
  BY <1>2 DEF ExitedIsIdle
<1>3. CASE UNCHANGED <<server, pc>>
  BY <1>3 DEF ExitedIsIdle, InFlight
<1>4. CASE ~Alive /\ server # "exited" /\ server' = server
  BY <1>4 DEF ExitedIsIdle
<1>5. CASE Alive /\ server' = server
  BY <1>5 DEF Alive, ExitedIsIdle
<1> QED
  BY <1>1, <1>2, <1>3, <1>4, <1>5 DEF Next, RequestStep, Receive, Save, TransitionToRunning,
     RunHandler, Complete, Fail, Respond, Disconnect, Poll, Listen, Signal, ShutdownStep,
     ShutdownTimeout, Alive, vars

(* A process that exits gracefully leaves no task behind that is not       *)
(* final, and no request without a decision.                               *)
THEOREM GracefulExitCorrect == Spec => []GracefulExitFinishesTasks
<1>1. Init => ExitedIsIdle
  BY DEF Init, ExitedIsIdle
<1>2. TypeOK /\ Execution /\ ExitedIsIdle => GracefulExitFinishesTasks
  BY DEF TypeOK, Execution, ExitedIsIdle, GracefulExitFinishesTasks, InFlight, SavedUnlessRefused,
         Ended, Decided, Finished, IsFinal
<1> QED
  BY <1>1, <1>2, ExitNext, TypeCorrect, ExecutionCorrect, PTL DEF Spec

-----------------------------------------------------------------------------
(* The refinement of TaskLifecycle.  A task appears when it is saved, as   *)
(* "submitted", and moves by SetStatus; every other step is invisible.     *)

(* Nothing is visible at first.                                            *)
LEMMA LifecycleInit == Init => Lifecycle!Init
BY DEF Init, Lifecycle!Init, Visible

(* Save is Submit, or invisible when the store refuses.                    *)
LEMMA LifecycleSave ==
  ASSUME TypeOK, Execution, NEW t \in Tasks, Save(t)
  PROVE  Lifecycle!Submit(t) \/ UNCHANGED Visible
<1>1. t \notin saved /\ status[t] = "submitted" /\ status' = status
  BY DEF Save, Execution, SavedUnlessRefused, NotStarted, Untouched, Decided, objectVars
<1>2. CASE saved' = saved
  BY <1>1, <1>2 DEF Visible
<1>3. CASE saved' = saved \cup {t}
  BY <1>1, <1>3 DEF Visible, Lifecycle!Submit
<1> QED
  BY <1>2, <1>3 DEF Save

(* A move that the table allows, of a task in the store, is Advance.       *)
LEMMA LifecycleAdvance ==
  ASSUME TypeOK, NEW t \in saved, NEW s \in TaskStatus, CanTransitionTo(status[t], s),
         status' = [status EXCEPT ![t] = s], saved' = saved
  PROVE  Lifecycle!Advance(t)
<1>1. Visible[t] = status[t] /\ Visible' = [Visible EXCEPT ![t] = s]
  BY DEF TypeOK, Visible
<1> QED
  BY <1>1 DEF Lifecycle!Advance, Lifecycle!CanTransitionTo, Lifecycle!ValidTransitions,
     Lifecycle!TaskStatus, CanTransitionTo, ValidTransitions, TaskStatus

(* Every step of the service is one of the life cycle, or invisible.       *)
LEMMA LifecycleNext ==
  TypeOK /\ Execution /\ [Next]_vars => [Lifecycle!Next]_Visible
<1> SUFFICES ASSUME TypeOK, Execution, [Next]_vars PROVE Lifecycle!Next \/ UNCHANGED Visible
  OBVIOUS
<1>1. ASSUME NEW t \in Tasks, Save(t) PROVE Lifecycle!Next \/ UNCHANGED Visible
  BY <1>1, LifecycleSave DEF Lifecycle!Next
<1>2. ASSUME NEW t \in Tasks, TransitionToRunning(t) \/ Complete(t) \/ Fail(t)
      PROVE  Lifecycle!Next
  <2>1. t \in saved /\ saved' = saved
    BY <1>2 DEF TransitionToRunning, Complete, Fail, Goto, Execution, SavedUnlessRefused
  <2>2. PICK s \in {"running", "done", "failed"} :
           CanTransitionTo(status[t], s) /\ status' = [status EXCEPT ![t] = SetStatus(status[t], s)]
    BY <1>2 DEF TransitionToRunning, Complete, Fail, Goto, Execution, NotStarted, Untouched,
       Started, CanTransitionTo, ValidTransitions
  <2>3. s \in TaskStatus /\ status' = [status EXCEPT ![t] = s]
    BY <2>2 DEF SetStatus, TaskStatus
  <2>4. Lifecycle!Advance(t)
    BY <2>1, <2>2, <2>3, LifecycleAdvance
  <2> QED
    BY <2>4 DEF Lifecycle!Next
<1>3. CASE UNCHANGED <<status, saved>>
  BY <1>3 DEF Visible
<1> QED
  BY <1>1, <1>2, <1>3 DEF Next, RequestStep, Receive, RunHandler, Respond, Disconnect, Poll, Listen,
     Signal, ShutdownStep, ShutdownComplete, ShutdownTimeout, vars, objectVars

(* Polling shows every task moving along the transition table: the service *)
(* implements TaskLifecycle.                                               *)
THEOREM LifecycleCorrect == Spec => ImplementsLifecycle
<1>1. Spec => Lifecycle!Init /\ [][Lifecycle!Next]_Visible
  BY LifecycleInit, LifecycleNext, TypeCorrect, ExecutionCorrect, PTL DEF Spec
<1> QED
  BY <1>1, PTL DEF ImplementsLifecycle, Lifecycle!Spec

=============================================================================
