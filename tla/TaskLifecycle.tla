---------------------------- MODULE TaskLifecycle ----------------------------
(***************************************************************************)
(* What the task service promises its clients, whoever executes the task:  *)
(* a task that was accepted is visible from then on, its visible status    *)
(* moves along the transition table of tasks/task.go only, and it reaches  *)
(* a final status.  The modules of the execution paths implement this      *)
(* specification.                                                          *)
(***************************************************************************)
EXTENDS Task

CONSTANT Tasks      \* the tasks that may be submitted

VARIABLE status     \* what GET /tasks/{id}/status would answer for each task

Init == status = [t \in Tasks |-> "absent"]

(* The task enters the store (store.Save).                                 *)
Submit(t) ==
    /\ status[t] = "absent"
    /\ status' = [status EXCEPT ![t] = "submitted"]

(* The status moves along the table.                                       *)
Advance(t) ==
    \E target \in TaskStatus :
        /\ CanTransitionTo(status[t], target)
        /\ status' = [status EXCEPT ![t] = target]

Next == \E t \in Tasks : Submit(t) \/ Advance(t)

Spec == Init /\ [][Next]_status

(* A task that is not final keeps moving: the table has no cycle, so every *)
(* accepted task ends in "done" or "failed".                               *)
FairSpec == Spec /\ \A t \in Tasks : WF_status(Advance(t))
=============================================================================
