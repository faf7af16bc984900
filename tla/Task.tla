-------------------------------- MODULE Task --------------------------------
(***************************************************************************)
(* The task record of package tasks (tasks/task.go): its lifecycle states, *)
(* the transition table, and SetStatus, the only guarded way to move a     *)
(* task from one state to the next.                                        *)
(***************************************************************************)

TaskStatus == {"submitted", "queued", "running", "done", "failed"}

IsFinal(status) == status \in {"done", "failed"}

(* Variants of the table: the V2 rows are forgotten.                       *)
TransitionsWithoutWorkers ==
    ({"submitted"} \X {"running", "queued", "failed"})
        \cup ({"queued"} \X {"failed"}) \cup ({"running"} \X {"done", "failed"})

TransitionsWithoutRejection ==
    ({"submitted"} \X {"running", "queued", "failed"})
        \cup ({"queued"} \X {"running"}) \cup ({"running"} \X {"done", "failed"})

(* The transition table; a final state has no row because it has no target. *)
ValidTransitions ==
    ({"submitted"} \X {"running", "queued", "failed"})
        \cup ({"queued"}  \X {"running", "failed"})
        \cup ({"running"} \X {"done", "failed"})

CanTransitionTo(status, target) == <<status, target>> \in ValidTransitions

(* SetStatus returns the status the task has afterwards: the target when   *)
(* the table allows the move, the old status when the call returns an      *)
(* error.                                                                  *)
SetStatus(status, target) ==
    IF CanTransitionTo(status, target) THEN target ELSE status
=============================================================================
