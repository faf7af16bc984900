------------------------------ MODULE TaskQueue ------------------------------
(***************************************************************************)
(* What queue.TaskQueue promises the workers, as RedisTaskQueue states it  *)
(* ("left push for FIFO with right pop"): what an Enqueue sends enters the *)
(* queue at most once and behind everything that waits there, and what     *)
(* waits longest leaves first, for one Dequeue.  It promises no delivery:  *)
(* a Dequeue that fails may have taken it.                                 *)
(***************************************************************************)
EXTENDS Sequences

CONSTANT Item       \* what may be enqueued

VARIABLES
    waiting,    \* the items in the queue, the oldest first
    entered     \* the items that ever entered it

Init == waiting = <<>> /\ entered = {}

Enter(m) ==
    /\ m \notin entered
    /\ entered' = entered \cup {m}
    /\ waiting' = Append(waiting, m)

Leave ==
    /\ waiting # <<>>
    /\ waiting' = Tail(waiting)
    /\ UNCHANGED entered

Next == Leave \/ \E m \in Item : Enter(m)

Spec == Init /\ [][Next]_<<waiting, entered>>
=============================================================================
