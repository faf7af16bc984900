-------------------------- MODULE AsyncDeliveryProofs --------------------------
(***************************************************************************)
(* Proofs about what AsyncExecution promises of a submission from its      *)
(* acceptance to its outcome.  What a crash erased stays erased, whatever  *)
(* else happens.  When no answer of Redis is lost, no accepted task is     *)
(* stranded, a refused one is failed and stays so, and the records follow  *)
(* the transition table.                                                   *)
(***************************************************************************)
EXTENDS AsyncExecutionProofs

USE ConstantsAssumption

-----------------------------------------------------------------------------
(* Who writes what.                                                        *)

(* store.Update touches one record, and none that is not in the store.     *)
LEMMA UpdateElsewhere ==
  ASSUME TypeOK, NEW t \in Tasks, NEW s, NEW r, Update(t, s, r),
         NEW u \in Tasks, u # t \/ u \notin saved
  PROVE  status'[u] = status[u] /\ result'[u] = result[u]
BY DEF Update, TypeOK

(* A goroutine of the HTTP server touches the state of its own task only.  *)
LEMMA RequestWritesItsTask ==
  ASSUME TypeOK, NEW t \in Tasks, Save(t) \/ RequestStep(t), NEW u \in Tasks, u # t
  PROVE  /\ status'[u] = status[u] /\ result'[u] = result[u] /\ pc'[u] = pc[u]
         /\ u \in saved' <=> u \in saved
         /\ passes'[u] = passes[u] /\ args'[u] = args[u] /\ wire'[u] = wire[u]
         /\ attempts'[u] = attempts[u]
<1> USE DEF TypeOK, recordVars, requestVars, Goto
<1>1. CASE Save(t) \/ Dispatch(t) \/ SendPush(t) \/ EnqueueOK(t) \/ EnqueueError(t)
  BY <1>1 DEF Save, Dispatch, SendPush, EnqueueOK, EnqueueError
<1>2. CASE TransitionToQueued(t) \/ HandleFailure(t) \/ CheckFailed(t) \/ SetFailed(t) \/ ReadArgs(t)
  BY <1>2 DEF TransitionToQueued, HandleFailure, CheckFailed, SetFailed, ReadArgs
<1>3. CASE UpdateFailed(t)
  BY <1>3, UpdateElsewhere DEF UpdateFailed
<1>4. CASE ReadStatus(t) \/ ReadResult(t)
  BY <1>4 DEF ReadStatus, ReadResult
<1> QED
  BY <1>1, <1>2, <1>3, <1>4 DEF RequestStep

(* A worker touches the record of the task it holds, if there is one.      *)
LEMMA WorkerWritesItsTask ==
  ASSUME TypeOK, NEW w \in Workers, WorkerStep(w) \/ BRPopLost(w),
         NEW u \in Tasks, ~(wpc[w] # "idle" /\ copy[w].push.id = u /\ u \in saved)
  PROVE  status'[u] = status[u] /\ result'[u] = result[u]
<1>1. CASE BRPop(w) \/ BRPopLost(w) \/ RunHandler(w)
  BY <1>1 DEF BRPop, BRPopLost, RunHandler, recordVars
<1>2. CASE wpc[w] # "idle"
  <2>1. copy[w].push.id \in Tasks /\ (copy[w].push.id # u \/ u \notin saved)
    BY <1>2, CopyType
  <2>2. CASE TransitionToRunning(w)
    BY <2>1, <2>2, UpdateElsewhere DEF TransitionToRunning, recordVars
  <2>3. CASE CompleteTask(w)
    BY <2>1, <2>3, UpdateElsewhere DEF CompleteTask, Finish, recordVars
  <2>4. CASE FailTask(w)
    BY <2>1, <2>4, UpdateElsewhere DEF FailTask, Finish, recordVars
  <2> QED
    BY <1>1, <2>2, <2>3, <2>4 DEF WorkerStep
<1> QED
  BY <1>1, <1>2 DEF WorkerStep, TransitionToRunning, CompleteTask, FailTask

(* Neither a worker nor Redis touches the state of a submission.           *)
LEMMA SubmissionIsLeftAlone ==
  ASSUME \/ \E w \in Workers : WorkerStep(w) \/ BRPopLost(w)
         \/ RedisStep
  PROVE  UNCHANGED <<saved, pc, passes, args, wire, attempts>>
BY DEF WorkerStep, BRPop, BRPopLost, TransitionToRunning, RunHandler, CompleteTask, FailTask,
       Finish, RedisStep, RedisPush, requestVars

-----------------------------------------------------------------------------
(* Ghosts.  Before its Save and after a crash a task has no record, and    *)
(* only a record can be written.                                           *)

Erased(t) == t \notin saved /\ status[t] = "submitted" /\ result[t] = "empty"

NoRecordNoGhost == \A t \in Tasks : pc[t] \in {"new", "dead"} => Erased(t)

(* At the start there are no records.                                      *)
LEMMA GhostInit == Init => NoRecordNoGhost
BY DEF Init, InitialStatus, InitialResult, NoRecordNoGhost, Erased

(* No step brings a record back.                                           *)
LEMMA GhostNext == TypeOK /\ NoRecordNoGhost /\ [Next]_vars => NoRecordNoGhost'
<1> SUFFICES ASSUME TypeOK, NoRecordNoGhost, [Next]_vars,
                    NEW u \in Tasks, pc'[u] \in {"new", "dead"}
             PROVE  Erased(u)'
  BY DEF NoRecordNoGhost
<1>1. ASSUME NEW t \in Tasks, Save(t) \/ RequestStep(t) PROVE Erased(u)'
  <2>1. CASE u = t
    BY <1>1, <2>1 DEF RequestStep, Save, TransitionToQueued, Dispatch, SendPush, EnqueueOK,
       EnqueueError, HandleFailure, CheckFailed, SetFailed, ReadArgs, UpdateFailed, ReadStatus,
       ReadResult, Goto, TypeOK
  <2>2. CASE u # t
    BY <1>1, <2>2, RequestWritesItsTask DEF NoRecordNoGhost, Erased
  <2> QED
    BY <2>1, <2>2
<1>2. ASSUME NEW w \in Workers, WorkerStep(w) \/ BRPopLost(w) PROVE Erased(u)'
  BY <1>2, SubmissionIsLeftAlone, WorkerWritesItsTask DEF NoRecordNoGhost, Erased
<1>3. ASSUME RedisStep PROVE Erased(u)'
  BY <1>3, SubmissionIsLeftAlone DEF NoRecordNoGhost, Erased, RedisStep, RedisPush, recordVars
<1>4. ASSUME Crash PROVE Erased(u)'
  BY <1>4 DEF Crash, InitialStatus, InitialResult, Erased
<1>5. ASSUME UNCHANGED vars PROVE Erased(u)'
  BY <1>5 DEF NoRecordNoGhost, Erased, vars, recordVars
<1> QED
  BY <1>1, <1>2, <1>3, <1>4, <1>5 DEF Next

(* A worker that finishes a task after a crash does not bring its record   *)
(* back, with any losses, faults and crashes.                              *)
THEOREM NoGhostsCorrect == Spec => NoGhostRecords
<1> DEFINE NoGhost == \A t \in Tasks : (pc[t] = "dead" /\ pc'[t] = "dead") =>
                         t \notin saved' /\ status'[t] = "submitted" /\ result'[t] = "empty"
<1>1. NoRecordNoGhost' => NoGhost
  BY DEF NoRecordNoGhost, Erased
<1> HIDE DEF NoGhost
<1>2. Spec => [][NoGhost]_vars
  BY <1>1, GhostInit, GhostNext, TypeCorrect, PTL DEF Spec
<1> QED
  BY <1>2 DEF NoGhostRecords, NoGhost

-----------------------------------------------------------------------------
(* The submitter, when no answer of Redis is lost.  LPUSH is sent once and *)
(* only an Enqueue that sent nothing fails, so until the task is sent, and *)
(* after an error, the submitter is alone with its task and the record     *)
(* says what its goroutine does, although a store may refuse every Update. *)

Shows(t, statuses, r) == t \in saved /\ status[t] \in statuses /\ result[t] = r

(* Where the submitter is alone with the task.                             *)
AloneAt == {"new", "saved", "dispatch", "errored"} \cup FailurePath

SentOnce ==
    \A t \in Tasks : /\ attempts[t] <= 1
                     /\ pc[t] \in AloneAt => attempts[t] = 0
                     /\ pc[t] = "replying" => attempts[t] = 1

(* On its way to the queue the task is fresh, then queued ...              *)
Accepting(t) ==
    /\ pc[t] = "saved" => Shows(t, {"submitted"}, "empty")
    /\ pc[t] = "dispatch" \/ (pc[t] = "enqueuing" /\ attempts[t] = 0) => Shows(t, {"queued"}, "empty")
    /\ pc[t] = "enqueuing" \/ attempts[t] > 0 => wire[t].status = "queued"

(* ... and after an error it is queued, then failed.                       *)
Refusing(t) ==
    /\ pc[t] = "rejecting" => Shows(t, {"queued"}, "empty")
    /\ pc[t] = "failing" => Shows(t, {"queued", "failed"}, "rejected")
    /\ pc[t] = "setting" => Shows(t, {"queued"}, "rejected")
    /\ pc[t] \in {"reading", "updating"} => Shows(t, {"failed"}, "rejected")
    /\ pc[t] = "updating" => args[t].status = "failed" /\ args[t].result = "rejected"
    /\ pc[t] = "errored" /\ t \in saved => Shows(t, {"failed"}, "rejected")

Submission == SentOnce /\ \A t \in Tasks : Accepting(t) /\ Refusing(t)

(* At the start nothing was submitted.                                     *)
LEMMA SubmissionInit == Init => Submission
BY DEF Init, Submission, SentOnce, Accepting, Refusing

(* A task that was not sent is with no worker and nowhere in Redis.        *)
LEMMA UnsentIsUntouched ==
  ASSUME TypeOK, OnePlace, NEW t \in Tasks, attempts[t] = 0
  PROVE  /\ \A m \in Push : m.id = t => ~Held(m) /\ outcome[m] = "pending"
         /\ \A w \in Workers : wpc[w] # "idle" => copy[w].push.id # t
<1>1. ASSUME NEW m \in Push, m.id = t PROVE ~Held(m) /\ outcome[m] = "pending"
  <2>1. m.attempt > attempts[m.id]
    BY <1>1 DEF Push
  <2> QED
    BY <2>1 DEF OnePlace, UnsentIsNowhere
<1>2. ASSUME NEW w \in Workers, wpc[w] # "idle" PROVE copy[w].push.id # t
  <2>1. copy[w].push \in Push /\ Held(copy[w].push)
    BY <1>2, CopyType DEF Held, AtWorker
  <2> QED
    BY <1>1, <2>1
<1> QED
  BY <1>1, <1>2

(* A step that leaves the submission and its record alone.                 *)
LEMMA SubmissionFrame ==
  ASSUME Submission, NEW t \in Tasks,
         pc'[t] = pc[t], status'[t] = status[t], result'[t] = result[t], args'[t] = args[t],
         wire'[t] = wire[t], attempts'[t] = attempts[t], t \in saved' <=> t \in saved
  PROVE  Accepting(t)' /\ Refusing(t)'
BY DEF Submission, Accepting, Refusing, Shows

(* SentOnce: go-redis does not send again what was answered.               *)
LEMMA SentOnceRequest ==
  ASSUME TypeOK, ~LossyNetwork, NoRecordNoGhost, Submission, NEW t \in Tasks,
         Save(t) \/ RequestStep(t)
  PROVE  SentOnce'
<1> SUFFICES ASSUME NEW u \in Tasks
             PROVE  /\ attempts'[u] <= 1
                    /\ pc'[u] \in AloneAt => attempts'[u] = 0
                    /\ pc'[u] = "replying" => attempts'[u] = 1
  BY DEF SentOnce
<1>0. /\ attempts[u] <= 1
      /\ pc[u] \in AloneAt => attempts[u] = 0
      /\ pc[u] = "replying" => attempts[u] = 1
  BY DEF Submission, SentOnce
<1>1. CASE u # t
  BY <1>0, <1>1, RequestWritesItsTask
<1>2. CASE u = t
  <2> USE DEF TypeOK, AloneAt, FailurePath, requestVars, Goto
  <2>1. CASE SendPush(t)
    BY <1>0, <1>2, <2>1 DEF SendPush
  <2>2. CASE EnqueueOK(t) \/ EnqueueError(t)
    BY <1>0, <1>2, <2>2 DEF EnqueueOK, EnqueueError, Executed
  <2>3. CASE Save(t) \/ TransitionToQueued(t) \/ Dispatch(t)
    BY <1>0, <1>2, <2>3 DEF Save, TransitionToQueued, Dispatch
  <2>4. CASE HandleFailure(t) \/ CheckFailed(t) \/ SetFailed(t) \/ ReadArgs(t) \/ UpdateFailed(t)
    BY <1>0, <1>2, <2>4 DEF HandleFailure, CheckFailed, SetFailed, ReadArgs, UpdateFailed
  <2>5. CASE ReadStatus(t) \/ ReadResult(t)
    BY <1>0, <1>2, <2>5 DEF ReadStatus, ReadResult
  <2> QED
    BY <2>1, <2>2, <2>3, <2>4, <2>5 DEF RequestStep
<1> QED
  BY <1>1, <1>2

(* Each step of the goroutine leaves in the record what the next assumes.  *)
LEMMA SubmissionRequest ==
  ASSUME TypeOK, ~LossyNetwork, NoRecordNoGhost, Submission, NEW t \in Tasks,
         Save(t) \/ RequestStep(t)
  PROVE  Submission'
<1> SUFFICES ASSUME NEW u \in Tasks PROVE Accepting(u)' /\ Refusing(u)'
  BY SentOnceRequest DEF Submission
<1>1. CASE u # t
  BY <1>1, RequestWritesItsTask, SubmissionFrame
<1>2. CASE u = t
  <2>0. /\ Accepting(t) /\ Refusing(t) /\ attempts[t] <= 1 /\ attempts[t] \in Nat
        /\ pc[t] \in AloneAt => attempts[t] = 0
    BY DEF Submission, SentOnce, TypeOK
  <2>a. /\ CanTransitionTo("submitted", "queued") /\ CanTransitionTo("queued", "failed")
        /\ ~CanTransitionTo("failed", "failed")
        /\ SetStatus("submitted", "queued") = "queued"
    BY DEF SetStatus, CanTransitionTo, ValidTransitions
  <2> USE DEF TypeOK, AloneAt, FailurePath, Accepting, Refusing, Shows, recordVars, requestVars, Goto
  <2>1. CASE Save(t)
    BY <1>2, <2>0, <2>1 DEF Save, StoreAnswers, NoRecordNoGhost, Erased
  <2>2. CASE TransitionToQueued(t)
    BY <1>2, <2>0, <2>a, <2>2 DEF TransitionToQueued, StoreAnswers
  <2>3. CASE Dispatch(t)
    BY <1>2, <2>0, <2>3 DEF Dispatch
  <2>4. CASE SendPush(t)
    BY <1>2, <2>0, <2>4 DEF SendPush
  <2>5. CASE EnqueueOK(t) \/ EnqueueError(t)
    BY <1>2, <2>0, <2>5 DEF EnqueueOK, EnqueueError
  <2>6. CASE HandleFailure(t)
    BY <1>2, <2>0, <2>6 DEF HandleFailure
  <2>7. CASE CheckFailed(t)
    BY <1>2, <2>0, <2>a, <2>7 DEF CheckFailed
  <2>8. CASE SetFailed(t)
    BY <1>2, <2>0, <2>8 DEF SetFailed
  <2>9. CASE ReadArgs(t)
    BY <1>2, <2>0, <2>9 DEF ReadArgs
  <2>10. CASE UpdateFailed(t)
    BY <1>2, <2>0, <2>10 DEF UpdateFailed, Update
  <2>11. CASE ReadStatus(t) \/ ReadResult(t)
    BY <1>2, <2>0, <2>11 DEF ReadStatus, ReadResult
  <2> QED
    BY <2>1, <2>2, <2>3, <2>4, <2>5, <2>6, <2>7, <2>8, <2>9, <2>10, <2>11 DEF RequestStep
<1> QED
  BY <1>1, <1>2

(* A worker leaves alone what was not sent, and what a client is told of   *)
(* as refused was not sent.                                                *)
LEMMA SubmissionWorker ==
  ASSUME TypeOK, OnePlace, Submission, NEW w \in Workers, WorkerStep(w) \/ BRPopLost(w)
  PROVE  Submission'
<1>1. UNCHANGED <<saved, pc, passes, args, wire, attempts>>
  BY SubmissionIsLeftAlone
<1>2. SentOnce'
  BY <1>1 DEF Submission, SentOnce
<1>3. ASSUME NEW u \in Tasks PROVE Accepting(u)' /\ Refusing(u)'
  <2>1. CASE attempts[u] = 0
    <3>1. status'[u] = status[u] /\ result'[u] = result[u]
      BY <2>1, UnsentIsUntouched, WorkerWritesItsTask
    <3> QED
      BY <1>1, <3>1, SubmissionFrame
  <2>2. CASE attempts[u] # 0
    <3>1. pc[u] \notin AloneAt
      BY <2>2 DEF Submission, SentOnce
    <3> QED
      BY <1>1, <2>2, <3>1 DEF Submission, Accepting, Refusing, AloneAt, FailurePath
  <2> QED
    BY <2>1, <2>2
<1> QED
  BY <1>2, <1>3 DEF Submission

(* A crash ends every submission that was begun.                           *)
LEMMA SubmissionCrash ==
  ASSUME TypeOK, Submission, Crash
  PROVE  Submission'
<1>1. /\ saved' = {} /\ UNCHANGED <<wire, attempts>>
      /\ \A t \in Tasks : (pc'[t] = "new" /\ pc[t] = "new") \/ pc'[t] = "dead"
  BY DEF Crash, requestVars
<1> QED
  BY <1>1 DEF Submission, SentOnce, AloneAt, FailurePath, Accepting, Refusing

(* Every step keeps the strengthening.                                     *)
LEMMA SubmissionNext ==
  ASSUME ~LossyNetwork
  PROVE  TypeOK /\ OnePlace /\ NoRecordNoGhost /\ Submission /\ [Next]_vars => Submission'
<1> SUFFICES ASSUME TypeOK, OnePlace, NoRecordNoGhost, Submission, [Next]_vars
             PROVE  Submission'
  OBVIOUS
<1>1. CASE UNCHANGED <<recordVars, saved, pc, requestVars>>
  BY <1>1, SubmissionFrame DEF Submission, SentOnce, recordVars, requestVars
<1>2. CASE RedisStep
  BY <1>1, <1>2 DEF RedisStep, RedisPush
<1>3. CASE UNCHANGED vars
  BY <1>1, <1>3 DEF vars
<1> QED
  BY <1>2, <1>3, SubmissionRequest, SubmissionWorker, SubmissionCrash DEF Next

(* The record says in every reachable state what the submitter does.       *)
LEMMA SubmissionCorrect ==
  ASSUME ~LossyNetwork
  PROVE  Spec => [](NoRecordNoGhost /\ Submission)
BY GhostInit, GhostNext, SubmissionInit, SubmissionNext, TypeCorrect, OnePlaceCorrect, PTL DEF Spec

(* When no answer of Redis is lost, a task whose client was told of an     *)
(* error is failed, with the error as its result, and no worker ever gets  *)
(* it, whatever the store refused.                                         *)
THEOREM RejectedCorrect ==
  ASSUME ~LossyNetwork
  PROVE  Spec => []RejectedIsFailed
<1>1. TypeOK /\ OnePlace /\ Submission => RejectedIsFailed
  <2> SUFFICES ASSUME TypeOK, OnePlace, Submission, NEW t \in saved, pc[t] = "errored"
               PROVE  /\ status[t] = "failed" /\ result[t] = "rejected"
                      /\ \A m \in Push : m.id = t => ~Held(m) /\ outcome[m] = "pending"
    BY DEF RejectedIsFailed
  <2>1. t \in Tasks
    BY DEF TypeOK
  <2>2. status[t] = "failed" /\ result[t] = "rejected"
    BY <2>1 DEF Submission, Refusing, Shows
  <2>3. attempts[t] = 0
    BY <2>1 DEF Submission, SentOnce, AloneAt
  <2> QED
    BY <2>1, <2>2, <2>3, UnsentIsUntouched
<1> QED
  BY <1>1, TypeCorrect, OnePlaceCorrect, SubmissionCorrect, PTL

-----------------------------------------------------------------------------
(* The way of a command: it waits on a connection or in the list, and then *)
(* it is at a worker.                                                      *)

Waiting(m) == m \in inflight \/ InQueue(m)

(* When Redis executes a command, what waits goes on waiting.              *)
LEMMA PushWaits ==
  ASSUME TypeOK, NEW m \in Push, RedisPush(m), NEW x \in Push
  PROVE  Waiting(x)' <=> Waiting(x)
<1>1. /\ m \in inflight /\ inflight' = inflight \ {m}
      /\ queue \in Seq(Push) /\ Len(queue) \in Nat
      /\ Len(queue') = Len(queue) + 1 /\ queue'[1] = m
      /\ \A i \in 2..Len(queue') : queue'[i] = queue[i - 1]
  BY PushFirstProperties DEF RedisPush, PushLeft, TypeOK
<1>2. InQueue(m)'
  BY <1>1 DEF InQueue
<1>3. InQueue(x) => InQueue(x)'
  <2>1. \A i \in 1..Len(queue) : i + 1 \in 2..Len(queue') /\ queue'[i + 1] = queue[i]
    BY <1>1
  <2> QED
    BY <1>1, <2>1 DEF InQueue
<1>4. InQueue(x)' => InQueue(x) \/ x = m
  <2>1. \A i \in 1..Len(queue') : i = 1 \/ (i - 1 \in 1..Len(queue) /\ queue'[i] = queue[i - 1])
    BY <1>1
  <2> QED
    BY <1>1, <2>1 DEF InQueue
<1> QED
  BY <1>1, <1>2, <1>3, <1>4 DEF Waiting

(* BRPOP hands the last one that waits to an idle worker, as it was        *)
(* marshalled.                                                             *)
LEMMA PopWaits ==
  ASSUME TypeOK, OnePlace, NEW w \in Workers, BRPop(w), NEW p, p = queue[Len(queue)]
  PROVE  /\ p \in Push /\ p.attempt <= attempts[p.id] /\ Waiting(p)
         /\ \A x : Waiting(x)' => Waiting(x) /\ x # p
         /\ \A x : Waiting(x) => Waiting(x)' \/ x = p
         /\ wpc[w] = "idle" /\ wpc'[w] = "popped"
         /\ copy'[w].push = p /\ copy'[w].status = wire[p.id].status
         /\ \A v \in Workers : v # w => copy'[v] = copy[v] /\ wpc'[v] = wpc[v]
         /\ UNCHANGED <<recordVars, saved, pc, attempts, outcome>>
<1>1. /\ Len(queue) \in Nat \ {0} /\ p \in Push /\ Len(queue') = Len(queue) - 1
      /\ \A i \in 1..Len(queue') : queue'[i] = queue[i]
  <2>1. queue \in Seq(Push) /\ queue # <<>> /\ queue' = SubSeq(queue, 1, Len(queue) - 1)
    BY DEF BRPop, PopLast, TypeOK
  <2> QED
    BY <2>1, PopLastProperties, Zenon
<1>2. /\ p.attempt <= attempts[p.id] /\ p \notin inflight
      /\ \A i \in 1..Len(queue') : queue'[i] # p
      /\ \A x : InQueue(x)' => InQueue(x)
  BY PopLastIsUnique DEF BRPop
<1>3. InQueue(p)
  BY <1>1 DEF InQueue
<1>4. ASSUME NEW x, InQueue(x) PROVE InQueue(x)' \/ x = p
  <2>1. PICK i \in 1..Len(queue) : queue[i] = x
    BY <1>4 DEF InQueue
  <2>2. i = Len(queue) \/ i \in 1..Len(queue')
    BY <1>1, <2>1
  <2> QED
    BY <1>1, <2>1, <2>2 DEF InQueue
<1>5. inflight' = inflight
  BY DEF BRPop
<1>6. \A x : Waiting(x)' => Waiting(x) /\ x # p
  BY <1>2, <1>5 DEF Waiting, InQueue
<1>7. \A x : Waiting(x) => Waiting(x)' \/ x = p
  BY <1>4, <1>5 DEF Waiting
<1>8. /\ wpc[w] = "idle" /\ wpc'[w] = "popped"
      /\ copy'[w].push = p /\ copy'[w].status = wire[p.id].status
      /\ \A v \in Workers : v # w => copy'[v] = copy[v] /\ wpc'[v] = wpc[v]
      /\ UNCHANGED <<recordVars, saved, pc, attempts, outcome>>
  BY DEF BRPop, TypeOK, requestVars
<1> QED
  BY <1>1, <1>2, <1>3, <1>6, <1>7, <1>8 DEF Waiting

-----------------------------------------------------------------------------
(* The workers, when no answer of Redis is lost.  A worker never gives a   *)
(* task up: the copy it decodes is queued, its own transitions are allowed *)
(* by the table, and what it reports is what the handler returned.         *)

CopyFollows(w) ==
    /\ wpc[w] = "popped" => copy[w].status = "queued"
    /\ wpc[w] \in {"running", "succeeded", "failed"} => copy[w].status = "running"
    /\ wpc[w] = "succeeded" => copy[w].result = "output" /\ outcome[copy[w].push] = "output"
    /\ wpc[w] = "failed" => copy[w].result = "error" /\ outcome[copy[w].push] = "error"

(* A task that was sent by a process that lives is on its way, or was run. *)
Delivered ==
    \A m \in Push : (m.attempt <= attempts[m.id] /\ pc[m.id] # "dead") =>
                        Held(m) \/ outcome[m] # "pending"

WorkersDeliver == (\A w \in Workers : CopyFollows(w)) /\ Delivered

(* At the start nothing was sent.                                          *)
LEMMA DeliverInit == Init => WorkersDeliver
BY DEF Init, WorkersDeliver, CopyFollows, Delivered, Push

(* What a submitter does: SendPush sends one more.                         *)
LEMMA DeliverRequest ==
  ASSUME TypeOK, WorkersDeliver, NEW t \in Tasks, Save(t) \/ RequestStep(t)
  PROVE  WorkersDeliver'
<1>1. UNCHANGED <<queue, wpc, copy, outcome>> /\ inflight \subseteq inflight'
  BY DEF RequestStep, Save, TransitionToQueued, Dispatch, SendPush, EnqueueOK, EnqueueError,
     HandleFailure, CheckFailed, SetFailed, ReadArgs, UpdateFailed, ReadStatus, ReadResult,
     redisVars, workerVars
<1>2. \A u \in Tasks : pc'[u] # "dead" => pc[u] # "dead"
  BY DEF RequestStep, Save, TransitionToQueued, Dispatch, SendPush, EnqueueOK, EnqueueError,
     HandleFailure, CheckFailed, SetFailed, ReadArgs, UpdateFailed, ReadStatus, ReadResult,
     Goto, TypeOK
<1>3. \A w \in Workers : CopyFollows(w)'
  BY <1>1 DEF WorkersDeliver, CopyFollows
<1>4. ASSUME NEW m \in Push, m.attempt <= attempts'[m.id], pc'[m.id] # "dead"
      PROVE  Held(m)' \/ outcome'[m] # "pending"
  <2>0. m.id \in Tasks /\ m.attempt \in Nat /\ m = [id |-> m.id, attempt |-> m.attempt]
    BY DEF Push
  <2>1. CASE m.attempt <= attempts[m.id]
    BY <1>1, <1>2, <1>4, <2>0, <2>1 DEF WorkersDeliver, Delivered, Held, InQueue, AtWorker
  <2>2. CASE ~(m.attempt <= attempts[m.id])
    <3>1. SendPush(t)
      BY <1>4, <2>2 DEF RequestStep, Save, TransitionToQueued, Dispatch, EnqueueOK, EnqueueError,
         HandleFailure, CheckFailed, SetFailed, ReadArgs, UpdateFailed, ReadStatus, ReadResult,
         requestVars
    <3>2. m.id = t
      BY <1>4, <2>0, <2>2, <3>1 DEF SendPush, TypeOK
    <3>3. m.attempt = attempts[t] + 1
      BY <1>4, <2>0, <2>2, <3>1, <3>2 DEF SendPush, TypeOK
    <3>4. m \in inflight'
      BY <2>0, <3>1, <3>2, <3>3 DEF SendPush
    <3> QED
      BY <3>4 DEF Held
  <2> QED
    BY <2>1, <2>2
<1> QED
  BY <1>3, <1>4 DEF WorkersDeliver, Delivered

(* What Redis executes stays on its way.                                   *)
LEMMA DeliverPush ==
  ASSUME TypeOK, WorkersDeliver, NEW m \in Push, RedisPush(m)
  PROVE  WorkersDeliver'
<1>1. UNCHANGED <<pc, attempts, wpc, copy, outcome>>
  BY DEF RedisPush, requestVars, workerVars
<1>2. \A x \in Push : Held(x) => Held(x)'
  BY <1>1, PushWaits DEF Held, Waiting, AtWorker
<1> QED
  BY <1>1, <1>2 DEF WorkersDeliver, CopyFollows, Delivered

(* What RPOP takes is at a worker, and is queued.                          *)
LEMMA DeliverPop ==
  ASSUME TypeOK, OnePlace, Submission, WorkersDeliver, NEW w \in Workers, BRPop(w)
  PROVE  WorkersDeliver'
<1>m. PICK m : m = queue[Len(queue)]
  OBVIOUS
<1>1. /\ m \in Push /\ m.attempt <= attempts[m.id]
      /\ \A x : Waiting(x) => Waiting(x)' \/ x = m
      /\ wpc[w] = "idle" /\ wpc'[w] = "popped" /\ copy'[w].push = m
      /\ copy'[w].status = wire[m.id].status
      /\ \A v \in Workers : v # w => copy'[v] = copy[v] /\ wpc'[v] = wpc[v]
      /\ UNCHANGED <<pc, attempts, outcome>>
  BY <1>m, PopWaits
<1>2. wire[m.id].status = "queued"
  <2>1. m.id \in Tasks /\ attempts[m.id] > 0
    BY <1>1 DEF Push, TypeOK
  <2> QED
    BY <2>1 DEF Submission, Accepting
<1>3. AtWorker(m)' /\ \A x : AtWorker(x) => AtWorker(x)'
  BY <1>1 DEF AtWorker
<1>4. \A x \in Push : Held(x) => Held(x)'
  BY <1>1, <1>3 DEF Held, Waiting
<1> QED
  BY <1>1, <1>2, <1>4 DEF WorkersDeliver, CopyFollows, Delivered

(* A worker keeps what it holds until the handler has run.                 *)
LEMMA DeliverWork ==
  ASSUME TypeOK, OnePlace, WorkersDeliver, NEW w \in Workers,
         TransitionToRunning(w) \/ RunHandler(w) \/ CompleteTask(w) \/ FailTask(w)
  PROVE  WorkersDeliver'
<1>p. PICK p : p = copy[w].push
  OBVIOUS
<1>0. /\ wpc[w] # "idle" /\ p \in Push /\ UNCHANGED <<pc, attempts, inflight, queue>>
      /\ CopyFollows(w)
  BY <1>p, CopyType DEF TransitionToRunning, RunHandler, CompleteTask, FailTask, Finish, requestVars,
                  redisVars, WorkersDeliver
<1>1. \A v \in Workers : v # w /\ wpc[v] # "idle" => copy[v].push # p /\ copy[v].push \in Push
  BY <1>0, <1>p, CopyType DEF OnePlace, RunsOnce
<1>2. \A v \in Workers : v # w => copy'[v] = copy[v] /\ wpc'[v] = wpc[v]
  BY DEF TransitionToRunning, RunHandler, CompleteTask, FailTask, Finish, TypeOK
<1>3. \A x \in Push : x # p => outcome'[x] = outcome[x]
  BY <1>p DEF TransitionToRunning, RunHandler, CompleteTask, FailTask, Finish, TypeOK
<1>4. \A x : InQueue(x)' <=> InQueue(x)
  BY <1>0 DEF InQueue
<1>5. \A x : AtWorker(x) /\ x # p => AtWorker(x)'
  BY <1>2, <1>p DEF AtWorker
<1>6. ASSUME NEW v \in Workers, v # w PROVE CopyFollows(v)'
  BY <1>1, <1>2, <1>3, <1>6 DEF WorkersDeliver, CopyFollows
<1>7. CopyFollows(w)' /\ (AtWorker(p)' \/ outcome'[p] # "pending")
  <2>1. CASE TransitionToRunning(w)
    <3>1. CanTransitionTo(copy[w].status, "running")
      BY <1>0, <2>1 DEF TransitionToRunning, CopyFollows, CanTransitionTo, ValidTransitions
    <3>2. wpc'[w] = "running" /\ copy'[w].push = copy[w].push /\ copy'[w].status = "running"
      BY <2>1, <3>1 DEF TransitionToRunning, TypeOK
    <3> QED
      BY <1>p, <3>2 DEF CopyFollows, AtWorker
  <2>2. CASE RunHandler(w)
    <3>1. PICK o \in {"output", "error"} :
             /\ outcome' = [outcome EXCEPT ![copy[w].push] = o]
             /\ copy' = [copy EXCEPT ![w] = [push |-> copy[w].push, status |-> copy[w].status,
                                             result |-> o]]
             /\ wpc' = [wpc EXCEPT ![w] = IF o = "output" THEN "succeeded" ELSE "failed"]
      BY <2>2 DEF RunHandler, HandlerOutcomes
    <3>2. /\ copy'[w].push = copy[w].push /\ copy'[w].status = copy[w].status /\ copy'[w].result = o
          /\ outcome'[p] = o
          /\ wpc'[w] = IF o = "output" THEN "succeeded" ELSE "failed"
      BY <1>0, <1>p, <3>1 DEF TypeOK
    <3> QED
      BY <1>0, <1>p, <2>2, <3>2 DEF RunHandler, CopyFollows, AtWorker
  <2>3. CASE CompleteTask(w) \/ FailTask(w)
    <3>1. wpc'[w] = "idle" /\ outcome' = outcome
      BY <2>3 DEF CompleteTask, FailTask, Finish, TypeOK
    <3>2. outcome[p] # "pending"
      BY <1>0, <1>p, <2>3 DEF CompleteTask, FailTask, CopyFollows
    <3> QED
      BY <3>1, <3>2 DEF CopyFollows
  <2> QED
    BY <2>1, <2>2, <2>3
<1>8. Delivered'
  <2> SUFFICES ASSUME NEW x \in Push, x.attempt <= attempts[x.id], pc[x.id] # "dead"
               PROVE  Held(x)' \/ outcome'[x] # "pending"
    BY <1>0 DEF Delivered
  <2>1. Held(x) \/ outcome[x] # "pending"
    BY DEF WorkersDeliver, Delivered
  <2>2. CASE x = p
    BY <1>7, <2>2 DEF Held
  <2>3. CASE x # p
    BY <1>0, <1>3, <1>4, <1>5, <2>1, <2>3 DEF Held
  <2> QED
    BY <2>2, <2>3
<1> QED
  BY <1>6, <1>7, <1>8 DEF WorkersDeliver

(* Every step delivers.                                                    *)
LEMMA DeliverNext ==
  ASSUME ~LossyNetwork
  PROVE  TypeOK /\ OnePlace /\ Submission /\ WorkersDeliver /\ [Next]_vars => WorkersDeliver'
<1> SUFFICES ASSUME TypeOK, OnePlace, Submission, WorkersDeliver, [Next]_vars
             PROVE  WorkersDeliver'
  OBVIOUS
<1>1. CASE Crash
  <2>1. \A w \in Workers : wpc'[w] = "idle"
    BY <1>1 DEF Crash
  <2>2. ASSUME NEW m \in Push, m.attempt <= attempts'[m.id], pc'[m.id] # "dead" PROVE FALSE
    <3>1. m.id \in Tasks /\ m.attempt \in Nat \ {0}
      BY DEF Push
    <3>2. pc[m.id] = "new" /\ attempts'[m.id] = attempts[m.id]
      BY <1>1, <2>2, <3>1 DEF Crash, requestVars
    <3>3. attempts[m.id] = 0
      BY <3>1, <3>2 DEF Submission, SentOnce, AloneAt
    <3> QED
      BY <2>2, <3>1, <3>2, <3>3
  <2> QED
    BY <2>1, <2>2 DEF WorkersDeliver, CopyFollows, Delivered
<1>2. CASE UNCHANGED vars
  BY <1>2 DEF vars, WorkersDeliver, CopyFollows, Delivered, Held, InQueue, AtWorker, requestVars,
              redisVars, workerVars
<1>3. ASSUME NEW w \in Workers, BRPopLost(w) PROVE FALSE
  BY <1>3 DEF BRPopLost
<1> QED
  BY <1>1, <1>2, <1>3, DeliverRequest, DeliverPush, DeliverPop, DeliverWork DEF Next, WorkerStep,
     RedisStep

(* The strengthening holds in every reachable state.                       *)
LEMMA DeliverCorrect ==
  ASSUME ~LossyNetwork
  PROVE  Spec => []WorkersDeliver
BY DeliverInit, DeliverNext, TypeCorrect, OnePlaceCorrect, SubmissionCorrect, PTL DEF Spec

(* When no answer of Redis is lost, a task whose client was told that it   *)
(* was accepted is on its way or with a worker until its handler has run.  *)
THEOREM StrandedCorrect ==
  ASSUME ~LossyNetwork
  PROVE  Spec => []NoTaskStranded
<1>1. TypeOK /\ Submission /\ WorkersDeliver => NoTaskStranded
  <2> SUFFICES ASSUME TypeOK, Submission, WorkersDeliver, NEW t \in saved, pc[t] = "replying"
               PROVE  \E m \in Push : m.id = t /\ (Held(m) \/ outcome[m] # "pending")
    BY DEF NoTaskStranded
  <2> DEFINE m == [id |-> t, attempt |-> 1]
  <2>1. m \in Push /\ m.id = t /\ m.attempt = 1 /\ t \in Tasks
    BY DEF TypeOK, Push
  <2>2. attempts[t] = 1
    BY <2>1 DEF Submission, SentOnce
  <2> HIDE DEF m
  <2>3. Held(m) \/ outcome[m] # "pending"
    BY <2>1, <2>2 DEF WorkersDeliver, Delivered
  <2> QED
    BY <2>1, <2>3
<1> QED
  BY <1>1, TypeCorrect, SubmissionCorrect, DeliverCorrect, PTL

-----------------------------------------------------------------------------
(* The record, when no answer of Redis is lost.  With one command for each *)
(* task, a record follows that command: it is queued until a worker has    *)
(* it, then running, or still queued when the store refused an Update.     *)

WhileRunning == IF StoreFaults THEN {"queued", "running"} ELSE {"running"}

RecordFollows ==
    /\ \A m \in Push : Waiting(m) /\ m.id \in saved => status[m.id] = "queued"
    /\ \A w \in Workers : wpc[w] # "idle" /\ copy[w].push.id \in saved =>
          status[copy[w].push.id] \in IF wpc[w] = "popped" THEN {"queued"} ELSE WhileRunning

(* Two commands of one task are the same one.                              *)
LEMMA OneCommand ==
  ASSUME TypeOK, OnePlace, Submission, NEW m \in Push, NEW x \in Push, m.id = x.id,
         Held(m) \/ outcome[m] # "pending", Held(x) \/ outcome[x] # "pending"
  PROVE  m = x
<1>1. m.attempt <= attempts[m.id] /\ x.attempt <= attempts[m.id]
  BY DEF OnePlace, UnsentIsNowhere, TypeOK, Push
<1>2. attempts[m.id] <= 1 /\ attempts[m.id] \in Nat
  BY DEF Submission, SentOnce, TypeOK, Push
<1>3. m.attempt = 1 /\ x.attempt = 1
  BY <1>1, <1>2 DEF Push
<1> QED
  BY <1>3 DEF Push

(* What a worker holds waits nowhere, and no other worker has its task.    *)
LEMMA WorkerIsAlone ==
  ASSUME TypeOK, OnePlace, Submission, NEW w \in Workers, wpc[w] # "idle"
  PROVE  /\ \A m \in Push : Waiting(m) => m.id # copy[w].push.id
         /\ \A v \in Workers : v # w /\ wpc[v] # "idle" => copy[v].push.id # copy[w].push.id
<1>1. copy[w].push \in Push /\ AtWorker(copy[w].push) /\ Held(copy[w].push)
  BY CopyType DEF Held, AtWorker
<1>2. ASSUME NEW m \in Push, Waiting(m), m.id = copy[w].push.id PROVE FALSE
  <2>1. m = copy[w].push
    BY <1>1, <1>2, OneCommand DEF Held, Waiting
  <2> QED
    BY <1>1, <1>2, <2>1 DEF OnePlace, InflightOnce, QueuedOnce, Waiting, InQueue
<1>3. ASSUME NEW v \in Workers, v # w, wpc[v] # "idle", copy[v].push.id = copy[w].push.id
      PROVE  FALSE
  <2>1. copy[v].push \in Push /\ Held(copy[v].push)
    BY <1>3, CopyType DEF Held, AtWorker
  <2>2. copy[v].push = copy[w].push
    BY <1>1, <1>3, <2>1, OneCommand
  <2> QED
    BY <1>3, <2>2 DEF OnePlace, RunsOnce
<1> QED
  BY <1>2, <1>3

(* At the start nothing waits.                                             *)
LEMMA RecordInit == Init => RecordFollows
BY DEF Init, RecordFollows, Waiting, InQueue

(* The submitter writes the record before the task is sent only.           *)
LEMMA SentIsLeftAlone ==
  ASSUME Submission, NEW t \in Tasks, Save(t) \/ RequestStep(t), attempts[t] # 0
  PROVE  status'[t] = status[t] /\ result'[t] = result[t] /\ saved' = saved
<1>1. pc[t] \notin AloneAt
  BY DEF Submission, SentOnce
<1> QED
  BY <1>1 DEF RequestStep, Save, TransitionToQueued, Dispatch, SendPush, EnqueueOK, EnqueueError,
     HandleFailure, CheckFailed, SetFailed, ReadArgs, UpdateFailed, ReadStatus, ReadResult, Goto,
     AloneAt, FailurePath, recordVars

(* What it sends waits with a queued record.                               *)
LEMMA RecordRequest ==
  ASSUME ~LossyNetwork, TypeOK, OnePlace, Submission, RecordFollows, NEW t \in Tasks,
         Save(t) \/ RequestStep(t)
  PROVE  RecordFollows'
<1>1. UNCHANGED <<queue, wpc, copy, outcome>>
  BY DEF RequestStep, Save, TransitionToQueued, Dispatch, SendPush, EnqueueOK, EnqueueError,
     HandleFailure, CheckFailed, SetFailed, ReadArgs, UpdateFailed, ReadStatus, ReadResult,
     redisVars, workerVars
<1>2. attempts[t] # 0 => status'[t] = status[t] /\ saved' = saved
  BY SentIsLeftAlone
<1>3. ASSUME NEW m \in Push, Waiting(m)', m.id \in saved' PROVE status'[m.id] = "queued"
  <2>0. m.id \in Tasks
    BY DEF Push
  <2>1. CASE Waiting(m)
    <3>1. m.id = t => attempts[t] # 0
      BY <2>0, <2>1, UnsentIsUntouched DEF Held, Waiting
    <3> QED
      BY <1>2, <1>3, <2>0, <2>1, <3>1, RequestWritesItsTask DEF RecordFollows
  <2>2. CASE ~Waiting(m)
    <3>1. SendPush(t)
      BY <1>3, <2>2 DEF RequestStep, Save, TransitionToQueued, Dispatch, EnqueueOK, EnqueueError,
         HandleFailure, CheckFailed, SetFailed, ReadArgs, UpdateFailed, ReadStatus, ReadResult,
         redisVars, Waiting, InQueue
    <3>2. m.id = t /\ m.attempt = attempts[t] + 1
      BY <1>3, <2>2, <3>1 DEF SendPush, Waiting, InQueue
    <3>3. pc[t] = "enqueuing" /\ status' = status /\ attempts[t] < MaxAttempts
      BY <3>1 DEF SendPush, recordVars
    <3>4. attempts[t] = 0 => status[t] = "queued"
      BY <3>3 DEF Submission, Accepting, Shows
    <3>5. attempts[t] = 0
      BY <3>1 DEF SendPush, TypeOK
    <3> QED
      BY <3>2, <3>3, <3>4, <3>5
  <2> QED
    BY <2>1, <2>2
<1>4. ASSUME NEW w \in Workers, wpc'[w] # "idle", copy'[w].push.id \in saved'
      PROVE  status'[copy'[w].push.id] \in IF wpc'[w] = "popped" THEN {"queued"} ELSE WhileRunning
  <2>1. copy[w].push.id \in Tasks /\ wpc[w] # "idle"
    BY <1>1, <1>4, CopyType
  <2>2. copy[w].push.id = t => attempts[t] # 0
    BY <2>1, UnsentIsUntouched
  <2>3. status'[copy[w].push.id] = status[copy[w].push.id] /\ copy[w].push.id \in saved
    BY <1>1, <1>2, <1>4, <2>1, <2>2, RequestWritesItsTask
  <2> QED
    BY <1>1, <2>1, <2>3 DEF RecordFollows
<1> QED
  BY <1>3, <1>4 DEF RecordFollows

(* What Redis executes goes on waiting, and its record is left alone.      *)
LEMMA RecordPush ==
  ASSUME TypeOK, RecordFollows, NEW m \in Push, RedisPush(m)
  PROVE  RecordFollows'
<1>1. UNCHANGED <<status, saved, wpc, copy>>
  BY DEF RedisPush, recordVars, workerVars
<1> QED
  BY <1>1, PushWaits DEF RecordFollows

(* What a worker pops waited before, so its record is queued.              *)
LEMMA RecordPop ==
  ASSUME TypeOK, OnePlace, RecordFollows, NEW w \in Workers, BRPop(w)
  PROVE  RecordFollows'
<1>m. PICK m : m = queue[Len(queue)]
  OBVIOUS
<1>1. /\ m \in Push /\ Waiting(m) /\ \A x : Waiting(x)' => Waiting(x)
      /\ wpc'[w] = "popped" /\ copy'[w].push = m
      /\ \A v \in Workers : v # w => copy'[v] = copy[v] /\ wpc'[v] = wpc[v]
      /\ UNCHANGED <<status, saved>>
  BY <1>m, PopWaits DEF recordVars
<1> QED
  BY <1>1 DEF RecordFollows

(* A worker writes the record of what it holds, and only that.             *)
LEMMA RecordWork ==
  ASSUME TypeOK, OnePlace, Submission, WorkersDeliver, RecordFollows, NEW w \in Workers,
         TransitionToRunning(w) \/ RunHandler(w) \/ CompleteTask(w) \/ FailTask(w)
  PROVE  RecordFollows'
<1>p. PICK p : p = copy[w].push
  OBVIOUS
<1>1. /\ wpc[w] # "idle" /\ p \in Push /\ p.id \in Tasks
      /\ UNCHANGED <<saved, inflight, queue>>
      /\ \A v \in Workers : v # w => copy'[v] = copy[v] /\ wpc'[v] = wpc[v]
  BY <1>p, CopyType DEF TransitionToRunning, RunHandler, CompleteTask, FailTask, Finish, redisVars, TypeOK
<1>2. \A u \in Tasks : u # p.id => status'[u] = status[u]
  BY <1>1, <1>p, WorkerWritesItsTask DEF WorkerStep
<1>3. ASSUME NEW x \in Push, Waiting(x)', x.id \in saved PROVE status'[x.id] = "queued"
  <2>1. Waiting(x) /\ x.id \in Tasks
    BY <1>1, <1>3 DEF Waiting, InQueue, Push
  <2>2. x.id # p.id
    BY <1>1, <1>p, <2>1, WorkerIsAlone
  <2> QED
    BY <1>2, <1>3, <2>1, <2>2 DEF RecordFollows
<1>4. ASSUME NEW v \in Workers, v # w, wpc[v] # "idle", copy[v].push.id \in saved
      PROVE  status'[copy[v].push.id] \in IF wpc[v] = "popped" THEN {"queued"} ELSE WhileRunning
  <2>1. copy[v].push.id # p.id /\ copy[v].push.id \in Tasks
    BY <1>1, <1>p, <1>4, WorkerIsAlone, CopyType
  <2> QED
    BY <1>2, <1>4, <2>1 DEF RecordFollows
<1>5. ASSUME wpc'[w] # "idle", p.id \in saved
      PROVE  wpc'[w] # "popped" /\ status'[p.id] \in WhileRunning
  <2>1. CASE TransitionToRunning(w)
    <3>1. CanTransitionTo(copy[w].status, "running")
      BY <1>5, <2>1 DEF TransitionToRunning, TypeOK
    <3>2. wpc'[w] = "running" /\ copy'[w].push = p /\ Update(p.id, "running", copy[w].result)
      BY <1>p, <2>1, <3>1 DEF TransitionToRunning, TypeOK
    <3>3. status[p.id] = "queued"
      BY <1>p, <1>5, <2>1 DEF TransitionToRunning, RecordFollows
    <3> QED
      BY <1>1, <1>5, <3>2, <3>3 DEF Update, StoreAnswers, WhileRunning, TypeOK
  <2>2. CASE RunHandler(w)
    <3>1. status' = status /\ status[p.id] \in WhileRunning
      BY <1>1, <1>p, <1>5, <2>2 DEF RunHandler, recordVars, RecordFollows
    <3>2. wpc'[w] \in {"succeeded", "failed"}
      BY <2>2 DEF RunHandler, TypeOK
    <3> QED
      BY <3>1, <3>2
  <2>3. CASE CompleteTask(w) \/ FailTask(w)
    BY <1>5, <2>3 DEF CompleteTask, FailTask, Finish, TypeOK
  <2> QED
    BY <2>1, <2>2, <2>3
<1>6. ASSUME NEW v \in Workers, wpc'[v] # "idle", copy'[v].push.id \in saved
      PROVE  status'[copy'[v].push.id] \in IF wpc'[v] = "popped" THEN {"queued"} ELSE WhileRunning
  <2>1. CASE v = w
    <3>1. copy'[w].push = p
      BY <1>5, <1>6, <2>1, <1>p DEF TransitionToRunning, RunHandler, CompleteTask, FailTask, Finish, TypeOK
    <3> QED
      BY <1>5, <1>6, <2>1, <3>1
  <2>2. CASE v # w
    BY <1>1, <1>4, <1>6, <2>2
  <2> QED
    BY <2>1, <2>2
<1> QED
  BY <1>1, <1>3, <1>6 DEF RecordFollows

(* Every step keeps the records in agreement with the commands.            *)
LEMMA RecordNext ==
  ASSUME ~LossyNetwork
  PROVE  /\ TypeOK /\ OnePlace /\ Submission /\ WorkersDeliver /\ RecordFollows /\ [Next]_vars
         => RecordFollows'
<1> SUFFICES ASSUME TypeOK, OnePlace, Submission, WorkersDeliver, RecordFollows, [Next]_vars
             PROVE  RecordFollows'
  OBVIOUS
<1>1. CASE Crash
  <2>1. saved' = {} /\ \A w \in Workers : wpc'[w] = "idle"
    BY <1>1 DEF Crash
  <2> QED
    BY <2>1 DEF RecordFollows
<1>2. CASE UNCHANGED vars
  BY <1>2 DEF vars, RecordFollows, Waiting, InQueue, recordVars, redisVars, workerVars
<1>3. ASSUME NEW w \in Workers, BRPopLost(w) PROVE FALSE
  BY <1>3 DEF BRPopLost
<1> QED
  BY <1>1, <1>2, <1>3, RecordRequest, RecordPush, RecordPop, RecordWork DEF Next, WorkerStep, RedisStep

(* The strengthening holds in every reachable state.                       *)
LEMMA RecordCorrect ==
  ASSUME ~LossyNetwork
  PROVE  Spec => []RecordFollows
BY RecordInit, RecordNext, TypeCorrect, OnePlaceCorrect, SubmissionCorrect, DeliverCorrect, PTL DEF Spec

(* A final record is nobody's to write: the submitter writes a fresh or a  *)
(* queued one, or writes "failed" over "failed", and a worker one that is  *)
(* queued or running.                                                      *)
LEMMA TerminalNext ==
  ASSUME TypeOK, Submission, RecordFollows, Next,
         NEW u \in saved, u \in saved', IsFinal(status[u])
  PROVE  status'[u] = status[u]
<1>0. u \in Tasks /\ status[u] \in {"done", "failed"}
  BY DEF TypeOK, IsFinal
<1>1. ASSUME NEW t \in Tasks, Save(t) \/ RequestStep(t) PROVE status'[u] = status[u]
  <2>1. CASE u # t
    BY <1>0, <1>1, <2>1, RequestWritesItsTask
  <2>2. CASE u = t
    <3>0. Accepting(u) /\ Refusing(u)
      BY <1>0 DEF Submission
    <3>1. ~TransitionToQueued(t) /\ ~SetFailed(t)
      BY <1>0, <2>2, <3>0 DEF TransitionToQueued, SetFailed, Goto, Accepting, Refusing, Shows
    <3>2. CASE UpdateFailed(t)
      BY <1>0, <2>2, <3>0, <3>2 DEF UpdateFailed, Update, Refusing, Shows, TypeOK
    <3>3. CASE UNCHANGED status
      BY <3>3
    <3> QED
      BY <1>1, <3>1, <3>2, <3>3 DEF RequestStep, Save, Dispatch, SendPush, EnqueueOK, EnqueueError,
         HandleFailure, CheckFailed, ReadArgs, ReadStatus, ReadResult, recordVars
  <2> QED
    BY <2>1, <2>2
<1>2. ASSUME NEW w \in Workers, WorkerStep(w) \/ BRPopLost(w) PROVE status'[u] = status[u]
  <2>1. ~(wpc[w] # "idle" /\ copy[w].push.id = u)
    BY <1>0 DEF RecordFollows, WhileRunning
  <2> QED
    BY <1>0, <1>2, <2>1, WorkerWritesItsTask
<1>3. CASE RedisStep
  BY <1>3 DEF RedisStep, RedisPush, recordVars
<1>4. ~Crash
  BY DEF Crash
<1> QED
  BY <1>1, <1>2, <1>3, <1>4 DEF Next

(* When no answer of Redis is lost, a status that is done or failed stays  *)
(* so, whatever the store refuses: the unlocked writes of the submitter    *)
(* and those of the workers never meet.                                    *)
THEOREM TerminalCorrect ==
  ASSUME ~LossyNetwork
  PROVE  Spec => TerminalStatusIsFinal
<1> DEFINE Stays == \A t \in saved \cap saved' : IsFinal(status[t]) => status'[t] = status[t]
<1>1. TypeOK /\ Submission /\ RecordFollows /\ Next => Stays
  BY TerminalNext
<1> HIDE DEF Stays
<1>2. Spec => [][Stays]_vars
  BY <1>1, TypeCorrect, SubmissionCorrect, RecordCorrect, PTL DEF Spec
<1> QED
  BY <1>2 DEF TerminalStatusIsFinal, Stays

-----------------------------------------------------------------------------
(* The outcome, when nothing is lost and the store answers.                *)

(* After its worker has let go of a task, nobody writes its record.        *)
LEMMA OutcomeRequest ==
  ASSUME TypeOK, OnePlace, Submission, OutcomeIsRecorded, NEW t \in Tasks, Save(t) \/ RequestStep(t)
  PROVE  OutcomeIsRecorded'
<1>1. UNCHANGED <<queue, wpc, copy, outcome>> /\ inflight \subseteq inflight'
  BY DEF RequestStep, Save, TransitionToQueued, Dispatch, SendPush, EnqueueOK, EnqueueError,
     HandleFailure, CheckFailed, SetFailed, ReadArgs, UpdateFailed, ReadStatus, ReadResult,
     redisVars, workerVars
<1>2. ASSUME NEW m \in Push, outcome[m] # "pending", ~Held(m)', m.id \in saved'
      PROVE  /\ status'[m.id] = IF outcome[m] = "output" THEN "done" ELSE "failed"
             /\ result'[m.id] = outcome[m]
  <2>0. m.id \in Tasks /\ ~Held(m)
    BY <1>1, <1>2 DEF Push, Held, InQueue, AtWorker
  <2>1. m.id = t => attempts[t] # 0
    BY <1>2, <2>0, UnsentIsUntouched
  <2>2. status'[m.id] = status[m.id] /\ result'[m.id] = result[m.id] /\ m.id \in saved
    BY <1>2, <2>0, <2>1, SentIsLeftAlone, RequestWritesItsTask
  <2> QED
    BY <1>2, <2>0, <2>2 DEF OutcomeIsRecorded
<1> QED
  BY <1>1, <1>2 DEF OutcomeIsRecorded

(* The worker that ran the handler records what it returned.               *)
LEMMA OutcomeWork ==
  ASSUME ~StoreFaults, TypeOK, OnePlace, Submission, WorkersDeliver, OutcomeIsRecorded,
         NEW w \in Workers, TransitionToRunning(w) \/ RunHandler(w) \/ CompleteTask(w) \/ FailTask(w)
  PROVE  OutcomeIsRecorded'
<1>p. PICK p : p = copy[w].push
  OBVIOUS
<1>0. /\ wpc[w] # "idle" /\ p \in Push /\ p.id \in Tasks /\ Held(p)
      /\ UNCHANGED <<saved, inflight, queue>> /\ CopyFollows(w)
  BY <1>p, CopyType DEF TransitionToRunning, RunHandler, CompleteTask, FailTask, Finish, redisVars,
     WorkersDeliver, Held, AtWorker
<1>1. \A v \in Workers : v # w => copy'[v] = copy[v] /\ wpc'[v] = wpc[v]
  BY DEF TransitionToRunning, RunHandler, CompleteTask, FailTask, Finish, TypeOK
<1>2. \A x \in Push : x # p => outcome'[x] = outcome[x]
  BY <1>p DEF TransitionToRunning, RunHandler, CompleteTask, FailTask, Finish, TypeOK
<1>3. ASSUME NEW x \in Push, x # p, outcome'[x] # "pending", ~Held(x)', x.id \in saved
      PROVE  /\ status'[x.id] = IF outcome'[x] = "output" THEN "done" ELSE "failed"
             /\ result'[x.id] = outcome'[x]
  <2>1. outcome'[x] = outcome[x]
    BY <1>2, <1>3
  <2>2. ~Held(x)
    BY <1>0, <1>1, <1>p, <1>3 DEF Held, InQueue, AtWorker
  <2>3. x.id \in Tasks /\ x.id # p.id
    BY <1>0, <1>3, <2>1, OneCommand DEF Push
  <2>4. status'[x.id] = status[x.id] /\ result'[x.id] = result[x.id]
    BY <1>p, <2>3, WorkerWritesItsTask DEF WorkerStep
  <2> QED
    BY <1>3, <2>1, <2>2, <2>4 DEF OutcomeIsRecorded
<1>4. ASSUME ~Held(p)', p.id \in saved
      PROVE  /\ status'[p.id] = IF outcome'[p] = "output" THEN "done" ELSE "failed"
             /\ result'[p.id] = outcome'[p]
  <2>1. wpc'[w] = "idle" \/ copy'[w].push # p
    BY <1>4 DEF Held, AtWorker
  <2>2. ~TransitionToRunning(w)
    <3> SUFFICES ASSUME TransitionToRunning(w) PROVE FALSE
      OBVIOUS
    <3>1. CanTransitionTo(copy[w].status, "running")
      BY <1>0 DEF TransitionToRunning, CopyFollows, CanTransitionTo, ValidTransitions
    <3> QED
      BY <1>p, <2>1, <3>1 DEF TransitionToRunning, TypeOK
  <2>3. ~RunHandler(w)
    BY <1>p, <2>1 DEF RunHandler, TypeOK
  <2>4. CASE CompleteTask(w)
    <3>1. copy[w].status = "running" /\ copy[w].result = "output" /\ outcome[p] = "output"
      BY <1>0, <1>p, <2>4 DEF CompleteTask, CopyFollows
    <3>2. CanTransitionTo(copy[w].status, "done")
      BY <3>1 DEF CanTransitionTo, ValidTransitions
    <3>3. Update(p.id, "done", "output") /\ outcome' = outcome
      BY <1>p, <2>4, <3>1, <3>2 DEF CompleteTask, Finish
    <3> QED
      BY <1>0, <1>4, <3>1, <3>3 DEF Update, StoreAnswers, TypeOK
  <2>5. CASE FailTask(w)
    <3>1. copy[w].status = "running" /\ copy[w].result = "error" /\ outcome[p] = "error"
      BY <1>0, <1>p, <2>5 DEF FailTask, CopyFollows
    <3>2. SetStatus(copy[w].status, "failed") = "failed"
      BY <3>1 DEF SetStatus, CanTransitionTo, ValidTransitions
    <3>3. Update(p.id, "failed", "error") /\ outcome' = outcome
      BY <1>p, <2>5, <3>1, <3>2 DEF FailTask, Finish
    <3> QED
      BY <1>0, <1>4, <3>1, <3>3 DEF Update, StoreAnswers, TypeOK
  <2> QED
    BY <2>2, <2>3, <2>4, <2>5
<1> QED
  BY <1>0, <1>3, <1>4 DEF OutcomeIsRecorded

(* Every step leaves recorded outcomes recorded.                           *)
LEMMA OutcomeNext ==
  ASSUME ~LossyNetwork, ~StoreFaults
  PROVE  /\ TypeOK /\ OnePlace /\ Submission /\ WorkersDeliver /\ OutcomeIsRecorded /\ [Next]_vars
         => OutcomeIsRecorded'
<1> SUFFICES ASSUME TypeOK, OnePlace, Submission, WorkersDeliver, OutcomeIsRecorded, [Next]_vars
             PROVE  OutcomeIsRecorded'
  OBVIOUS
<1>1. CASE Crash
  BY <1>1 DEF Crash, OutcomeIsRecorded
<1>2. CASE UNCHANGED vars
  BY <1>2 DEF vars, OutcomeIsRecorded, Held, InQueue, AtWorker, recordVars, redisVars, workerVars
<1>3. ASSUME NEW w \in Workers, BRPopLost(w) PROVE FALSE
  BY <1>3 DEF BRPopLost
<1>4. ASSUME NEW m \in Push, RedisPush(m) PROVE OutcomeIsRecorded'
  <2>1. UNCHANGED <<status, result, saved, wpc, copy, outcome>>
    BY <1>4 DEF RedisPush, recordVars, workerVars
  <2>2. \A x \in Push : Held(x)' <=> Held(x)
    BY <1>4, <2>1, PushWaits DEF Held, Waiting, AtWorker
  <2> QED
    BY <2>1, <2>2 DEF OutcomeIsRecorded
<1>5. ASSUME NEW w \in Workers, BRPop(w) PROVE OutcomeIsRecorded'
  <2>m. PICK m : m = queue[Len(queue)]
    OBVIOUS
  <2>1. /\ \A x : Waiting(x) => Waiting(x)' \/ x = m
        /\ wpc[w] = "idle" /\ wpc'[w] = "popped" /\ copy'[w].push = m
        /\ \A v \in Workers : v # w => copy'[v] = copy[v] /\ wpc'[v] = wpc[v]
        /\ UNCHANGED <<status, result, saved, outcome>>
    BY <1>5, <2>m, PopWaits DEF recordVars
  <2>2. AtWorker(m)' /\ \A x : AtWorker(x) => AtWorker(x)'
    BY <2>1 DEF AtWorker
  <2>3. \A x \in Push : Held(x) => Held(x)'
    BY <2>1, <2>2 DEF Held, Waiting
  <2> QED
    BY <2>1, <2>3 DEF OutcomeIsRecorded
<1> QED
  BY <1>1, <1>2, <1>3, <1>4, <1>5, OutcomeRequest, OutcomeWork DEF Next, WorkerStep, RedisStep

(* When nothing is lost and the store answers, polling a task that no      *)
(* worker holds any more shows what its handler returned, in every process *)
(* that still has its record.                                              *)
THEOREM OutcomeCorrect ==
  ASSUME ~LossyNetwork, ~StoreFaults
  PROVE  Spec => []OutcomeIsRecorded
<1>1. Init => OutcomeIsRecorded
  BY DEF Init, OutcomeIsRecorded
<1> QED
  BY <1>1, OutcomeNext, TypeCorrect, OnePlaceCorrect, SubmissionCorrect, DeliverCorrect, PTL DEF Spec

-----------------------------------------------------------------------------
(* The refinement of TaskLifecycle, when nothing is lost and the store     *)
(* answers.  A task appears when it is saved and moves by the writes of    *)
(* its submitter, then by those of its worker; only a crash is no step of  *)
(* the life cycle.                                                         *)

(* Save is Submit, or invisible.                                           *)
LEMMA LifecycleSave ==
  ASSUME TypeOK, NoRecordNoGhost, NEW t \in Tasks, Save(t)
  PROVE  Lifecycle!Submit(t) \/ UNCHANGED Visible
<1>1. t \notin saved /\ status[t] = "submitted" /\ status' = status
  BY DEF Save, NoRecordNoGhost, Erased, recordVars
<1>2. CASE saved' = saved
  BY <1>1, <1>2 DEF Visible
<1>3. CASE saved' = saved \cup {t}
  BY <1>1, <1>3 DEF Visible, Lifecycle!Submit
<1> QED
  BY <1>2, <1>3 DEF Save

(* A move that the table allows, of a task in the store, is Advance.       *)
LEMMA LifecycleAdvance ==
  ASSUME TypeOK, NEW t \in saved, NEW s \in TaskStatus, CanTransitionTo(status[t], s),
         status' = [status EXCEPT ![t] = s], saved' = saved
  PROVE  Lifecycle!Advance(t)
<1>1. Visible[t] = status[t] /\ Visible' = [Visible EXCEPT ![t] = s]
  BY DEF TypeOK, Visible
<1> QED
  BY <1>1 DEF Lifecycle!Advance, Lifecycle!CanTransitionTo, Lifecycle!ValidTransitions,
     Lifecycle!TaskStatus, CanTransitionTo, ValidTransitions, TaskStatus

(* The submitter queues a fresh task and fails a queued one; its Updates   *)
(* repeat what the record says.                                            *)
LEMMA LifecycleRequest ==
  ASSUME TypeOK, Submission, NEW t \in Tasks, RequestStep(t)
  PROVE  Lifecycle!Advance(t) \/ UNCHANGED Visible
<1>0. Accepting(t) /\ Refusing(t)
  BY DEF Submission
<1>1. CASE TransitionToQueued(t)
  <2>1. t \in saved /\ status[t] = "submitted" /\ saved' = saved
        /\ status' = [status EXCEPT ![t] = SetStatus(status[t], "queued")]
    BY <1>0, <1>1 DEF TransitionToQueued, Accepting, Shows
  <2>2. CanTransitionTo(status[t], "queued") /\ status' = [status EXCEPT ![t] = "queued"]
    BY <2>1 DEF SetStatus, CanTransitionTo, ValidTransitions
  <2> QED
    BY <2>1, <2>2, LifecycleAdvance DEF TaskStatus
<1>2. CASE SetFailed(t)
  <2>1. t \in saved /\ status[t] = "queued" /\ saved' = saved
        /\ status' = [status EXCEPT ![t] = "failed"]
    BY <1>0, <1>2 DEF SetFailed, Goto, Refusing, Shows
  <2>2. CanTransitionTo(status[t], "failed")
    BY <2>1 DEF CanTransitionTo, ValidTransitions
  <2> QED
    BY <2>1, <2>2, LifecycleAdvance DEF TaskStatus
<1>3. CASE UpdateFailed(t)
  <2>1. status[t] = "failed" /\ args[t].status = "failed" /\ saved' = saved
    BY <1>0, <1>3 DEF UpdateFailed, Refusing, Shows
  <2>2. status' = status
    BY <1>3, <2>1 DEF UpdateFailed, Update, TypeOK
  <2> QED
    BY <2>1, <2>2 DEF Visible
<1>4. CASE UNCHANGED <<status, saved>>
  BY <1>4 DEF Visible
<1> QED
  BY <1>1, <1>2, <1>3, <1>4 DEF RequestStep, Dispatch, SendPush, EnqueueOK, EnqueueError,
     HandleFailure, CheckFailed, ReadArgs, ReadStatus, ReadResult, recordVars

(* A worker runs a queued task and ends a running one; what it reports of  *)
(* a task without a record is invisible.                                   *)
LEMMA LifecycleWork ==
  ASSUME ~StoreFaults, TypeOK, WorkersDeliver, RecordFollows, NEW w \in Workers, WorkerStep(w)
  PROVE  \/ \E t \in Tasks : Lifecycle!Advance(t)
         \/ UNCHANGED Visible
<1>p. PICK p : p = copy[w].push
  OBVIOUS
<1>1. saved' = saved
  BY SubmissionIsLeftAlone
<1>2. CASE UNCHANGED status
  BY <1>1, <1>2 DEF Visible
<1>3. ASSUME NEW s \in {"running", "done", "failed"}, NEW r, Update(p.id, s, r),
             wpc[w] # "idle", p.id \in saved => CanTransitionTo(status[p.id], s)
      PROVE  (\E t \in Tasks : Lifecycle!Advance(t)) \/ UNCHANGED Visible
  <2>1. CASE p.id \notin saved
    BY <1>1, <1>3, <2>1 DEF Update, Visible
  <2>2. CASE p.id \in saved
    <3>1. status' = [status EXCEPT ![p.id] = s] /\ s \in TaskStatus /\ p.id \in Tasks
      BY <1>3, <2>2 DEF Update, StoreAnswers, TaskStatus, TypeOK
    <3>2. Lifecycle!Advance(p.id)
      BY <1>1, <1>3, <2>2, <3>1, LifecycleAdvance
    <3> QED
      BY <3>1, <3>2
  <2> QED
    BY <2>1, <2>2
<1>4. CASE TransitionToRunning(w)
  <2>1. copy[w].status = "queued" /\ wpc[w] = "popped"
    BY <1>4 DEF TransitionToRunning, WorkersDeliver, CopyFollows
  <2>2. CanTransitionTo("queued", "running")
    BY DEF CanTransitionTo, ValidTransitions
  <2>3. Update(p.id, "running", copy[w].result)
    BY <1>4, <1>p, <2>1, <2>2 DEF TransitionToRunning
  <2>4. p.id \in saved => status[p.id] = "queued"
    BY <1>p, <2>1 DEF RecordFollows
  <2> QED
    BY <1>3, <2>1, <2>2, <2>3, <2>4
<1>5. ASSUME CompleteTask(w) \/ FailTask(w)
      PROVE  (\E t \in Tasks : Lifecycle!Advance(t)) \/ UNCHANGED Visible
  <2>1. wpc[w] \in {"succeeded", "failed"} /\ copy[w].status = "running"
    BY <1>5 DEF CompleteTask, FailTask, WorkersDeliver, CopyFollows
  <2>2. CanTransitionTo("running", "done") /\ CanTransitionTo("running", "failed")
    BY DEF CanTransitionTo, ValidTransitions
  <2>3. Update(p.id, "done", copy[w].result) \/ Update(p.id, "failed", copy[w].result)
    BY <1>5, <1>p, <2>1, <2>2 DEF CompleteTask, FailTask, Finish, SetStatus
  <2>4. p.id \in saved => status[p.id] = "running"
    BY <1>p, <2>1 DEF RecordFollows, WhileRunning
  <2> QED
    BY <1>3, <2>1, <2>2, <2>3, <2>4
<1> QED
  BY <1>2, <1>4, <1>5 DEF WorkerStep, BRPop, RunHandler, recordVars

(* Every step but a crash is one of the life cycle, or invisible.          *)
LEMMA LifecycleNext ==
  ASSUME ~LossyNetwork, ~StoreFaults
  PROVE  TypeOK /\ NoRecordNoGhost /\ Submission /\ WorkersDeliver /\ RecordFollows /\ [Next]_vars
         => [Lifecycle!Next]_Visible \/ Crash
<1> SUFFICES ASSUME TypeOK, NoRecordNoGhost, Submission, WorkersDeliver, RecordFollows, [Next]_vars,
                    ~Crash
             PROVE  Lifecycle!Next \/ UNCHANGED Visible
  OBVIOUS
<1>1. ASSUME NEW t \in Tasks, Save(t) PROVE Lifecycle!Next \/ UNCHANGED Visible
  BY <1>1, LifecycleSave DEF Lifecycle!Next
<1>2. ASSUME NEW t \in Tasks, RequestStep(t) PROVE Lifecycle!Next \/ UNCHANGED Visible
  BY <1>2, LifecycleRequest DEF Lifecycle!Next
<1>3. ASSUME NEW w \in Workers, WorkerStep(w) PROVE Lifecycle!Next \/ UNCHANGED Visible
  BY <1>3, LifecycleWork DEF Lifecycle!Next
<1>4. ASSUME NEW w \in Workers, BRPopLost(w) PROVE FALSE
  BY <1>4 DEF BRPopLost
<1>5. CASE UNCHANGED <<status, saved>>
  BY <1>5 DEF Visible
<1> QED
  BY <1>1, <1>2, <1>3, <1>4, <1>5 DEF Next, RedisStep, RedisPush, vars, recordVars

(* While the process lives, loses nothing and its store answers, polling   *)
(* shows every task moving along the transition table: the safety part of  *)
(* ImplementsLifecycle, with the races of the submitter and its worker.    *)
THEOREM LifecycleCorrect ==
  ASSUME ~LossyNetwork, ~StoreFaults, MaxCrashes = 0
  PROVE  Spec => Lifecycle!Spec
<1>1. Init => Lifecycle!Init
  BY DEF Init, Lifecycle!Init, Visible
<1>2. TypeOK => ~Crash
  BY DEF TypeOK, Crash
<1>3. Spec => Lifecycle!Init /\ [][Lifecycle!Next]_Visible
  BY <1>1, <1>2, LifecycleNext, TypeCorrect, SubmissionCorrect, DeliverCorrect, RecordCorrect, PTL DEF Spec
<1> QED
  BY <1>3 DEF Lifecycle!Spec

=============================================================================
