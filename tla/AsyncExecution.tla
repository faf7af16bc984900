---------------------------- MODULE AsyncExecution ----------------------------
(***************************************************************************)
(* The asynchronous (V2) path of the task orchestrator, end to end: the    *)
(* HTTP goroutine that submits a task, the in-memory store, the Redis list *)
(* and the workers that pop it.                                            *)
(*                                                                         *)
(*  - MemoryTaskStore.Save keeps the pointer it is given, so the task      *)
(*    object of the submitting goroutine IS the record of the store: its   *)
(*    writes to the object are immediately visible to every reader and are *)
(*    not protected by the store's mutex.  Both are `status`, `result` and *)
(*    `stamps` here.                                                       *)
(*  - Enqueue marshals the task, so a worker has a copy of its own and     *)
(*    reaches the record only through store.Update, under the mutex.       *)
(*  - go-redis retries an LPUSH whose answer is lost, and Redis may have   *)
(*    executed it, so one Enqueue may push the task more than once and     *)
(*    return an error although it was pushed.                              *)
(***************************************************************************)
EXTENDS Task, Naturals, SequencesExt

CONSTANTS
    Tasks,          \* the tasks clients submit
    Registered,     \* those whose type has a handler in the registry
    Workers,        \* the workers of the pool
    MaxAttempts,    \* LPUSH commands one Enqueue sends at most
    LossyNetwork,   \* TRUE: the answer to a Redis command may be lost
    StoreFaults,    \* TRUE: a call of the TaskStore may return an error
    MaxCrashes,     \* how often the process is killed and restarted
    NoCopy          \* what a worker holds when it holds no task

(* What the Result field may hold: the empty string, the output of a       *)
(* handler, the error of a handler, the error of a failed submission.      *)
Result == {"empty", "output", "error", "rejected"}

(* The timestamps of a task object that are set (the worker's StartedAt    *)
(* and CompletedAt never leave the worker's copy).                         *)
Stamps == SUBSET {"queued", "completed"}

(* One LPUSH command: the task it carries and which attempt it is.  The    *)
(* attempt is not in the bytes sent; it tells equal commands apart.        *)
Push == [id : Tasks, attempt : 1..MaxAttempts]

(* The task object a worker decodes from the popped command.               *)
Copy == [push : Push, status : TaskStatus, result : Result]

ASSUME ConstantsAssumption ==
    /\ Registered \subseteq Tasks
    /\ MaxAttempts \in Nat \ {0}
    /\ LossyNetwork \in BOOLEAN
    /\ StoreFaults \in BOOLEAN
    /\ MaxCrashes \in Nat
    /\ NoCopy \notin Copy

VARIABLES
    status,     \* the fields of the task objects, which
    result,     \*   the submitting goroutine and
    stamps,     \*   the store share
    saved,      \* the IDs in the store's map
    pc,         \* where the HTTP goroutine of each task is
    passes,     \* calls of TransitionToFailed it still has to make
    args,       \* the arguments it evaluated for its last store.Update
    wire,       \* the task as marshalled for the queue
    attempts,   \* LPUSH commands sent for it
    reply,      \* the fields of the 200 response read so far
    inflight,   \* LPUSH commands sent and not executed
    queue,      \* the Redis list: LPUSH adds at its head, BRPOP takes its end
    wpc,        \* where each worker is
    copy,       \* the task object it holds
    outcome,    \* history: what the handler returned for each push
    crashes     \* crashes so far

recordVars == <<status, result, stamps>>
requestVars == <<passes, args, wire, attempts, reply>>
redisVars == <<inflight, queue>>
workerVars == <<wpc, copy, outcome>>
vars == <<recordVars, saved, pc, requestVars, redisVars, workerVars, crashes>>

(* Variant: NewTask forgets the initial status.                            *)
NoStatus == [t \in Tasks |-> "empty"]

(* What NewTask sets: the status; the result and the timestamps are unset. *)
InitialStatus == [t \in Tasks |-> "submitted"]
InitialResult == [t \in Tasks |-> "empty"]
InitialStamps == [t \in Tasks |-> {}]

Fields == [status : TaskStatus, result : Result]

Init ==
    /\ status = InitialStatus /\ result = InitialResult /\ stamps = InitialStamps
    /\ saved = {}
    /\ pc = [t \in Tasks |-> "new"]
    /\ passes = [t \in Tasks |-> 0]
    /\ args = [t \in Tasks |-> [status |-> "submitted", result |-> "empty"]]
    /\ wire = [t \in Tasks |-> [status |-> "submitted", result |-> "empty"]]
    /\ attempts = [t \in Tasks |-> 0]
    /\ reply = [t \in Tasks |-> [status |-> "unread", result |-> "unread", stamps |-> {}]]
    /\ inflight = {}
    /\ queue = <<>>
    /\ wpc = [w \in Workers |-> "idle"]
    /\ copy = [w \in Workers |-> NoCopy]
    /\ outcome = [m \in Push |-> "pending"]
    /\ crashes = 0

Goto(t, from, to) == pc[t] = from /\ pc' = [pc EXCEPT ![t] = to]

(* Whether a call of the store succeeds.                                   *)
StoreAnswers == IF StoreFaults THEN BOOLEAN ELSE {TRUE}

(* Variants of Update: the result is forgotten; an unknown ID is created.  *)
UpdateStatusOnly(t, s, r) ==
    /\ \E ok \in StoreAnswers :
         status' = IF ok /\ t \in saved THEN [status EXCEPT ![t] = s] ELSE status
    /\ UNCHANGED <<result, stamps>>

UpdateOrInsert(t, s, r) ==
    /\ \E ok \in StoreAnswers :
         /\ status' = IF ok THEN [status EXCEPT ![t] = s] ELSE status
         /\ result' = IF ok THEN [result EXCEPT ![t] = r] ELSE result
    /\ UNCHANGED stamps

(* store.Update writes status and result of a task it knows and no other   *)
(* field; of a task it does not know it changes nothing.  Its callers log  *)
(* its error and go on, TransitionToQueued excepted.                       *)
Update(t, s, r) ==
    /\ \E ok \in StoreAnswers :
         /\ status' = IF ok /\ t \in saved THEN [status EXCEPT ![t] = s] ELSE status
         /\ result' = IF ok /\ t \in saved THEN [result EXCEPT ![t] = r] ELSE result
    /\ UNCHANGED stamps

-----------------------------------------------------------------------------
(* SubmitTask and the asynchronous workflow, in the HTTP goroutine.        *)

Save(t) ==
    /\ pc[t] = "new"
    /\ \E ok \in StoreAnswers :
         /\ saved' = IF ok THEN saved \cup {t} ELSE saved
         /\ pc' = [pc EXCEPT ![t] = IF ok THEN "saved" ELSE "errored"]
    /\ UNCHANGED <<recordVars, requestVars, redisVars, workerVars, crashes>>

(* SetStatus and QueuedAt on the shared object, then store.Update, whose   *)
(* error makes the workflow give up.  Nobody else knows the task yet.      *)
TransitionToQueued(t) ==
    /\ pc[t] = "saved"
    /\ status' = [status EXCEPT ![t] = SetStatus(status[t], "queued")]
    /\ stamps' = [stamps EXCEPT ![t] = stamps[t] \cup {"queued"}]
    /\ \E ok \in StoreAnswers :
         /\ result' = IF ok THEN [result EXCEPT ![t] = "empty"] ELSE result
         /\ pc' = [pc EXCEPT ![t] = IF ok THEN "dispatch" ELSE "rejecting"]
         /\ passes' = [passes EXCEPT ![t] = IF ok THEN 0 ELSE 1]
    /\ UNCHANGED <<saved, args, wire, attempts, reply, redisVars, workerVars, crashes>>

(* AsynchronousRunner.Run: the registry check, then json.Marshal.          *)
Dispatch(t) ==
    /\ pc[t] = "dispatch"
    /\ IF t \in Registered
         THEN /\ pc' = [pc EXCEPT ![t] = "enqueuing"]
              /\ wire' = [wire EXCEPT ![t] = [status |-> status[t], result |-> result[t]]]
              /\ UNCHANGED passes
         ELSE /\ pc' = [pc EXCEPT ![t] = "rejecting"]
              /\ passes' = [passes EXCEPT ![t] = 2]
              /\ UNCHANGED wire
    /\ UNCHANGED <<recordVars, saved, args, attempts, reply, redisVars, workerVars, crashes>>

(* go-redis sends the LPUSH, and sends it again when the answer was lost.  *)
SendPush(t) ==
    /\ pc[t] = "enqueuing"
    /\ attempts[t] < MaxAttempts
    /\ attempts[t] > 0 => LossyNetwork
    /\ attempts' = [attempts EXCEPT ![t] = attempts[t] + 1]
    /\ inflight' = inflight \cup {[id |-> t, attempt |-> attempts[t] + 1]}
    /\ UNCHANGED <<recordVars, saved, pc, passes, args, wire, reply, queue, workerVars, crashes>>

(* Variant: Enqueue does not wait for the answer.                          *)
NotAwaited(t) == TRUE

(* Redis executes the last attempt before it answers it.                   *)
Executed(t) ==
    /\ attempts[t] > 0
    /\ [id |-> t, attempt |-> attempts[t]] \notin inflight

EnqueueOK(t) ==
    /\ Goto(t, "enqueuing", "replying")
    /\ Executed(t)
    /\ UNCHANGED <<recordVars, saved, requestVars, redisVars, workerVars, crashes>>

(* Enqueue returns an error: no connection was made, or no answer arrived. *)
EnqueueError(t) ==
    /\ Goto(t, "enqueuing", "rejecting")
    /\ attempts[t] = 0 \/ LossyNetwork
    /\ passes' = [passes EXCEPT ![t] = 2]
    /\ UNCHANGED <<recordVars, saved, args, wire, attempts, reply, redisVars, workerVars, crashes>>

(* The workflow's error branches: Result is set to the error after Run     *)
(* failed, by HandleFailure and only when it is empty otherwise.           *)
HandleFailure(t) ==
    /\ Goto(t, "rejecting", "failing")
    /\ result' = IF passes[t] = 2 \/ result[t] = "empty"
                   THEN [result EXCEPT ![t] = "rejected"]
                   ELSE result
    /\ UNCHANGED <<status, stamps, saved, requestVars, redisVars, workerVars, crashes>>

(* TransitionToFailed on the shared object, without the mutex: CompletedAt *)
(* and the check of SetStatus ...                                          *)
CheckFailed(t) ==
    /\ pc[t] = "failing"
    /\ stamps' = [stamps EXCEPT ![t] = stamps[t] \cup {"completed"}]
    /\ pc' = [pc EXCEPT ![t] = IF CanTransitionTo(status[t], "failed")
                                 THEN "setting" ELSE "reading"]
    /\ UNCHANGED <<status, result, saved, requestVars, redisVars, workerVars, crashes>>

(* ... its assignment ...                                                  *)
SetFailed(t) ==
    /\ Goto(t, "setting", "reading")
    /\ status' = [status EXCEPT ![t] = "failed"]
    /\ UNCHANGED <<result, stamps, saved, requestVars, redisVars, workerVars, crashes>>

(* ... the evaluation of the arguments of store.Update ...                 *)
ReadArgs(t) ==
    /\ Goto(t, "reading", "updating")
    /\ args' = [args EXCEPT ![t] = [status |-> status[t], result |-> result[t]]]
    /\ UNCHANGED <<recordVars, saved, passes, wire, attempts, reply,
                   redisVars, workerVars, crashes>>

(* ... and the call.  After a failed Run the workflow calls it twice.      *)
UpdateFailed(t) ==
    /\ pc[t] = "updating"
    /\ Update(t, args[t].status, args[t].result)
    /\ passes' = [passes EXCEPT ![t] = passes[t] - 1]
    /\ pc' = [pc EXCEPT ![t] = IF passes[t] = 2 THEN "failing" ELSE "errored"]
    /\ UNCHANGED <<saved, args, wire, attempts, reply, redisVars, workerVars, crashes>>

(* NewSubmitHandler fills the response from the shared object, without the *)
(* mutex; the two fields a worker writes may be read in either order.      *)
ReadStatus(t) ==
    /\ pc[t] = "replying" /\ reply[t].status = "unread"
    /\ reply' = [reply EXCEPT ![t] = [status |-> status[t], result |-> reply[t].result,
                                      stamps |-> stamps[t]]]
    /\ UNCHANGED <<recordVars, saved, pc, passes, args, wire, attempts,
                   redisVars, workerVars, crashes>>

ReadResult(t) ==
    /\ pc[t] = "replying" /\ reply[t].result = "unread"
    /\ reply' = [reply EXCEPT ![t] = [status |-> reply[t].status, result |-> result[t],
                                      stamps |-> reply[t].stamps]]
    /\ UNCHANGED <<recordVars, saved, pc, passes, args, wire, attempts,
                   redisVars, workerVars, crashes>>

-----------------------------------------------------------------------------
(* Redis.                                                                  *)

(* Variant: the task is pushed on the side it is popped from.              *)
PushRight(m) == queue' = Append(queue, m)

PushLeft(m) == queue' = <<m>> \o queue

RedisPush(m) ==
    /\ m \in inflight
    /\ inflight' = inflight \ {m}
    /\ PushLeft(m)
    /\ UNCHANGED <<recordVars, saved, pc, requestVars, workerVars, crashes>>

(* Variant: the command is read and not removed.                           *)
PeekLast == queue' = queue

PopLast == queue' = SubSeq(queue, 1, Len(queue) - 1)

-----------------------------------------------------------------------------
(* The workers.                                                            *)

BRPop(w) ==
    /\ wpc[w] = "idle"
    /\ queue # <<>>
    /\ PopLast
    /\ LET m == queue[Len(queue)]
       IN  copy' = [copy EXCEPT ![w] = [push |-> m, status |-> wire[m.id].status,
                                        result |-> wire[m.id].result]]
    /\ wpc' = [wpc EXCEPT ![w] = "popped"]
    /\ UNCHANGED <<recordVars, saved, pc, requestVars, inflight, outcome, crashes>>

(* Redis pops for a worker whose connection breaks before the answer.      *)
BRPopLost(w) ==
    /\ LossyNetwork
    /\ wpc[w] = "idle"
    /\ queue # <<>>
    /\ PopLast
    /\ UNCHANGED <<recordVars, saved, pc, requestVars, inflight, workerVars, crashes>>

(* SetStatus on the copy and store.Update; the worker drops the task when  *)
(* SetStatus refuses, and goes on when the store does.                     *)
TransitionToRunning(w) ==
    /\ wpc[w] = "popped"
    /\ IF CanTransitionTo(copy[w].status, "running")
         THEN /\ copy' = [copy EXCEPT ![w] = [push |-> copy[w].push, status |-> "running",
                                              result |-> copy[w].result]]
              /\ wpc' = [wpc EXCEPT ![w] = "running"]
              /\ Update(copy[w].push.id, "running", copy[w].result)
         ELSE /\ copy' = [copy EXCEPT ![w] = NoCopy]
              /\ wpc' = [wpc EXCEPT ![w] = "idle"]
              /\ UNCHANGED recordVars
    /\ UNCHANGED <<saved, pc, requestVars, redisVars, outcome, crashes>>

(* A handler returns an output or an error (a bad payload, or the context  *)
(* cancelled by WorkerPool.Stop); without a handler there is an error.     *)
HandlerOutcomes(t) == IF t \in Registered THEN {"output", "error"} ELSE {"error"}

RunHandler(w) ==
    /\ wpc[w] = "running"
    /\ \E o \in HandlerOutcomes(copy[w].push.id) :
         /\ outcome' = [outcome EXCEPT ![copy[w].push] = o]
         /\ copy' = [copy EXCEPT ![w] = [push |-> copy[w].push, status |-> copy[w].status,
                                         result |-> o]]
         /\ wpc' = [wpc EXCEPT ![w] = IF o = "output" THEN "succeeded" ELSE "failed"]
    /\ UNCHANGED <<recordVars, saved, pc, requestVars, redisVars, crashes>>

(* The worker writes its copy to the store, unless SetStatus made it give  *)
(* up, and drops it.                                                       *)
Finish(w, write, s) ==
    /\ IF write THEN Update(copy[w].push.id, s, copy[w].result) ELSE UNCHANGED recordVars
    /\ wpc' = [wpc EXCEPT ![w] = "idle"]
    /\ copy' = [copy EXCEPT ![w] = NoCopy]
    /\ UNCHANGED <<saved, pc, requestVars, redisVars, outcome, crashes>>

(* Variant: the worker takes an error of the store for one of the task.    *)
CompleteOrFail(w) == wpc[w] = "succeeded" /\ \E s \in {"done", "failed"} : Finish(w, TRUE, s)

(* handleTaskSuccess: an error of SetStatus skips the Update.              *)
CompleteTask(w) ==
    /\ wpc[w] = "succeeded"
    /\ Finish(w, CanTransitionTo(copy[w].status, "done"), "done")

(* Variant: the worker ignores the handler's error.                        *)
CompleteFailedTask(w) == wpc[w] = "failed" /\ Finish(w, TRUE, "done")

(* handleTaskFailure: an error of SetStatus does not.                      *)
FailTask(w) ==
    /\ wpc[w] = "failed"
    /\ Finish(w, TRUE, SetStatus(copy[w].status, "failed"))

-----------------------------------------------------------------------------
(* The process is killed and restarted: the store, the goroutines and the  *)
(* workers are gone, Redis and what was sent to it are not.                *)
Crash ==
    /\ crashes < MaxCrashes
    /\ crashes' = crashes + 1
    /\ status' = InitialStatus /\ result' = InitialResult /\ stamps' = InitialStamps
    /\ saved' = {}
    /\ pc' = [t \in Tasks |-> IF pc[t] = "new" THEN "new" ELSE "dead"]
    /\ wpc' = [w \in Workers |-> "idle"]
    /\ copy' = [w \in Workers |-> NoCopy]
    /\ UNCHANGED <<requestVars, redisVars, outcome>>

(* The goroutine's steps after the task was accepted.                      *)
RequestStep(t) ==
    \/ TransitionToQueued(t) \/ Dispatch(t)
    \/ SendPush(t) \/ EnqueueOK(t) \/ EnqueueError(t)
    \/ HandleFailure(t) \/ CheckFailed(t) \/ SetFailed(t)
    \/ ReadArgs(t) \/ UpdateFailed(t)
    \/ ReadStatus(t) \/ ReadResult(t)

WorkerStep(w) ==
    \/ BRPop(w) \/ TransitionToRunning(w) \/ RunHandler(w)
    \/ CompleteTask(w) \/ FailTask(w)

RedisStep == \E m \in Push : RedisPush(m)

Next ==
    \/ \E t \in Tasks : Save(t) \/ RequestStep(t)
    \/ RedisStep
    \/ \E w \in Workers : WorkerStep(w) \/ BRPopLost(w)
    \/ Crash

Spec == Init /\ [][Next]_vars

(* Go schedules every goroutine, Redis executes what it received, handlers *)
(* return.  Clients need not submit; nothing has to crash or to be lost.   *)
Fairness ==
    /\ \A t \in Tasks : WF_vars(RequestStep(t))
    /\ \A w \in Workers : WF_vars(WorkerStep(w))
    /\ WF_vars(RedisStep)

FairSpec == Spec /\ Fairness

-----------------------------------------------------------------------------
(* What is promised.                                                       *)

InQueue(m) == \E i \in 1..Len(queue) : queue[i] = m

AtWorker(m) == \E w \in Workers : wpc[w] # "idle" /\ copy[w].push = m

Held(m) == m \in inflight \/ InQueue(m) \/ AtWorker(m)

(* The steps of a goroutine between the error of a submission and the      *)
(* response that reports it.                                               *)
FailurePath == {"rejecting", "failing", "setting", "reading", "updating"}

(* The shape of the state; a worker holds a copy exactly while it is busy, *)
(* and a goroutine that reports an error has TransitionToFailed to call.   *)
TypeOK ==
    /\ status \in [Tasks -> TaskStatus]
    /\ result \in [Tasks -> Result]
    /\ stamps \in [Tasks -> Stamps]
    /\ saved \subseteq Tasks
    /\ pc \in [Tasks -> {"new", "saved", "dispatch", "enqueuing", "replying",
                         "errored", "dead"} \cup FailurePath]
    /\ passes \in [Tasks -> 0..2]
    /\ \A t \in Tasks : pc[t] \in FailurePath => passes[t] > 0
    /\ args \in [Tasks -> Fields]
    /\ wire \in [Tasks -> Fields]
    /\ attempts \in [Tasks -> 0..MaxAttempts]
    /\ reply \in [Tasks -> [status : TaskStatus \cup {"unread"},
                            result : Result \cup {"unread"}, stamps : Stamps]]
    /\ inflight \subseteq Push
    /\ queue \in Seq(Push)
    /\ wpc \in [Workers -> {"idle", "popped", "running", "succeeded", "failed"}]
    /\ copy \in [Workers -> Copy \cup {NoCopy}]
    /\ \A w \in Workers : wpc[w] = "idle" <=> copy[w] = NoCopy
    /\ outcome \in [Push -> {"pending", "output", "error"}]
    /\ crashes \in 0..MaxCrashes

(* No LPUSH that Redis executed is processed twice: two workers never hold *)
(* the same one, and a worker about to run the handler holds one that no   *)
(* handler has run for, whatever is lost, retried or killed.  Only the     *)
(* destructive BRPOP of Dequeue ensures it.                                *)
RunsOnce ==
    \A w \in Workers : wpc[w] # "idle" =>
        /\ \A v \in Workers \ {w} : wpc[v] # "idle" => copy[v].push # copy[w].push
        /\ wpc[w] \in {"popped", "running"} => outcome[copy[w].push] = "pending"

(* A record says "done" only when a handler returned an output for the     *)
(* task, although the submitter's unlocked writes, its stale arguments and *)
(* several workers race for the record (workflow.go:75-91 against          *)
(* worker.go:128-161).                                                     *)
HasOutput(t) == \E m \in Push : m.id = t /\ outcome[m] = "output"

HonestDone == \A t \in Tasks : status[t] = "done" => HasOutput(t)

(* A record says "failed" only when a handler returned an error for the    *)
(* task, or its client is being told that the submission failed: a refused *)
(* Update, a lost answer or a second worker never turns a task into a      *)
(* failed one behind the back of a client that was told it is queued.      *)
HasError(t) == \E m \in Push : m.id = t /\ outcome[m] = "error"

Rejecting(t) == pc[t] \in FailurePath \cup {"errored"}

HonestFailure ==
    \A t \in Tasks : status[t] = "failed" => HasError(t) \/ Rejecting(t)

(* When no answer is lost, an accepted task is on its way to Redis, in the *)
(* list or at a worker until a handler has run for it: no path of the      *)
(* worker loop drops it (worker.go:77-115), whatever the store answers.    *)
NoTaskStranded ==
    \A t \in saved : pc[t] = "replying" =>
        \E m \in Push : m.id = t /\ (Held(m) \/ outcome[m] # "pending")

(* When nothing is lost, what the store says of a task that no worker      *)
(* holds any more is what its handler returned: status and result were not *)
(* overwritten by the submitter.                                           *)
OutcomeIsRecorded ==
    \A m \in Push :
        (outcome[m] # "pending" /\ ~Held(m) /\ m.id \in saved) =>
            /\ status[m.id] = (IF outcome[m] = "output" THEN "done" ELSE "failed")
            /\ result[m.id] = outcome[m]

(* When nothing is lost, a submission answered with an error leaves a task *)
(* that polling shows as failed and that no worker ever gets, even when    *)
(* every store.Update was refused (the object is shared).                  *)
RejectedIsFailed ==
    \A t \in saved : pc[t] = "errored" =>
        /\ status[t] = "failed" /\ result[t] = "rejected"
        /\ \A m \in Push : m.id = t => ~Held(m) /\ outcome[m] = "pending"

(* The worker of a task whose record a crash erased does not bring it back *)
(* (memory.go:62-65): a record without an ID in the store stays as it is.  *)
NoGhostRecords ==
    [][\A t \in Tasks : (pc[t] = "dead" /\ pc'[t] = "dead") =>
          t \notin saved' /\ status'[t] = "submitted" /\ result'[t] = "empty"]_vars

(* The terminal states of tasks/task.go:45-46 have no transitions, so a    *)
(* task that is stored as done or failed stays so.                         *)
TerminalStatusIsFinal ==
    [][\A t \in saved \cap saved' : IsFinal(status[t]) => status'[t] = status[t]]_vars

(* api/submit.go:49: the response includes the timestamps that belong to   *)
(* the execution state it shows, so a task shown as done or failed has its *)
(* completion time.                                                        *)
ReplyHasTimestamps ==
    \A t \in Tasks : IsFinal(reply[t].status) => "completed" \in reply[t].stamps

(* Polling shows each task moving along the transition table and, when     *)
(* every goroutine is scheduled, ending in a final status (TaskLifecycle). *)
Visible == [t \in Tasks |-> IF t \in saved THEN status[t] ELSE "absent"]

Lifecycle == INSTANCE TaskLifecycle WITH status <- Visible

ImplementsLifecycle == Lifecycle!FairSpec

(* The Redis list is the first-in first-out queue of TaskQueue, and it     *)
(* keeps its items and their order when the process is killed: a command   *)
(* that was sent enters it once, whatever go-redis retries, and no worker  *)
(* gets a younger task before an older one or one that another one got.    *)
EnteredQueue == {m \in Push : m.attempt <= attempts[m.id]} \ inflight

Queue == INSTANCE TaskQueue WITH
            Item <- Push, waiting <- Reverse(queue), entered <- EnteredQueue

ImplementsQueue == Queue!Spec
=============================================================================
