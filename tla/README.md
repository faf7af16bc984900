# Task orchestrator: TLA+ models, checks and proofs

This directory holds the verification development of `task-orchestrator`, the Go
service under `src/task-orchestrator/`: TLA+ modules that model its parts, TLC
configurations that check them on small instances, and theorems that TLAPS
checks for every instance. Paths below are relative to `src/task-orchestrator/`.

## 1. The system

Clients submit tasks (`print`, `sleep`) over HTTP and poll their status.

| component | state it keeps | operations | talks to |
|---|---|---|---|
| task record (`tasks/task.go`) | status, result, four timestamps | `NewTask`, `SetStatus` over a transition table | shared by pointer between the submitting goroutine and the store |
| memory store (`tasks/store/memory.go`) | map from ID to `*Task`, a RWMutex | `Save`, `Get`, `Update` | goroutines of requests, workers |
| orchestrator and workflow (`tasks/orchestrator/...`) | none of its own | `SubmitTask`, `GetTaskStatus`; `executeSync`, `executeAsync`; four state transitions; the result of a failure | store, runner |
| runners (`tasks/runners`) | none | `Run`: call the handler (V1), or enqueue (V2) | registry, handlers, queue |
| queue (`tasks/queue/redis.go`) | a Redis list | `Enqueue` (LPUSH), `Dequeue` (BRPOP) | Redis, through go-redis |
| workers and pool (`tasks/workers`) | `stopCh`, `cancelFn`, a WaitGroup, a mutex | `Start`, `Stop`, the loop, `processNextTask` | queue, state manager, handlers |
| HTTP server (`api`, `api/server`, `cmd`) | listener, connections | submit, status, start, shutdown | orchestrator, the process |
| handlers, registry, errors | the map of handlers | `Run` of a task | runners, workers |
| configuration (`config`) | the settings, read once | `LoadConfig`: defaults, parsing, `validate` | the environment, `main` |
| logger, middleware, health | the level; the status code of the response in hand | `writeLogEntry`, the interceptor, the health response | every handler |

There are two ways to execute a task. V1, which `main.go` wires, executes it in
the goroutine of the request. V2 (asynchronous runner, Redis, worker pool) is
complete in the packages and exercised by their tests, but not wired in `main.go`.

What is hard here:

- **Sharing without a lock.** `Save` keeps the pointer it is given, so the
  submitting goroutine's later writes go to the store's record and take no mutex.
  Workers have a decoded copy and reach the record through `Update` only.
- **An error that is no failure.** `Enqueue` may return an error although Redis
  has the task; go-redis repeats an LPUSH whose answer it did not get.
- **Crashes.** The store is memory, the queue is Redis: they do not die together.
- **Refused updates** are logged and forgotten on every path but one.
- **Shutdown.** The server drains requests that are executing tasks; the pool's
  `Stop` waits outside its mutex, with a timeout, for goroutines that a concurrent
  `Start` may still be creating.
- **Boundaries.** The size limits of a submission and the point where the decoder meets
  them, the trimmed path of a poll, the seconds of a sleep times 10^9 in an int64, the
  settings that are accepted, defaulted or refused.

The hazards, each at its line, are listed in `PROJECT.json`, with the properties that
cover them or a note why none does.

## 2. The modules

| module | models |
|---|---|
| `Task` | the statuses, the transition table, `SetStatus` |
| `TaskLifecycle` | abstract specification: what polling shows of a task, for both execution paths |
| `AsyncExecution` | V2 end to end: submitting goroutines, store, Redis list, workers, crash |
| `TaskQueue` | abstract specification: the first-in first-out queue that Enqueue and Dequeue share |
| `SyncService` | V1 as wired: submissions, responses, polls, the server and its shutdown |
| `WorkerPool` | `Start`, `Stop`, the goroutines of the workers, the WaitGroup, the contexts |
| `HttpExchange` | the program around one request: configuration, start, router, middleware, handler, log |
| `Requests`, `Handlers`, `Configuration` | what it is made of: the checks of the endpoints, the task handlers, `LoadConfig` and the logger's levels |
| `AsyncExecutionProofs` | theorems about `AsyncExecution` that hold with every loss, fault and crash |
| `AsyncDeliveryProofs` | theorems about `AsyncExecution` that need some of the environment to be kind, and `NoGhostRecords` |
| `SyncServiceProofs`, `WorkerPoolProofs`, `HttpExchangeProofs` | the theorems about these modules |
| `MC...` | the constants and symmetries of the TLC runs |

`AsyncExecution` and `SyncService` EXTEND `Task` and instantiate `TaskLifecycle`
with what `GetTaskStatus` would answer (`Visible`). `AsyncExecution` also instantiates
`TaskQueue`, with its list read from the end (`Reverse`). `HttpExchange` EXTENDS
`Requests`, `Handlers` and `Configuration`. `WorkerPool` and `AsyncExecution`
share the worker: the first has its loop and its end, the second what it does
with a task.

### AsyncExecution

`status`, `result`, `stamps` are the fields of the task objects: the goroutine's and
the store's, which are the same object. `saved` is the key set of the store's map. `pc`
is where each submitting goroutine is:

    new -Save-> saved -TransitionToQueued-> dispatch -Dispatch-> enqueuing
        -SendPush*, EnqueueOK-> replying          (NewSubmitHandler reads the object)
        -EnqueueError / no handler / refused Update-> rejecting -HandleFailure->
         failing -CheckFailed-> setting -SetFailed-> reading -ReadArgs->
         updating -UpdateFailed-> failing (once more) or errored

A step is atomic when nobody else can see its middle: up to `Dispatch` no worker knows
the task, so each transition is one step. After `Enqueue` a worker may have it, so
`TransitionToFailed` is cut where the shared object is read or written:
check, assignment, evaluation of `Update`'s arguments, `Update`. The workflow's error
branch after a failed `Run` calls it twice (`workflow.go:82-83`); `passes` counts the
calls that remain. The status and the result of the response are read in either
order; the timestamps, which no worker writes, with the status.

`wire` is the marshalled task, `inflight` are LPUSH commands on a connection,
`queue` the list. A command carries an `attempt` number that is not in its bytes;
it tells equal commands apart, so that "processed twice" can be said of a command
as well as of a task. Workers: `idle -BRPop-> popped -TransitionToRunning-> running
-RunHandler-> succeeded | failed -CompleteTask | FailTask-> idle`; a worker's own
steps on its copy are merged with the `Update` that ends them. `outcome` is a history
variable. `Crash` empties the memory of the process and leaves Redis.

### SyncService

`server` is the life of the server and the process (`starting`, `listening`, `deaf`
after a failed ListenAndServe, `draining`, `exited`, `forced`). A request is received
only while the server listens and is executed as long as the process lives, so a task may
be saved after the signal. A submission's goroutine
is the only writer of its object, so the state transitions are one step each, and the
`Update` that follows them writes what the shared object holds: only `Save` can be
refused with an effect. `code` is the status the handler decided on, `answer`
what the client received: nothing after the client left (`Disconnect`), nor
after the WriteTimeout (`Slow` tasks that were started). A handler is any TaskHandler:
an output, a TaskError (400), another error (wrapped, 422), with or without a result
left behind; an unregistered type is a 404, a refused `Save` a 500.

### WorkerPool

Every call of `Start` and of `Stop` is a process (`spc`, `ppc`), every worker of
every Start a goroutine (`gpc`). `mu` is held from `StartLock` to `StartReturn`; Stop's
two critical sections are single steps that need the mutex free. `Wait` and `Wake` are
`sync.WaitGroup.Wait` of the Go library: a woken Wait that finds the counter not zero
panics, and a panic ends everything. The library's other panic, of an Add
between the last Done's two atomic operations, is left out: it needs the same
race. `DequeueError` may happen at any time, because of a connection or
of a context; no fairness is asked of Dequeue at all, since BRPOP with timeout 0 blocks
for ever and go-redis does not look at the context meanwhile. `spent` is a history
variable: the goroutines that have taken their last task, because their worker's
`stopCh` was closed when they were created or when they took it. So are `orderly`, the
Stops that no Start has followed, and `crossed`, the Stops that had not returned, or whose
waiting goroutine had not ended, when a Start took the mutex. A Start crosses a Stop without
any overlap of the two calls when the Stop timed out before: its goroutine still waits.

### HttpExchange, Requests, Handlers, Configuration

`HttpExchange` is sequential: variables are exported (`Export`), `main` loads the
configuration and serves or exits (`Boot`), one request comes (`Receive`), the router's
choice answers it (`Handle`), the middleware logs it (`LogRequest`). What a check
or a handler decides is an operator of the other three modules, written in the order of
the code's conditions: `SubmitChecks`, `StatusChecks` and `Complaints` are sequences of
which the first that fails answers (`Refusal`, `Refused`: the one with the least index).
`Request` and `Meaning` say what a request and a variable may be; TLC takes finite
subsets of them (`Inputs`, `Values`), the proofs any subsets.

- A body is where its first JSON value ends (`end`), what that value is, and its size: the
  decoder reads no further, so `MaxBytesReader` counts only before `end`.
- A path is the sequence of the parts of the decoded `r.URL.Path`, as `strings.Split` makes
  it, with a mark for each slash that was sent as %2F. The handler sees the texts;
  `Route`, which is `http.ServeMux` as of Go 1.22 (`go.mod` says 1.24), sees the escaped path:
  its segments end at plain slashes only, and an empty or a dot segment of them makes a path
  unclean. So `/tasks/%2Fa` reaches the status handler as `/tasks//a`, where the ID is empty, and
  `/tasks/..` is redirected. The paths of a CONNECT are not cleaned.
- An int is `MaxInt` wide and `Wrap` is its arithmetic; `Second` stands for `time.Second`.
- A setting is `Unset`, `Garbage` (its parser refuses it) or a value; of a text only matters
  whether it is blank or padded with spaces. Case is left out, since `validate` and
  `parseLevel` both ignore it.
- `broken` is a response body that cannot be written; a handler that has said 200 then calls
  `respondWithError`, whose second WriteHeader net/http ignores and the interceptor keeps.
- Both the sleep that ends and the one whose context is done are answers of `SleepHandler`.

## 3. The runs

| run | instance | shows |
|---|---|---|
| `async_faultfree` | 2 tasks with a handler, 1 without, 2 workers | refinement of `TaskLifecycle` with liveness; the record holds the handler's outcome (`OutcomeIsRecorded`) |
| `async_crash` | the same, store faults, one crash | `RunsOnce`, `HonestDone`, `NoTaskStranded`, `RejectedIsFailed`, `NoGhostRecords`, `TerminalStatusIsFinal` |
| `async_lossy` | 1 task, 3 LPUSH attempts, 2 workers, lost answers, store faults, one crash | `RunsOnce`, `HonestDone`, `HonestFailure`; the list implements `TaskQueue` |
| `async_ambiguous_push` | 1 task, 1 worker, one lost answer | violated: a task stored as failed becomes running and done |
| `async_reply_timestamps` | 1 task, 1 worker, no fault | violated: a response shows a finished task without completion time |
| `sync_service` | a quick, a slow and an unknown task, store faults | what responses, records, polls and a graceful exit show; refinement of `TaskLifecycle` (safety); clients are answered; a signal ends the process |
| `sync_write_timeout` | 1 slow task | violated: its client gets no final result |
| `worker_pool` | 2 Starts, 2 Stops, 1 worker | the WaitGroup's counter, graceful Stops, the cancel function, which Stops may panic, Stop returns; a stopped worker takes no more tasks and ends, restarted or not |
| `pool_double_start` | 2 Starts, 1 Stop, 1 worker | violated: a worker of the first Start survives Stop with a live context |
| `pool_concurrent_start` | 1 Start, 1 Stop, 2 workers | violated: a Stop that overlaps a Start crashes the process |
| `http_exchange` | all settings, two at a time; 2043 requests under every log level | start or refusal, the log level, the limits of a submission, the task a path names, the time slept, the code in the log |
| `sleep_overflow` | the defaults, the same requests | violated: a sleep that wraps around is done at once |

Every passing run explores its instance completely. The bounds:

- *Tasks.* Tasks do not read each other's records; they meet in the list and at the
  workers only. Two with a handler make an order in the list and a competition
  for workers; the one without takes the rejecting path beside them.
- *Workers.* Two, because double processing and overwriting need two. (`worker_pool` has
  one: with two Starts it has two goroutines, and its state space stays small enough for
  liveness; the crash of `pool_concurrent_start` is shown with two.)
- *MaxAttempts* = 3 is the first number with a retry of a retry; go-redis's own default
  is 3 retries. *MaxCrashes* = 1: a second crash finds the same kind of state (a list
  with old commands, an empty store).
- `async_lossy` has a single task: with lost answers one task already has
  three commands that compete.
- *Ints.* `http_exchange` has an int of 10 bits and a second of 12: 42 seconds fit, 43 become
  negative, 86 a short positive duration, 256 = 2^8 none (12 * 256 is a multiple of 2^10,
  as 10^9 * 2^55 is of 2^64). With both signs, all outcomes of the product occur.
- *Settings and requests.* Each setting has the values on both sides of each of its
  boundaries. Two are exported at most (`MaxExports`), which reaches every pair that
  `validate` looks at together; requests meet no other setting than the log level (a
  guard of `Receive`), since no handler reads another one.
- *Paths.* All paths of up to four parts over two names and the empty one, with every choice
  of escaped slashes, and some longer ones with dots or a second ID. The handler looks at the
  first two parts that are left after trimming, the router at neighbouring slashes.
- TLC uses symmetry for safety runs only.

The properties that hold only without losses say so in their comments; the
constants `LossyNetwork`, `StoreFaults` and `MaxCrashes` state the environment of a run.

Deadlock is not checked: every instance comes to rest when all clients are
answered, the process exited or the pool stopped.

### Fairness

- `AsyncExecution!Fairness`: weak fairness of each request goroutine and each worker (the
  Go scheduler; handlers return) and of Redis executing what it received. No
  fairness for `Save` (clients need not submit), `Crash` or losses.
- `SyncService!Fairness`: weak fairness of each request goroutine, and of Shutdown noticing
  that the connections are idle (it polls) or that its timer fired. Signals, new requests,
  disconnects and polls are free.
- `WorkerPool!Fairness`: weak fairness of the calls that were made, of the waiting
  goroutine and of the workers' own steps (handlers return). None for Dequeue.

## 4. What the checks found

Seven statements of the repository's comments and tests are not what the code does
(`findings` in `PROJECT.json`):

1. *A terminal status is final* (`tasks/task.go:46`). After an ambiguous Enqueue error
   the stored status goes failed, running, done. `HonestDone` still holds: done is true.
   (In another order the task is done first, and `workflow.go:80` overwrites its result
   with the enqueue error.)
2. *Appropriate timestamps* (`api/submit.go:49`). `Update` does not store them.
3. *Final results* (`api/submit.go:45`). Not for a task of 15 seconds or more.
4. *Stop gracefully shuts down all workers* (`tasks/workers/pool.go:69`). Not those of an earlier Start.
5. *Concurrent Start and Stop without panic* (`tasks/workers/pool_test.go:345-372`). `WaitGroup.Wait`
   panics when Start adds a worker after the first one has already returned.
6. *Sleeps for the specified number of seconds* (`tasks/handlers/sleep.go:38`). From 9223372037
   seconds on the product wraps around; the result still says how long the task slept.
7. *Decode fails when the limit of the body is exceeded* (`api/submit.go:57`). It does when the
   first JSON value exceeds it; bytes after that are never read. This one is shown by a property
   that holds: `LimitsDecide` says what decides, and the size of the body is not among it; the
   comment taken by its word (`AnyTooLarge`) is the mutant that violates it.

Besides:

- The crash of finding 5 needs no overlap of calls: Start, a Stop that times out, the end of the
  last worker, and a second Start before the Stop's goroutine wakes make it panic too, and
  a caller cannot see when that goroutine has ended. `OnlyCrossedStopsPanic` says that no Stop
  is exposed to it but those that a Start crosses.
- An error of `submit` names no task, so the failed record that it leaves cannot be polled.
- FATAL is an accepted level (`config/config.go:96`) that the logger takes for INFO
  (`LevelIsHonoured` says so).
- A print task without a payload is refused in V1 and done in V2, because the queue turns the
  absent payload into null (`QueueKeepsPayload`).
- A PORT or a timeout that cannot be parsed becomes the default without a word
  (`StartsUnlessWrong`), and TASK_TIMEOUT is validated and used nowhere.

And `OnlyStartIsCancelled` holds only when no Stop began before the Start: such a Stop
clears the new Start's cancelFn when it ends (`pool.go:109-112`).

## 5. What is proved

Every safety property of a passing run is a theorem: 30 theorems in five modules, each
from the named assumptions on the constants alone unless the table says otherwise.
An invariant that is seldom inductive is strengthened first; each strengthening was
checked by TLC on the run of its module before it was proved.

| theorem | proves | rests on |
|---|---|---|
| *AsyncExecutionProofs* | | |
| `TypeCorrect` | `TypeOK` | itself: a worker holds a copy exactly while it is busy |
| `RunsOnceCorrect` | `RunsOnce` | `OnePlace` |
| `HonestDoneCorrect` | `HonestDone` | `DoneIsEarned`, `RunsOnce` |
| `HonestFailureCorrect` | `HonestFailure` | `FailureIsEarned` |
| `QueueCorrect` | `ImplementsQueue` | `OnePlace` |
| *AsyncDeliveryProofs* | | |
| `NoGhostsCorrect` | `NoGhostRecords` | `NoRecordNoGhost` |
| `RejectedCorrect` | `RejectedIsFailed`, if `~LossyNetwork` | `Submission` |
| `StrandedCorrect` | `NoTaskStranded`, if `~LossyNetwork` | `WorkersDeliver` |
| `TerminalCorrect` | `TerminalStatusIsFinal`, if `~LossyNetwork` | `RecordFollows` |
| `OutcomeCorrect` | `OutcomeIsRecorded`, if `~LossyNetwork`, `~StoreFaults` | all of these |
| `LifecycleCorrect` | `Lifecycle!Spec`, if also `MaxCrashes = 0` | all of these |
| *SyncServiceProofs* | | |
| `TypeCorrect` | `TypeOK` | itself |
| `SuccessCorrect`, `ErrorCorrect` | `SuccessIsComplete`, `ErrorIsRecorded` | `Execution` |
| `GracefulExitCorrect` | `GracefulExitFinishesTasks` | `Execution`, `ExitedIsIdle` |
| `LifecycleCorrect` | `ImplementsLifecycle` (all of it) | `Execution` |
| *WorkerPoolProofs* | | |
| `TypeCorrect` | `TypeOK` | itself |
| `CounterCorrect` | `CounterIsExact` | `CountsRunning` |
| `StoppedWorkersCorrect` | `StoppedWorkersTakeNoMore` | `SpentIsStopped` |
| `GracefulStopCorrect` | `GracefulStopIsQuiet` | `StopIsFinal`, `CountsRunning` |
| `OnlyCrossedCorrect` | `OnlyCrossedStopsPanic` | `Crossing`, `StopIsFinal`, `CountsRunning` |
| `OnlyStartCorrect` | `OnlyStartIsCancelled` | `CancelledOrHeld` |
| *HttpExchangeProofs* | | |
| `StartsCorrect` | `StartsUnlessWrong` | `Configured` |
| `LevelCorrect` | `LevelIsHonoured` | `Configured`, `Exchanged` |
| `ErrorsCorrect`, `LoggedCodeCorrect`, `LimitsCorrect`, `PathCorrect`, `SleepCorrect`, `QueuePayloadCorrect` | `ErrorsAreLogged`, `LoggedCodeIsSent`, `LimitsDecide`, `PathNamesTask`, `SleepIsExact`, `QueueKeepsPayload` | `Exchanged` and lemmas about the operators |

### AsyncExecution

- `OnePlace`: a command with a number higher than the attempts so far is nowhere and has
  no outcome (`UnsentIsNowhere`); one on a connection is not in the list nor at a worker
  (`InflightOnce`); one in the list is there once, at no worker, without outcome
  (`QueuedOnce`). `RunsOnce` is not inductive, since what BRPop may hand out depends on
  where the command was. One lemma per kind of step follows a command along.
- `DoneIsEarned`, `FailureIsEarned`: the status that is written comes from the
  record, the marshalled task, a worker's copy or the submitter's evaluated arguments;
  each of them says "done" or "failed" only with a reason. That an output is never
  taken back (`OutputIsKept`) is where `RunsOnce` is needed.
- The refinement of `TaskQueue`: LPUSH at the head and RPOP at the end are Append and
  Tail of the list read backwards (`ReversePush`, `ReversePop`); that a command which
  Redis executes was not in the list before is `OnePlace` again.
- `NoRecordNoGhost`: a task that was not saved yet, or whose process was killed, has no
  record, whatever workers with commands of an earlier life do.
- `Submission` says for every `pc` of a submitter what the record holds, and that a
  command was sent only from `enqueuing` on. Without lost answers an error of Enqueue means
  that nothing reached the list, so a rejected task is with no worker.
- `WorkersDeliver`: a command that was sent by a process that lives is held somewhere or has
  an outcome (`Delivered`); a worker's copy has the status of the worker's own steps,
  so that the transition table refuses none of them (`CopyFollows`).
- `RecordFollows`: a record is queued until a worker takes its command, and running, or
  still queued when the store refused that `Update`, until the worker reports. With
  `Submission`, under which a task has one command and is with no worker after an error,
  this shows that submitter and worker never write the same record at the same time: the
  reason why the unlocked writes do not undo a final status when nothing is lost.

The assumptions are constants of the environment, not of the code. `~LossyNetwork` is needed:
`async_ambiguous_push` violates `TerminalStatusIsFinal` without it. `~StoreFaults` is
needed for `OutcomeIsRecorded`, because the code forgets a refused `Update`. `MaxCrashes = 0`
is needed for the refinement of `TaskLifecycle` because the store is memory: after a crash polling
shows less than before. `async_crash` and `async_faultfree` satisfy them.

### SyncService

`Execution` says for each task what the object, the decision and the answer are at each
`pc`: saved unless refused, untouched until started, and one of three ends. It is needed
because a response is built from the object long after `Save` made it visible.
`ExitedIsIdle`: nothing is in flight once Shutdown has returned; requests that arrive
afterwards are not received. The refinement of `TaskLifecycle` needs
`Execution` to know the status that a step starts from.

### WorkerPool

For every finite set of workers and Starts, and any Stops.
`CountsRunning` follows the set of the goroutines that run along with the counter.
`StopIsFinal` has five parts: a Start that is new has no goroutine and one that
returned has all of them; an orderly Stop finds the mutex free; a Stop that has not
reached `Wait` has no waiter; a waiter that woke for an orderly Stop woke at zero, and it stays
zero since no Start follows. The fourth is there because "graceful" alone does not tell
which Stop the waiter belongs to. `Crossing`: while a Start holds the mutex no Stop begins, so
that it has crossed every Stop that is not over, and a woken waiter that was not crossed finds
zero. It says nothing of how often the pool was started or stopped before. `CancelledOrHeld`: the context of the only Start is
cancelled, or its cancel function is in `cancelFn` and in every Stop that is about to
call it.

### HttpExchange

The constants are any int width, any `time.Second`, any sets of values within `Meaning`, of
requests within `Request` and of known IDs.

- `Configured`: the environment has its type; the program serves under what
  `LoadConfig` made of it and exits only because `LoadConfig` refused it.
  `RefusedIsWrong` goes through the eight complaints of `validate` and shows of each that
  it is made exactly when its variable `IsWrong` (`ComplaintsAreJust`).
- `Exchanged`: the answer is one of `Answers(request)`, sent, captured and logged
  accordingly. It reduces the properties of an exchange to facts about operators:
  `SubmitDecision` (the six checks in terms of the limits),
  `Trimmed` and `StatusPath` (trimming a path of any length, with empty parts anywhere after
  the first two), `SleepLength` (the
  product in an int of any width: exact if it fits, too short if not), `Requeued`.
- `MinIsLeast`, `MaxIsGreatest` and `FirstComplaint`: the first that fails and the last part
  that is not empty exist, by the well-foundedness of the natural numbers.

### What is only model-checked

Liveness: `ImplementsLifecycle` of `AsyncExecution` beyond its safety part, `ClientsAreAnswered`,
`ShutdownEnds`, `StopReturns`, `StoppedWorkersExit`. Liveness under fairness and `ENABLED` are out
of the prover's reach, and so is induction over recursive definitions (the models have none).
The six violations are counterexamples, which TLC shows.

## 6. What is not modelled

Formatting, JSON beyond what the decoder accepts, the text of log entries, the contents of
the health response, request identifiers. The Redis connection: `NewRedisTaskQueue`'s Ping,
`GetQueueDepth` and `Close`, which no code outside the tests calls; how fast a worker
repeats a Dequeue that fails at once (`worker.go:81`). `Register` after the start, which
no code does. Torn reads of a string in the data races of the
submit handler: accesses to a field are atomic here. Redis persistence: the list
survives a crash of the process and Redis itself does not fail. A name clash
of UUIDs. Time: a timeout may fire whenever it is armed. Test doubles and the Redis test
container are no part of the program.

## 7. Plan

1. (done) `Task`, `TaskLifecycle`, `AsyncExecution` with its first theorems, `SyncService`,
   `WorkerPool`.
2. (done) `Requests`, `Handlers`, `Configuration` and `HttpExchange`; a restart of the pool; requests
   received before a signal; `TaskQueue` and its refinement, checked and proved.
3. (done) Proofs of every safety property of the passing runs.
4. Proofs to come: the positive counterparts of the violations, under the weakest
   assumption that excludes them (a `StopReachesEveryWorker` for a pool started once).
