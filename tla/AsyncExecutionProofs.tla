------------------------- MODULE AsyncExecutionProofs -------------------------
(***************************************************************************)
(* Proofs about AsyncExecution that hold for every set of tasks and        *)
(* workers, every number of attempts and crashes, and with or without the  *)
(* losses and faults of the constants.                                     *)
(***************************************************************************)
EXTENDS AsyncExecution, SequenceTheorems, TLAPS

USE ConstantsAssumption

-----------------------------------------------------------------------------
(* The queue: what LPUSH and RPOP do to the list.                          *)

(* RPOP takes the last element and leaves the others where they are.       *)
LEMMA PopLastProperties ==
  ASSUME NEW q \in Seq(Push), q # <<>>, NEW r, r = SubSeq(q, 1, Len(q) - 1)
  PROVE  /\ Len(q) \in Nat \ {0}
         /\ q[Len(q)] \in Push
         /\ r \in Seq(Push)
         /\ Len(r) = Len(q) - 1
         /\ \A i \in 1..Len(r) : r[i] = q[i]
<1>1. Len(q) \in Nat \ {0}
  OBVIOUS
<1> QED
  <2>1. \A i \in 1..Len(q) - 1 : q[i] \in Push
    BY <1>1
  <2>2. /\ r \in Seq(Push)
        /\ Len(r) = IF 1 <= Len(q) - 1 THEN (Len(q) - 1) - 1 + 1 ELSE 0
        /\ \A i \in 1..((Len(q) - 1) - 1 + 1) : r[i] = q[1 + i - 1]
    BY <1>1, <2>1, SubSeqProperties
  <2>3. Len(r) = Len(q) - 1
    <3>1. \A n \in Nat \ {0} : (IF 1 <= n - 1 THEN (n - 1) - 1 + 1 ELSE 0) = n - 1
      OBVIOUS
    <3> QED
      BY <1>1, <2>2, <3>1, Zenon
  <2>4. \A i \in 1..Len(r) : r[i] = q[i]
    BY <1>1, <2>2, <2>3
  <2>5. q[Len(q)] \in Push
    BY <1>1
  <2> QED
    BY <1>1, <2>2, <2>3, <2>4, <2>5

(* LPUSH puts its element first and moves the others by one.               *)
LEMMA PushFirstProperties ==
  ASSUME NEW q \in Seq(Push), NEW m \in Push, NEW r, r = <<m>> \o q
  PROVE  /\ r \in Seq(Push)
         /\ Len(r) = Len(q) + 1
         /\ r[1] = m
         /\ \A i \in 2..Len(r) : r[i] = q[i - 1]
OBVIOUS

-----------------------------------------------------------------------------
(* The type invariant.                                                     *)

(* store.Update keeps the types of the record's fields.                    *)
LEMMA UpdateType ==
  ASSUME TypeOK, NEW t \in Tasks, NEW s \in TaskStatus, NEW r \in Result, Update(t, s, r)
  PROVE  /\ status' \in [Tasks -> TaskStatus]
         /\ result' \in [Tasks -> Result]
         /\ stamps' \in [Tasks -> Stamps]
BY DEF Update, TypeOK

(* What a busy worker holds.                                               *)
LEMMA CopyType ==
  ASSUME TypeOK, NEW w \in Workers, wpc[w] # "idle"
  PROVE  /\ copy[w] \in Copy
         /\ copy[w].push \in Push /\ copy[w].push.id \in Tasks
         /\ copy[w].status \in TaskStatus /\ copy[w].result \in Result
BY DEF TypeOK, Copy, Push

(* NewTask, an empty queue and idle workers have their types.              *)
LEMMA TypeInit == Init => TypeOK
BY DEF Init, TypeOK, FailurePath, InitialStatus, InitialResult, InitialStamps, Stamps, Fields,
       TaskStatus, Result

(* No step of a submission, of Redis, of a worker or a crash leaves them.  *)
LEMMA TypeNext == TypeOK /\ [Next]_vars => TypeOK'
<1> SUFFICES ASSUME TypeOK, [Next]_vars PROVE TypeOK'
  OBVIOUS
<1> USE DEF TypeOK, recordVars, requestVars, redisVars, workerVars, Goto, FailurePath
<1>1. ASSUME NEW t \in Tasks, Save(t) PROVE TypeOK'
  BY <1>1 DEF Save, StoreAnswers
<1>2. ASSUME NEW t \in Tasks, TransitionToQueued(t) PROVE TypeOK'
  BY <1>2 DEF TransitionToQueued, Stamps, Result, SetStatus, CanTransitionTo, TaskStatus
<1>3. ASSUME NEW t \in Tasks, Dispatch(t) PROVE TypeOK'
  <2>1. [status |-> status[t], result |-> result[t]] \in Fields
    BY DEF Fields
  <2>2. CASE t \in Registered
    BY <1>3, <2>1, <2>2 DEF Dispatch
  <2>3. CASE t \notin Registered
    <3>1. /\ pc' = [pc EXCEPT ![t] = "rejecting"]
          /\ passes' = [passes EXCEPT ![t] = 2]
          /\ UNCHANGED <<recordVars, saved, wire, args, attempts, reply, redisVars,
                         workerVars, crashes>>
      BY <1>3, <2>3 DEF Dispatch
    <3> QED
      BY <3>1
  <2> QED
    BY <2>2, <2>3
<1>4. ASSUME NEW t \in Tasks, SendPush(t) PROVE TypeOK'
  BY <1>4 DEF SendPush, Push
<1>5. ASSUME NEW t \in Tasks, EnqueueOK(t) PROVE TypeOK'
  BY <1>5 DEF EnqueueOK
<1>6. ASSUME NEW t \in Tasks, EnqueueError(t) PROVE TypeOK'
  BY <1>6 DEF EnqueueError
<1>7. ASSUME NEW t \in Tasks, HandleFailure(t) PROVE TypeOK'
  BY <1>7 DEF HandleFailure, Result
<1>8. ASSUME NEW t \in Tasks, CheckFailed(t) PROVE TypeOK'
  BY <1>8 DEF CheckFailed, Stamps
<1>9. ASSUME NEW t \in Tasks, SetFailed(t) PROVE TypeOK'
  BY <1>9 DEF SetFailed, TaskStatus
<1>10. ASSUME NEW t \in Tasks, ReadArgs(t) PROVE TypeOK'
  BY <1>10 DEF ReadArgs, Fields
<1>11. ASSUME NEW t \in Tasks, UpdateFailed(t) PROVE TypeOK'
  BY <1>11, UpdateType DEF UpdateFailed, Fields
<1>12. ASSUME NEW t \in Tasks, ReadStatus(t) PROVE TypeOK'
  BY <1>12 DEF ReadStatus
<1>13. ASSUME NEW t \in Tasks, ReadResult(t) PROVE TypeOK'
  BY <1>13 DEF ReadResult
<1>14. ASSUME NEW m \in Push, RedisPush(m) PROVE TypeOK'
  BY <1>14 DEF RedisPush, PushLeft
<1>15. ASSUME NEW w \in Workers, BRPop(w) PROVE TypeOK'
  <2>1. queue' \in Seq(Push) /\ queue[Len(queue)] \in Push
    BY <1>15, PopLastProperties DEF BRPop, PopLast
  <2>2. wire[queue[Len(queue)].id] \in Fields
    BY <2>1 DEF Push
  <2>3. [push |-> queue[Len(queue)], status |-> wire[queue[Len(queue)].id].status,
         result |-> wire[queue[Len(queue)].id].result] \in Copy
    BY <2>1, <2>2 DEF Copy, Fields
  <2> QED
    BY <1>15, <2>1, <2>3 DEF BRPop
<1>16. ASSUME NEW w \in Workers, BRPopLost(w) PROVE TypeOK'
  BY <1>16 DEF BRPopLost, PopLast
<1>17. ASSUME NEW w \in Workers, TransitionToRunning(w) PROVE TypeOK'
  <2>1. /\ copy[w].push.id \in Tasks /\ copy[w].result \in Result
        /\ [push |-> copy[w].push, status |-> "running", result |-> copy[w].result] \in Copy
    BY <1>17, CopyType DEF TransitionToRunning, Copy, TaskStatus
  <2>2. /\ status' \in [Tasks -> TaskStatus]
        /\ result' \in [Tasks -> Result]
        /\ stamps' \in [Tasks -> Stamps]
    <3>1. "running" \in TaskStatus
      BY DEF TaskStatus
    <3> QED
      BY <1>17, <2>1, <3>1, UpdateType DEF TransitionToRunning
  <2>3. /\ wpc' \in [Workers -> {"idle", "popped", "running", "succeeded", "failed"}]
        /\ copy' \in [Workers -> Copy \cup {NoCopy}]
        /\ \A v \in Workers : wpc'[v] = "idle" <=> copy'[v] = NoCopy
    <3>1. CASE CanTransitionTo(copy[w].status, "running")
      <4>1. /\ wpc' = [wpc EXCEPT ![w] = "running"]
            /\ copy' = [copy EXCEPT ![w] = [push |-> copy[w].push, status |-> "running",
                                            result |-> copy[w].result]]
        BY <1>17, <3>1 DEF TransitionToRunning
      <4> QED
        BY <2>1, <4>1
    <3>2. CASE ~CanTransitionTo(copy[w].status, "running")
      BY <1>17, <3>2 DEF TransitionToRunning
    <3> QED
      BY <3>1, <3>2
  <2> QED
    BY <1>17, <2>2, <2>3 DEF TransitionToRunning
<1>18. ASSUME NEW w \in Workers, RunHandler(w) PROVE TypeOK'
  BY <1>18 DEF RunHandler, HandlerOutcomes, Copy, Result
<1>19. ASSUME NEW w \in Workers, CompleteTask(w) PROVE TypeOK'
  BY <1>19 DEF CompleteTask, Finish, Update, Copy, Push, TaskStatus
<1>20. ASSUME NEW w \in Workers, FailTask(w) PROVE TypeOK'
  BY <1>20 DEF FailTask, Finish, Update, SetStatus, Copy, Push, TaskStatus
<1>21. CASE Crash
  BY <1>21 DEF Crash, InitialStatus, InitialResult, InitialStamps, Stamps, TaskStatus, Result
<1>22. CASE UNCHANGED vars
  BY <1>22 DEF vars
<1> QED
  BY <1>1, <1>2, <1>3, <1>4, <1>5, <1>6, <1>7, <1>8, <1>9, <1>10, <1>11, <1>12, <1>13, <1>14, <1>15, <1>16, <1>17, <1>18, <1>19, <1>20, <1>21, <1>22 DEF Next, RequestStep, WorkerStep, RedisStep

(* Every value in the state has its type, and a worker holds a task        *)
(* exactly while it is busy with it.                                       *)
THEOREM TypeCorrect == Spec => []TypeOK
BY TypeInit, TypeNext, PTL DEF Spec

-----------------------------------------------------------------------------
(* Every command is in one place.  RunsOnce is not inductive: that BRPop   *)
(* hands out a command nobody holds follows from where the command was     *)
(* before, in the list once and nowhere else, and that from where LPUSH    *)
(* took it.  The strengthening follows a command from its place outside    *)
(* the system to a connection, the list, one worker, and its outcome.      *)

UnsentIsNowhere ==
    \A m \in Push : m.attempt > attempts[m.id] => ~Held(m) /\ outcome[m] = "pending"

InflightOnce ==
    \A m \in inflight : ~InQueue(m) /\ ~AtWorker(m) /\ outcome[m] = "pending"

QueuedOnce ==
    /\ \A i, j \in 1..Len(queue) : queue[i] = queue[j] => i = j
    /\ \A i \in 1..Len(queue) : ~AtWorker(queue[i]) /\ outcome[queue[i]] = "pending"

OnePlace == UnsentIsNowhere /\ InflightOnce /\ QueuedOnce /\ RunsOnce

(* At the start no command has been sent.                                  *)
LEMMA OnePlaceInit == Init => OnePlace
BY DEF Init, OnePlace, UnsentIsNowhere, InflightOnce, QueuedOnce, RunsOnce, Held, InQueue,
       AtWorker

(* Steps that leave the commands where they are.                           *)
LEMMA OnePlaceFrame ==
  ASSUME OnePlace, UNCHANGED <<attempts, inflight, queue, wpc, copy, outcome>>
  PROVE  OnePlace'
BY DEF OnePlace, UnsentIsNowhere, InflightOnce, QueuedOnce, RunsOnce, Held, InQueue, AtWorker

(* SendPush puts an unsent command into a connection.                      *)
LEMMA OnePlaceSend ==
  ASSUME TypeOK, OnePlace, NEW t \in Tasks, SendPush(t)
  PROVE  OnePlace'
<1> DEFINE new == [id |-> t, attempt |-> attempts[t] + 1]
<1>1. /\ new \in Push /\ new.id = t /\ new.attempt = attempts[t] + 1
      /\ attempts' = [attempts EXCEPT ![t] = attempts[t] + 1]
      /\ inflight' = inflight \cup {new}
      /\ UNCHANGED <<queue, wpc, copy, outcome>>
      /\ attempts[t] \in Nat
  BY DEF SendPush, TypeOK, Push, redisVars, workerVars
<1> HIDE DEF new
<1>2. ~Held(new) /\ outcome[new] = "pending"
  BY <1>1 DEF OnePlace, UnsentIsNowhere
<1>3. UnsentIsNowhere'
  <2> SUFFICES ASSUME NEW m \in Push, m.attempt > attempts'[m.id]
               PROVE  ~Held(m)' /\ outcome'[m] = "pending"
    BY DEF UnsentIsNowhere
  <2>1. m # new /\ m.attempt > attempts[m.id]
    BY <1>1 DEF TypeOK, Push
  <2> QED
    BY <1>1, <2>1 DEF OnePlace, UnsentIsNowhere, Held, InQueue, AtWorker
<1>4. InflightOnce'
  BY <1>1, <1>2 DEF OnePlace, InflightOnce, Held, InQueue, AtWorker
<1> QED
  BY <1>1, <1>3, <1>4 DEF OnePlace, QueuedOnce, RunsOnce, AtWorker

(* RedisPush moves a command from its connection to the list.              *)
LEMMA OnePlacePush ==
  ASSUME TypeOK, OnePlace, NEW m \in Push, RedisPush(m)
  PROVE  OnePlace'
<1>1. /\ m \in inflight /\ inflight' = inflight \ {m}
      /\ queue' \in Seq(Push) /\ Len(queue') = Len(queue) + 1 /\ Len(queue) \in Nat
      /\ queue'[1] = m
      /\ \A i \in 2..Len(queue') : queue'[i] = queue[i - 1]
      /\ UNCHANGED <<attempts, wpc, copy, outcome>>
  BY PushFirstProperties DEF RedisPush, PushLeft, TypeOK, requestVars, workerVars
<1>2. ~InQueue(m) /\ ~AtWorker(m) /\ outcome[m] = "pending"
  BY <1>1 DEF OnePlace, InflightOnce
<1>3. \A x : InQueue(x)' => x = m \/ InQueue(x)
  BY <1>1 DEF InQueue
<1>4. \A x : AtWorker(x)' <=> AtWorker(x)
  BY <1>1 DEF AtWorker
<1>5. UnsentIsNowhere' /\ InflightOnce'
  BY <1>1, <1>2, <1>3, <1>4 DEF OnePlace, UnsentIsNowhere, InflightOnce, Held
<1>6. QueuedOnce'
  <2>1. \A i \in 1..Len(queue') : i = 1 \/ (i - 1 \in 1..Len(queue) /\ queue'[i] = queue[i - 1])
    BY <1>1
  <2>2. \A i \in 1..Len(queue) : queue[i] # m
    BY <1>2 DEF InQueue
  <2>3. \A i, j \in 1..Len(queue) : queue[i] = queue[j] => i = j
    BY DEF OnePlace, QueuedOnce
  <2>4. ASSUME NEW i \in 1..Len(queue'), NEW j \in 1..Len(queue'), queue'[i] = queue'[j]
        PROVE  i = j
    <3>1. CASE i = 1 \/ j = 1
      BY <1>1, <2>1, <2>2, <2>4, <3>1
    <3>2. CASE i # 1 /\ j # 1
      BY <1>1, <2>1, <2>3, <2>4, <3>2
    <3> QED
      BY <3>1, <3>2
  <2>5. ASSUME NEW i \in 1..Len(queue')
        PROVE  ~AtWorker(queue'[i]) /\ outcome'[queue'[i]] = "pending"
    <3>1. CASE i = 1
      BY <1>1, <1>2, <3>1
    <3>2. CASE i # 1
      BY <1>1, <2>1, <3>2 DEF OnePlace, QueuedOnce
    <3> QED
      BY <3>1, <3>2
  <2> QED
    BY <1>1, <2>4, <2>5 DEF QueuedOnce, AtWorker
<1> QED
  BY <1>1, <1>5, <1>6 DEF OnePlace, RunsOnce

(* What RPOP takes is nowhere else, and what it leaves was there before.   *)
LEMMA PopLastIsUnique ==
  ASSUME TypeOK, OnePlace, queue # <<>>, PopLast
  PROVE  LET m == queue[Len(queue)]
         IN  /\ m \in Push /\ m \notin inflight /\ ~AtWorker(m) /\ outcome[m] = "pending"
             /\ m.attempt <= attempts[m.id]
             /\ \A i \in 1..Len(queue') : queue'[i] # m
             /\ \A x : InQueue(x)' => InQueue(x)
             /\ \A i, j \in 1..Len(queue') : queue'[i] = queue'[j] => i = j
             /\ \A i \in 1..Len(queue') : ~AtWorker(queue'[i]) /\ outcome[queue'[i]] = "pending"
<1> DEFINE m == queue[Len(queue)]
<1>1. /\ Len(queue) \in Nat \ {0}
      /\ m \in Push
      /\ Len(queue') = Len(queue) - 1
      /\ \A i \in 1..Len(queue') : queue'[i] = queue[i]
  <2>1. queue \in Seq(Push) /\ queue # <<>> /\ queue' = SubSeq(queue, 1, Len(queue) - 1)
    BY DEF PopLast, TypeOK
  <2> QED
    BY <2>1, PopLastProperties, Zenon
<1>2. /\ \A i, j \in 1..Len(queue) : queue[i] = queue[j] => i = j
      /\ \A i \in 1..Len(queue) : ~AtWorker(queue[i]) /\ outcome[queue[i]] = "pending"
  BY DEF OnePlace, QueuedOnce
<1>3. InQueue(m) /\ ~AtWorker(m) /\ outcome[m] = "pending"
  BY <1>1, <1>2 DEF InQueue
<1>4. m \notin inflight
  BY <1>3 DEF OnePlace, InflightOnce
<1>5. m.attempt <= attempts[m.id]
  BY <1>1, <1>3 DEF OnePlace, UnsentIsNowhere, Held, TypeOK, Push
<1>6. /\ \A i \in 1..Len(queue') : queue'[i] # m
      /\ \A x : InQueue(x)' => InQueue(x)
  <2>1. \A i \in 1..Len(queue') : i \in 1..Len(queue) /\ i # Len(queue)
    BY <1>1
  <2>2. \A i \in 1..Len(queue') : queue'[i] # m /\ queue'[i] = queue[i]
    BY <1>1, <1>2, <2>1
  <2>3. ASSUME NEW x, InQueue(x)' PROVE InQueue(x)
    <3>1. PICK i \in 1..Len(queue') : queue'[i] = x
      BY <2>3 DEF InQueue
    <3> QED
      BY <2>1, <2>2, <3>1 DEF InQueue
  <2> QED
    BY <2>2, <2>3
<1>7. /\ \A i, j \in 1..Len(queue') : queue'[i] = queue'[j] => i = j
      /\ \A i \in 1..Len(queue') : ~AtWorker(queue'[i]) /\ outcome[queue'[i]] = "pending"
  BY <1>1, <1>2
<1> QED
  BY <1>1, <1>3, <1>4, <1>5, <1>6, <1>7

(* BRPop hands the command it takes to one worker.                         *)
LEMMA OnePlaceBRPop ==
  ASSUME TypeOK, OnePlace, NEW w \in Workers, BRPop(w)
  PROVE  OnePlace'
<1> DEFINE m == queue[Len(queue)]
<1>1. /\ m \in Push /\ m \notin inflight /\ ~AtWorker(m) /\ outcome[m] = "pending"
      /\ m.attempt <= attempts[m.id]
      /\ \A i \in 1..Len(queue') : queue'[i] # m
      /\ \A x : InQueue(x)' => InQueue(x)
      /\ \A i, j \in 1..Len(queue') : queue'[i] = queue'[j] => i = j
      /\ \A i \in 1..Len(queue') : ~AtWorker(queue'[i]) /\ outcome[queue'[i]] = "pending"
  BY PopLastIsUnique DEF BRPop
<1>2. /\ wpc[w] = "idle" /\ wpc' = [wpc EXCEPT ![w] = "popped"]
      /\ \A v \in Workers : v # w => copy'[v] = copy[v] /\ wpc'[v] = wpc[v]
      /\ copy'[w].push = m /\ wpc'[w] = "popped"
      /\ UNCHANGED <<attempts, inflight, outcome>>
  BY DEF BRPop, TypeOK, requestVars
<1> HIDE DEF m
<1>3. \A x : AtWorker(x)' => x = m \/ AtWorker(x)
  BY <1>2 DEF AtWorker
<1>4. UnsentIsNowhere'
  <2> SUFFICES ASSUME NEW x \in Push, x.attempt > attempts[x.id]
               PROVE  ~Held(x)' /\ outcome'[x] = "pending"
    BY <1>2 DEF UnsentIsNowhere
  <2>1. x # m
    BY <1>1 DEF TypeOK, Push
  <2> QED
    BY <1>1, <1>2, <1>3, <2>1 DEF OnePlace, UnsentIsNowhere, Held
<1>5. InflightOnce'
  BY <1>1, <1>2, <1>3 DEF OnePlace, InflightOnce
<1>6. QueuedOnce'
  BY <1>1, <1>2, <1>3 DEF QueuedOnce
<1>7. RunsOnce'
  BY <1>1, <1>2 DEF OnePlace, RunsOnce, AtWorker
<1> QED
  BY <1>4, <1>5, <1>6, <1>7 DEF OnePlace

(* A command that is popped for a broken connection is gone.                *)
LEMMA OnePlaceBRPopLost ==
  ASSUME TypeOK, OnePlace, NEW w \in Workers, BRPopLost(w)
  PROVE  OnePlace'
<1>1. UNCHANGED <<attempts, inflight, wpc, copy, outcome>>
  BY DEF BRPopLost, requestVars, workerVars
<1>2. /\ \A x : InQueue(x)' => InQueue(x)
      /\ \A i, j \in 1..Len(queue') : queue'[i] = queue'[j] => i = j
      /\ \A i \in 1..Len(queue') : ~AtWorker(queue'[i]) /\ outcome[queue'[i]] = "pending"
  BY PopLastIsUnique DEF BRPopLost
<1>3. \A x : AtWorker(x)' <=> AtWorker(x)
  BY <1>1 DEF AtWorker
<1>4. UnsentIsNowhere' /\ InflightOnce'
  BY <1>1, <1>2, <1>3 DEF OnePlace, UnsentIsNowhere, InflightOnce, Held
<1>5. QueuedOnce' /\ RunsOnce'
  BY <1>1, <1>2, <1>3 DEF OnePlace, QueuedOnce, RunsOnce
<1> QED
  BY <1>4, <1>5 DEF OnePlace

(* A worker's other steps keep the command it holds or drop it, give an    *)
(* outcome to no other command, and to none before its handler runs.       *)
LEMMA OnePlaceWork ==
  ASSUME TypeOK, OnePlace, NEW w \in Workers, wpc[w] # "idle",
         UNCHANGED <<attempts, inflight, queue>>,
         \A v \in Workers : v # w => copy'[v] = copy[v] /\ wpc'[v] = wpc[v],
         wpc'[w] # "idle" => copy'[w].push = copy[w].push,
         wpc'[w] # "popped",
         wpc'[w] = "running" => wpc[w] = "popped" /\ outcome' = outcome,
         \A m \in Push : m # copy[w].push => outcome'[m] = outcome[m]
  PROVE  OnePlace'
<1> DEFINE p == copy[w].push
<1>1. p \in Push /\ AtWorker(p)
  BY CopyType DEF AtWorker
<1>2. p.attempt <= attempts[p.id] /\ p \notin inflight /\ ~InQueue(p)
  <2>1. ~(p.attempt > attempts[p.id])
    BY <1>1 DEF OnePlace, UnsentIsNowhere, Held
  <2> QED
    BY <1>1, <2>1 DEF OnePlace, InflightOnce, QueuedOnce, InQueue, TypeOK, Push
<1>3. \A x : AtWorker(x)' => AtWorker(x)
  BY DEF AtWorker
<1>4. \A x : InQueue(x)' <=> InQueue(x)
  BY DEF InQueue
<1>5. \A m \in Push : m # p => outcome'[m] = outcome[m]
  OBVIOUS
<1> HIDE DEF p
<1>6. UnsentIsNowhere'
  <2> SUFFICES ASSUME NEW m \in Push, m.attempt > attempts[m.id]
               PROVE  ~Held(m)' /\ outcome'[m] = "pending"
    BY DEF UnsentIsNowhere
  <2>1. m # p
    BY <1>2 DEF TypeOK, Push
  <2> QED
    BY <1>3, <1>4, <1>5, <2>1 DEF OnePlace, UnsentIsNowhere, Held
<1>7. InflightOnce'
  BY <1>2, <1>3, <1>4, <1>5 DEF OnePlace, InflightOnce, TypeOK
<1>8. QueuedOnce'
  <2>1. \A i \in 1..Len(queue) : queue[i] \in Push /\ queue[i] # p
    BY <1>2 DEF InQueue, TypeOK
  <2> QED
    BY <1>3, <1>5, <2>1 DEF OnePlace, QueuedOnce
<1>9. RunsOnce'
  <2>1. \A v \in Workers : v # w /\ wpc[v] # "idle" => copy[v].push # p /\ copy[v].push \in Push
    BY CopyType DEF OnePlace, RunsOnce, p
  <2>2. \A v \in Workers : v # w /\ wpc[v] \in {"popped", "running"} =>
                             outcome'[copy[v].push] = "pending"
    BY <1>5, <2>1 DEF OnePlace, RunsOnce
  <2>3. wpc'[w] \in {"popped", "running"} => outcome'[p] = "pending"
    BY DEF OnePlace, RunsOnce, p
  <2>4. \A v, x \in Workers : v # x /\ wpc'[v] # "idle" /\ wpc'[x] # "idle" =>
                               copy'[v].push # copy'[x].push
    BY <2>1 DEF OnePlace, RunsOnce, p
  <2> QED
    BY <2>2, <2>3, <2>4 DEF RunsOnce, p
<1> QED
  BY <1>6, <1>7, <1>8, <1>9 DEF OnePlace

(* A crash drops what the workers hold; the list and the connections stay. *)
LEMMA OnePlaceCrash == OnePlace /\ Crash => OnePlace'
BY DEF Crash, OnePlace, UnsentIsNowhere, InflightOnce, QueuedOnce, RunsOnce, Held, InQueue,
       AtWorker, requestVars, redisVars

(* Every step of the system keeps every command in one place.              *)
LEMMA OnePlaceNext == TypeOK /\ OnePlace /\ [Next]_vars => OnePlace'
<1> SUFFICES ASSUME TypeOK, OnePlace, [Next]_vars PROVE OnePlace'
  OBVIOUS
<1>1. ASSUME NEW t \in Tasks, Save(t) \/ RequestStep(t) PROVE OnePlace'
  <2>1. CASE SendPush(t)
    BY <2>1, OnePlaceSend
  <2>2. CASE ~SendPush(t)
    <3>1. UNCHANGED <<attempts, redisVars, workerVars>>
      BY <1>1, <2>2 DEF RequestStep, Save, TransitionToQueued, Dispatch, EnqueueOK,
         EnqueueError, HandleFailure, CheckFailed, SetFailed, ReadArgs, UpdateFailed,
         ReadStatus, ReadResult, requestVars
    <3> QED
      BY <3>1, OnePlaceFrame DEF redisVars, workerVars
  <2> QED
    BY <2>1, <2>2
<1>2. ASSUME NEW m \in Push, RedisPush(m) PROVE OnePlace'
  BY <1>2, OnePlacePush
<1>3. ASSUME NEW w \in Workers, BRPop(w) PROVE OnePlace'
  BY <1>3, OnePlaceBRPop
<1>4. ASSUME NEW w \in Workers, BRPopLost(w) PROVE OnePlace'
  BY <1>4, OnePlaceBRPopLost
<1>5. ASSUME NEW w \in Workers, TransitionToRunning(w) PROVE OnePlace'
  <2>1. /\ wpc[w] = "popped" /\ UNCHANGED <<attempts, inflight, queue, outcome>>
        /\ \/ wpc' = [wpc EXCEPT ![w] = "running"] /\
              copy' = [copy EXCEPT ![w] = [push |-> copy[w].push, status |-> "running",
                                           result |-> copy[w].result]]
           \/ wpc' = [wpc EXCEPT ![w] = "idle"] /\ copy' = [copy EXCEPT ![w] = NoCopy]
    BY <1>5 DEF TransitionToRunning, requestVars, redisVars
  <2>2. /\ \A v \in Workers : v # w => copy'[v] = copy[v] /\ wpc'[v] = wpc[v]
        /\ wpc'[w] # "idle" => copy'[w].push = copy[w].push
        /\ wpc'[w] # "popped"
    BY <2>1 DEF TypeOK
  <2> QED
    BY <2>1, <2>2, OnePlaceWork
<1>6. ASSUME NEW w \in Workers, RunHandler(w) PROVE OnePlace'
  BY <1>6, OnePlaceWork, CopyType DEF RunHandler, TypeOK, requestVars, redisVars
<1>7. ASSUME NEW w \in Workers, CompleteTask(w) \/ FailTask(w) PROVE OnePlace'
  BY <1>7, OnePlaceWork DEF CompleteTask, FailTask, Finish, TypeOK, requestVars, redisVars
<1>8. CASE Crash
  BY <1>8, OnePlaceCrash
<1>9. CASE UNCHANGED vars
  BY <1>9, OnePlaceFrame DEF vars, requestVars, redisVars, workerVars
<1> QED
  BY <1>1, <1>2, <1>3, <1>4, <1>5, <1>6, <1>7, <1>8, <1>9 DEF Next, WorkerStep, RedisStep

(* Every command is in one place in every reachable state.                 *)
LEMMA OnePlaceCorrect == Spec => []OnePlace
BY OnePlaceInit, OnePlaceNext, TypeCorrect, PTL DEF Spec

(* No command is processed twice, for any number of tasks, workers,        *)
(* retries, lost answers, store faults and crashes.                        *)
THEOREM RunsOnceCorrect == Spec => []RunsOnce
<1>1. OnePlace => RunsOnce
  BY DEF OnePlace
<1> QED
  BY <1>1, OnePlaceCorrect, PTL

-----------------------------------------------------------------------------
(* "done" is earned.  The status a worker or the submitter writes comes    *)
(* from the record, the marshalled task, the worker's copy or the          *)
(* submitter's evaluated arguments; the strengthening says that none of    *)
(* them holds "done" before a handler returned an output.  A handler's     *)
(* output is never taken back because no command is processed twice.       *)

DoneIsEarned ==
    /\ HonestDone
    /\ \A t \in Tasks : args[t].status = "done" => HasOutput(t)
    /\ \A t \in Tasks : wire[t].status = "done" => HasOutput(t)
    /\ \A w \in Workers : wpc[w] # "idle" =>
          /\ copy[w].status = "done" => HasOutput(copy[w].push.id)
          /\ wpc[w] = "succeeded" => outcome[copy[w].push] = "output"

(* A new task is "submitted".                                              *)
LEMMA DoneIsEarnedInit == Init => DoneIsEarned
BY DEF Init, InitialStatus, DoneIsEarned, HonestDone

(* A task with an output keeps it: RunsOnce.                               *)
LEMMA OutputIsKept ==
  ASSUME TypeOK, RunsOnce, [Next]_vars, NEW t \in Tasks, HasOutput(t)
  PROVE  HasOutput(t)'
<1>1. PICK m \in Push : m.id = t /\ outcome[m] = "output"
  BY DEF HasOutput
<1>2. outcome'[m] = "output"
  <2>1. ASSUME NEW w \in Workers, RunHandler(w) PROVE outcome'[m] = "output"
    <3>1. outcome[copy[w].push] = "pending" /\ wpc[w] # "idle"
      BY <2>1 DEF RunHandler, RunsOnce
    <3>2. copy[w].push # m
      BY <1>1, <3>1
    <3>3. PICK o : outcome' = [outcome EXCEPT ![copy[w].push] = o]
      BY <2>1 DEF RunHandler
    <3> QED
      BY <1>1, <3>2, <3>3 DEF TypeOK
  <2>2. CASE UNCHANGED outcome
    BY <1>1, <2>2
  <2> QED
    BY <2>1, <2>2 DEF Next, RequestStep, WorkerStep, RedisStep, Save, TransitionToQueued,
       Dispatch, SendPush, EnqueueOK, EnqueueError, HandleFailure, CheckFailed, SetFailed,
       ReadArgs, UpdateFailed, ReadStatus, ReadResult, RedisPush, BRPop, BRPopLost,
       TransitionToRunning, CompleteTask, FailTask, Finish, Crash, vars, workerVars
<1> QED
  BY <1>1, <1>2 DEF HasOutput

(* store.Update makes a record "done" only when it is called with "done".  *)
LEMMA UpdateDone ==
  ASSUME TypeOK, NEW t \in Tasks, NEW s, NEW r, Update(t, s, r),
         NEW u \in Tasks, status'[u] = "done"
  PROVE  status[u] = "done" \/ (u = t /\ s = "done")
BY DEF Update, TypeOK

(* No step writes "done" without an output of a handler.                   *)
LEMMA DoneIsEarnedNext == TypeOK /\ RunsOnce /\ DoneIsEarned /\ [Next]_vars => DoneIsEarned'
<1> SUFFICES ASSUME TypeOK, RunsOnce, DoneIsEarned, [Next]_vars PROVE DoneIsEarned'
  OBVIOUS
<1>0. \A t \in Tasks : HasOutput(t) => HasOutput(t)'
  BY OutputIsKept
<1>a. \A w \in Workers : wpc[w] # "idle" => copy[w].push \in Push /\ copy[w].push.id \in Tasks
  BY CopyType
<1> USE DEF DoneIsEarned, HonestDone
<1>1. ASSUME NEW t \in Tasks, Save(t) \/ RequestStep(t) PROVE DoneIsEarned'
  <2>1. UNCHANGED <<wpc, copy, outcome>>
    BY <1>1 DEF RequestStep, Save, TransitionToQueued, Dispatch, SendPush, EnqueueOK,
       EnqueueError, HandleFailure, CheckFailed, SetFailed, ReadArgs, UpdateFailed,
       ReadStatus, ReadResult, workerVars
  <2>2. ASSUME NEW u \in Tasks, status'[u] = "done"
        PROVE  status[u] = "done" \/ (pc[u] = "updating" /\ args[u].status = "done")
    <3>1. CASE TransitionToQueued(t)
      BY <2>2, <3>1 DEF TransitionToQueued, SetStatus, TypeOK
    <3>2. CASE SetFailed(t)
      BY <2>2, <3>2 DEF SetFailed, TypeOK
    <3>3. CASE UpdateFailed(t)
      BY <2>2, <3>3, UpdateDone DEF UpdateFailed
    <3>4. CASE UNCHANGED status
      BY <2>2, <3>4
    <3> QED
      BY <1>1, <3>1, <3>2, <3>3, <3>4 DEF RequestStep, Save, Dispatch, SendPush, EnqueueOK,
         EnqueueError, HandleFailure, CheckFailed, ReadArgs, ReadStatus, ReadResult, recordVars
  <2>3. ASSUME NEW u \in Tasks, args'[u].status = "done"
        PROVE  args[u].status = "done" \/ status[u] = "done"
    <3>1. CASE ReadArgs(t)
      BY <2>3, <3>1 DEF ReadArgs, TypeOK
    <3> QED
      BY <1>1, <2>3, <3>1 DEF RequestStep, Save, TransitionToQueued, Dispatch, SendPush,
         EnqueueOK, EnqueueError, HandleFailure, CheckFailed, SetFailed, UpdateFailed,
         ReadStatus, ReadResult, requestVars
  <2>4. ASSUME NEW u \in Tasks, wire'[u].status = "done"
        PROVE  wire[u].status = "done" \/ status[u] = "done"
    <3>1. CASE Dispatch(t)
      <4>1. /\ u # t => wire'[u] = wire[u]
            /\ wire'[t] = wire[t] \/ wire'[t].status = status[t]
        BY <3>1 DEF Dispatch, TypeOK
      <4> QED
        BY <2>4, <4>1
    <3> QED
      BY <1>1, <2>4, <3>1 DEF RequestStep, Save, TransitionToQueued, SendPush, EnqueueOK,
         EnqueueError, HandleFailure, CheckFailed, SetFailed, ReadArgs, UpdateFailed,
         ReadStatus, ReadResult, requestVars
  <2> QED
    BY <1>0, <1>a, <2>1, <2>2, <2>3, <2>4
<1>2. ASSUME NEW m \in Push, RedisPush(m) PROVE DoneIsEarned'
  BY <1>0, <1>a, <1>2 DEF RedisPush, recordVars, requestVars, workerVars
<1>3. ASSUME NEW w \in Workers, BRPop(w) PROVE DoneIsEarned'
  <2>1. /\ UNCHANGED <<status, args, wire, outcome>>
        /\ \A v \in Workers : v # w => copy'[v] = copy[v] /\ wpc'[v] = wpc[v]
        /\ wpc'[w] = "popped" /\ copy'[w].push.id \in Tasks
        /\ copy'[w].status = wire[copy'[w].push.id].status
    <3>1. queue[Len(queue)] \in Push
      BY <1>3, PopLastProperties DEF BRPop, TypeOK
    <3> QED
      BY <1>3, <3>1 DEF BRPop, TypeOK, Push, recordVars, requestVars
  <2> QED
    BY <1>0, <1>a, <2>1
<1>4. ASSUME NEW w \in Workers, BRPopLost(w) PROVE DoneIsEarned'
  BY <1>0, <1>a, <1>4 DEF BRPopLost, recordVars, requestVars, workerVars
<1>5. ASSUME NEW w \in Workers, TransitionToRunning(w) PROVE DoneIsEarned'
  <2>1. /\ UNCHANGED <<args, wire, outcome>>
        /\ \A v \in Workers : v # w => copy'[v] = copy[v] /\ wpc'[v] = wpc[v]
        /\ wpc'[w] # "idle" => copy'[w].status = "running" /\ wpc'[w] = "running"
    BY <1>5 DEF TransitionToRunning, TypeOK, requestVars
  <2>2. ASSUME NEW u \in Tasks, status'[u] = "done" PROVE status[u] = "done"
    BY <1>5, <1>a, <2>2, UpdateDone DEF TransitionToRunning, recordVars
  <2> QED
    BY <1>0, <1>a, <2>1, <2>2
<1>6. ASSUME NEW w \in Workers, RunHandler(w) PROVE DoneIsEarned'
  <2>1. PICK o : /\ outcome' = [outcome EXCEPT ![copy[w].push] = o]
                 /\ wpc' = [wpc EXCEPT ![w] = IF o = "output" THEN "succeeded" ELSE "failed"]
                 /\ copy' = [copy EXCEPT ![w] = [push |-> copy[w].push,
                                                 status |-> copy[w].status, result |-> o]]
    BY <1>6 DEF RunHandler
  <2>2. /\ wpc[w] = "running" /\ UNCHANGED <<status, args, wire>>
    BY <1>6 DEF RunHandler, recordVars, requestVars
  <2>3. ASSUME NEW v \in Workers, wpc'[v] # "idle"
        PROVE  /\ copy'[v].status = "done" => HasOutput(copy[v].push.id)'
               /\ wpc'[v] = "succeeded" => outcome'[copy'[v].push] = "output"
    <3>1. CASE v = w
      <4>1. /\ copy'[w].push = copy[w].push /\ copy'[w].status = copy[w].status
            /\ wpc'[w] = "succeeded" => o = "output"
            /\ outcome'[copy[w].push] = o
        BY <1>a, <2>1, <2>2 DEF TypeOK
      <4>2. copy[w].status = "done" => HasOutput(copy[w].push.id)
        BY <2>2
      <4>3. copy'[w].status = "done" => HasOutput(copy[w].push.id)'
        BY <1>0, <1>a, <2>2, <4>1, <4>2
      <4> QED
        BY <3>1, <4>1, <4>3
    <3>2. CASE v # w
      <4>1. copy'[v] = copy[v] /\ wpc'[v] = wpc[v] /\ copy[v].push # copy[w].push
        BY <2>1, <2>2, <2>3, <3>2 DEF TypeOK, RunsOnce
      <4>2. outcome'[copy[v].push] = outcome[copy[v].push]
        BY <1>a, <2>1, <2>3, <4>1 DEF TypeOK
      <4> QED
        BY <1>0, <1>a, <2>3, <4>1, <4>2
    <3> QED
      BY <3>1, <3>2
  <2>4. HonestDone'
    BY <1>0, <2>2
  <2>5. \A t \in Tasks : args'[t].status = "done" \/ wire'[t].status = "done" => HasOutput(t)'
    BY <1>0, <2>2
  <2> QED
    BY <2>3, <2>4, <2>5
<1>7. ASSUME NEW w \in Workers, CompleteTask(w) \/ FailTask(w) PROVE DoneIsEarned'
  <2>1. /\ UNCHANGED <<args, wire, outcome>>
        /\ \A v \in Workers : v # w => copy'[v] = copy[v] /\ wpc'[v] = wpc[v]
        /\ wpc[w] # "idle" /\ wpc'[w] = "idle"
    BY <1>7 DEF CompleteTask, FailTask, Finish, TypeOK, requestVars
  <2>2. ASSUME NEW u \in Tasks, status'[u] = "done"
        PROVE  status[u] = "done" \/ HasOutput(u)
    <3>1. CASE CompleteTask(w)
      <4>1. HasOutput(copy[w].push.id)
        BY <1>a, <3>1 DEF CompleteTask, HasOutput
      <4> QED
        BY <1>a, <2>2, <3>1, <4>1, UpdateDone DEF CompleteTask, Finish, recordVars
    <3>2. CASE FailTask(w)
      BY <1>a, <2>1, <2>2, <3>2, UpdateDone DEF FailTask, Finish, SetStatus
    <3> QED
      BY <1>7, <3>1, <3>2
  <2> QED
    BY <1>0, <1>a, <2>1, <2>2
<1>8. CASE Crash
  BY <1>0, <1>8 DEF Crash, InitialStatus, requestVars
<1>9. CASE UNCHANGED vars
  BY <1>0, <1>a, <1>9 DEF vars, recordVars, requestVars, workerVars
<1> QED
  BY <1>1, <1>2, <1>3, <1>4, <1>5, <1>6, <1>7, <1>8, <1>9 DEF Next, WorkerStep, RedisStep

(* A task shown as done was executed, whatever the submitter and the       *)
(* workers write to its record in whatever order.                          *)
THEOREM HonestDoneCorrect == Spec => []HonestDone
<1>1. DoneIsEarned => HonestDone
  BY DEF DoneIsEarned
<1> QED
  BY <1>1, DoneIsEarnedInit, DoneIsEarnedNext, TypeCorrect, RunsOnceCorrect, PTL DEF Spec

-----------------------------------------------------------------------------
(* "failed" is earned.  Only the submitter's error path and a worker whose *)
(* handler returned an error write it; the submitter is on that path until *)
(* the process dies, and then the record dies with it.                     *)

FailureIsEarned ==
    /\ HonestFailure
    /\ \A w \in Workers : wpc[w] = "failed" => outcome[copy[w].push] = "error"

(* A new task is not failed and no worker is busy.                         *)
LEMMA FailureIsEarnedInit == Init => FailureIsEarned
BY DEF Init, InitialStatus, FailureIsEarned, HonestFailure

(* The outcome of a command, once there, stays: RunsOnce.                  *)
LEMMA ErrorIsKept ==
  ASSUME TypeOK, RunsOnce, [Next]_vars, NEW t \in Tasks, HasError(t)
  PROVE  HasError(t)'
<1>1. PICK m \in Push : m.id = t /\ outcome[m] = "error"
  BY DEF HasError
<1>2. outcome'[m] = "error"
  <2>1. ASSUME NEW w \in Workers, RunHandler(w) PROVE outcome'[m] = "error"
    <3>1. outcome[copy[w].push] = "pending" /\ wpc[w] # "idle"
      BY <2>1 DEF RunHandler, RunsOnce
    <3>2. copy[w].push # m
      BY <1>1, <3>1
    <3>3. PICK o : outcome' = [outcome EXCEPT ![copy[w].push] = o]
      BY <2>1 DEF RunHandler
    <3> QED
      BY <1>1, <3>2, <3>3 DEF TypeOK
  <2>2. CASE UNCHANGED outcome
    BY <1>1, <2>2
  <2> QED
    BY <2>1, <2>2 DEF Next, RequestStep, WorkerStep, RedisStep, Save, TransitionToQueued,
       Dispatch, SendPush, EnqueueOK, EnqueueError, HandleFailure, CheckFailed, SetFailed,
       ReadArgs, UpdateFailed, ReadStatus, ReadResult, RedisPush, BRPop, BRPopLost,
       TransitionToRunning, CompleteTask, FailTask, Finish, Crash, vars, workerVars
<1> QED
  BY <1>1, <1>2 DEF HasError

(* store.Update makes a record "failed" only when it is called with it.    *)
LEMMA UpdateFailedStatus ==
  ASSUME TypeOK, NEW t \in Tasks, NEW s, NEW r, Update(t, s, r),
         NEW u \in Tasks, status'[u] = "failed"
  PROVE  status[u] = "failed" \/ (u = t /\ s = "failed")
BY DEF Update, TypeOK

(* No step writes "failed" without an error to report.                     *)
LEMMA FailureIsEarnedNext ==
  TypeOK /\ RunsOnce /\ FailureIsEarned /\ [Next]_vars => FailureIsEarned'
<1> SUFFICES ASSUME TypeOK, RunsOnce, FailureIsEarned, [Next]_vars PROVE FailureIsEarned'
  OBVIOUS
<1>0. \A t \in Tasks : HasError(t) => HasError(t)'
  BY ErrorIsKept
<1>a. \A w \in Workers : wpc[w] # "idle" => copy[w].push \in Push /\ copy[w].push.id \in Tasks
  BY CopyType
<1> USE DEF FailureIsEarned, HonestFailure
<1>1. ASSUME NEW t \in Tasks, Save(t) \/ RequestStep(t) PROVE FailureIsEarned'
  <2>1. UNCHANGED <<wpc, copy, outcome>>
    BY <1>1 DEF RequestStep, Save, TransitionToQueued, Dispatch, SendPush, EnqueueOK,
       EnqueueError, HandleFailure, CheckFailed, SetFailed, ReadArgs, UpdateFailed,
       ReadStatus, ReadResult, workerVars
  <2>2. \A u \in Tasks : Rejecting(u) => Rejecting(u)'
    BY <1>1 DEF RequestStep, Save, TransitionToQueued, Dispatch, SendPush, EnqueueOK,
       EnqueueError, HandleFailure, CheckFailed, SetFailed, ReadArgs, UpdateFailed,
       ReadStatus, ReadResult, Goto, Rejecting, FailurePath, TypeOK
  <2>3. ASSUME NEW u \in Tasks, status'[u] = "failed"
        PROVE  status[u] = "failed" \/ Rejecting(u)'
    <3>1. CASE TransitionToQueued(t)
      BY <2>3, <3>1 DEF TransitionToQueued, SetStatus, TypeOK
    <3>2. CASE SetFailed(t)
      BY <2>3, <3>2 DEF SetFailed, Goto, Rejecting, FailurePath, TypeOK
    <3>3. CASE UpdateFailed(t)
      <4>1. status[u] = "failed" \/ u = t
        BY <2>3, <3>3, UpdateFailedStatus DEF UpdateFailed
      <4>2. Rejecting(t)'
        BY <3>3 DEF UpdateFailed, Rejecting, FailurePath, TypeOK
      <4> QED
        BY <4>1, <4>2
    <3>4. CASE UNCHANGED status
      BY <2>3, <3>4
    <3> QED
      BY <1>1, <3>1, <3>2, <3>3, <3>4 DEF RequestStep, Save, Dispatch, SendPush, EnqueueOK,
         EnqueueError, HandleFailure, CheckFailed, ReadArgs, ReadStatus, ReadResult, recordVars
  <2> QED
    BY <1>0, <1>a, <2>1, <2>2, <2>3
<1>2. ASSUME UNCHANGED <<status, pc, outcome>>,
             \A w \in Workers : wpc'[w] = "failed" => wpc[w] = "failed" /\ copy'[w] = copy[w]
      PROVE  FailureIsEarned'
  BY <1>0, <1>2 DEF Rejecting
<1>3. ASSUME NEW m \in Push, RedisPush(m) PROVE FailureIsEarned'
  BY <1>2, <1>3 DEF RedisPush, recordVars, workerVars
<1>4. ASSUME NEW w \in Workers, BRPop(w) \/ BRPopLost(w) PROVE FailureIsEarned'
  BY <1>2, <1>4 DEF BRPop, BRPopLost, TypeOK, recordVars, workerVars
<1>5. ASSUME NEW w \in Workers, TransitionToRunning(w) PROVE FailureIsEarned'
  <2>1. /\ UNCHANGED <<pc, outcome>>
        /\ \A v \in Workers : v # w => copy'[v] = copy[v] /\ wpc'[v] = wpc[v]
        /\ wpc'[w] # "failed"
    BY <1>5 DEF TransitionToRunning, TypeOK
  <2>2. ASSUME NEW u \in Tasks, status'[u] = "failed" PROVE status[u] = "failed"
    BY <1>5, <1>a, <2>2, UpdateFailedStatus DEF TransitionToRunning, recordVars
  <2> QED
    BY <1>0, <2>1, <2>2 DEF Rejecting
<1>6. ASSUME NEW w \in Workers, RunHandler(w) PROVE FailureIsEarned'
  <2>1. PICK o \in HandlerOutcomes(copy[w].push.id) :
                 /\ outcome' = [outcome EXCEPT ![copy[w].push] = o]
                 /\ wpc' = [wpc EXCEPT ![w] = IF o = "output" THEN "succeeded" ELSE "failed"]
                 /\ copy' = [copy EXCEPT ![w] = [push |-> copy[w].push,
                                                 status |-> copy[w].status, result |-> o]]
    BY <1>6 DEF RunHandler
  <2>2. /\ wpc[w] = "running" /\ UNCHANGED <<status, pc>>
        /\ o \in {"output", "error"}
    BY <1>6, <2>1 DEF RunHandler, HandlerOutcomes, recordVars
  <2>3. ASSUME NEW v \in Workers, wpc'[v] = "failed" PROVE outcome'[copy'[v].push] = "error"
    <3>1. CASE v = w
      BY <1>a, <2>1, <2>2, <2>3, <3>1 DEF TypeOK
    <3>2. CASE v # w
      <4>1. copy'[v] = copy[v] /\ wpc'[v] = wpc[v] /\ copy[v].push # copy[w].push
        BY <2>1, <2>2, <2>3, <3>2 DEF TypeOK, RunsOnce
      <4>2. outcome'[copy[v].push] = outcome[copy[v].push]
        BY <1>a, <2>1, <2>3, <4>1 DEF TypeOK
      <4> QED
        BY <2>3, <4>1, <4>2
    <3> QED
      BY <3>1, <3>2
  <2> QED
    BY <1>0, <2>2, <2>3 DEF Rejecting
<1>7. ASSUME NEW w \in Workers, CompleteTask(w) \/ FailTask(w) PROVE FailureIsEarned'
  <2>1. /\ UNCHANGED <<pc, outcome>>
        /\ \A v \in Workers : v # w => copy'[v] = copy[v] /\ wpc'[v] = wpc[v]
        /\ wpc[w] # "idle" /\ wpc'[w] = "idle"
    BY <1>7 DEF CompleteTask, FailTask, Finish, TypeOK
  <2>2. ASSUME NEW u \in Tasks, status'[u] = "failed"
        PROVE  status[u] = "failed" \/ HasError(u)
    <3>1. CASE CompleteTask(w)
      BY <1>a, <2>1, <2>2, <3>1, UpdateFailedStatus DEF CompleteTask, Finish, recordVars
    <3>2. CASE FailTask(w)
      <4>1. HasError(copy[w].push.id)
        BY <1>a, <3>2 DEF FailTask, HasError
      <4> QED
        BY <1>a, <2>2, <3>2, <4>1, UpdateFailedStatus DEF FailTask, Finish, recordVars
    <3> QED
      BY <1>7, <3>1, <3>2
  <2> QED
    BY <1>0, <2>1, <2>2 DEF Rejecting
<1>8. CASE Crash
  BY <1>8 DEF Crash, InitialStatus
<1>9. CASE UNCHANGED vars
  BY <1>2, <1>9 DEF vars, recordVars, workerVars
<1> QED
  BY <1>1, <1>3, <1>4, <1>5, <1>6, <1>7, <1>8, <1>9 DEF Next, WorkerStep, RedisStep

(* A task shown as failed was reported as failed by a handler, or its      *)
(* client gets an error, whatever is lost, refused or killed.              *)
THEOREM HonestFailureCorrect == Spec => []HonestFailure
<1>1. FailureIsEarned => HonestFailure
  BY DEF FailureIsEarned
<1> QED
  BY <1>1, FailureIsEarnedInit, FailureIsEarnedNext, TypeCorrect, RunsOnceCorrect, PTL DEF Spec
-----------------------------------------------------------------------------
(* The Redis list implements TaskQueue.  LPUSH at the head and RPOP at the *)
(* end are Append and Tail of the list read backwards, and a command that  *)
(* is sent was never in the list, by OnePlace.                             *)

(* Read backwards, a list has the same length and its elements in the      *)
(* opposite order.                                                         *)
LEMMA ReverseProperties ==
  ASSUME NEW q \in Seq(Push)
  PROVE  /\ Reverse(q) \in Seq(Push)
         /\ Len(Reverse(q)) = Len(q) /\ Len(q) \in Nat
         /\ \A i \in 1..Len(q) : Reverse(q)[i] = q[Len(q) - i + 1]
<1>1. Len(q) \in Nat /\ \A i \in 1..Len(q) : q[i] \in Push
  OBVIOUS
<1>2. \A i \in 1..Len(q) : Len(q) - i + 1 \in 1..Len(q)
  BY <1>1
<1> QED
  BY <1>1, <1>2 DEF Reverse

(* What LPUSH puts first is the last when read backwards.                  *)
LEMMA ReversePush ==
  ASSUME NEW q \in Seq(Push), NEW m \in Push
  PROVE  Reverse(<<m>> \o q) = Append(Reverse(q), m)
<1> DEFINE r == <<m>> \o q
<1>1. /\ r \in Seq(Push) /\ Len(r) = Len(q) + 1 /\ r[1] = m
      /\ \A i \in 2..Len(r) : r[i] = q[i - 1]
  BY PushFirstProperties
<1> HIDE DEF r
<1>2. /\ Reverse(q) \in Seq(Push) /\ Len(Reverse(q)) = Len(q) /\ Len(q) \in Nat
      /\ \A i \in 1..Len(q) : Reverse(q)[i] = q[Len(q) - i + 1]
  BY ReverseProperties
<1>3. /\ Reverse(r) \in Seq(Push) /\ Len(Reverse(r)) = Len(r)
      /\ \A i \in 1..Len(r) : Reverse(r)[i] = r[Len(r) - i + 1]
  BY <1>1, ReverseProperties
<1> DEFINE s == Append(Reverse(q), m)
<1>4. /\ s \in Seq(Push) /\ Len(s) = Len(q) + 1 /\ s[Len(q) + 1] = m
      /\ \A i \in 1..Len(q) : s[i] = Reverse(q)[i]
  BY <1>2
<1> HIDE DEF s
<1>5. ASSUME NEW i \in 1..Len(r) PROVE Reverse(r)[i] = s[i]
  <2>1. CASE i = Len(r)
    <3>1. Len(r) - i + 1 = 1 /\ i = Len(q) + 1
      BY <1>1, <1>2, <2>1
    <3>2. Reverse(r)[i] = r[Len(r) - i + 1]
      BY <1>3
    <3> QED
      BY <1>1, <1>4, <3>1, <3>2
  <2>2. CASE i # Len(r)
    <3>1. i \in 1..Len(q) /\ Len(r) - i + 1 \in 2..Len(r)
      BY <1>1, <1>2, <2>2
    <3>2. Reverse(r)[i] = q[(Len(r) - i + 1) - 1]
      BY <1>1, <1>3, <3>1
    <3>3. (Len(r) - i + 1) - 1 = Len(q) - i + 1
      BY <1>1, <1>2, <3>1
    <3> QED
      BY <1>2, <1>4, <3>1, <3>2, <3>3
  <2> QED
    BY <2>1, <2>2
<1>6. Reverse(r) = s
  BY <1>1, <1>3, <1>4, <1>5, SeqEqual
<1> QED
  BY <1>6 DEF r, s

(* What RPOP takes is the first when read backwards.                       *)
LEMMA ReversePop ==
  ASSUME NEW q \in Seq(Push), q # <<>>
  PROVE  /\ Reverse(q) # <<>>
         /\ Reverse(SubSeq(q, 1, Len(q) - 1)) = Tail(Reverse(q))
<1> DEFINE r == SubSeq(q, 1, Len(q) - 1)
<1>1. /\ Len(q) \in Nat \ {0}
      /\ r \in Seq(Push) /\ Len(r) = Len(q) - 1 /\ \A i \in 1..Len(r) : r[i] = q[i]
  BY PopLastProperties, Zenon
<1> HIDE DEF r
<1>2. /\ Reverse(q) \in Seq(Push) /\ Len(Reverse(q)) = Len(q)
      /\ \A i \in 1..Len(q) : Reverse(q)[i] = q[Len(q) - i + 1]
  BY ReverseProperties
<1>3. /\ Reverse(r) \in Seq(Push) /\ Len(Reverse(r)) = Len(r)
      /\ \A i \in 1..Len(r) : Reverse(r)[i] = r[Len(r) - i + 1]
  BY <1>1, ReverseProperties
<1>4. Reverse(q) # <<>>
  BY <1>1, <1>2
<1> DEFINE s == Tail(Reverse(q))
<1>5. /\ s \in Seq(Push) /\ Len(s) = Len(q) - 1
      /\ \A i \in 1..Len(q) - 1 : s[i] = Reverse(q)[i + 1]
  BY <1>1, <1>2, <1>4, HeadTailProperties
<1> HIDE DEF s
<1>6. ASSUME NEW i \in 1..Len(r) PROVE Reverse(r)[i] = s[i]
  <2>1. Len(r) - i + 1 \in 1..Len(r) /\ i + 1 \in 1..Len(q) /\ i \in 1..Len(q) - 1
    BY <1>1
  <2>2. Reverse(r)[i] = q[Len(r) - i + 1]
    BY <1>1, <1>3, <2>1
  <2>3. s[i] = q[Len(q) - (i + 1) + 1]
    BY <1>2, <1>5, <2>1
  <2>4. Len(r) - i + 1 = Len(q) - (i + 1) + 1
    BY <1>1, <2>1
  <2> QED
    BY <2>2, <2>3, <2>4
<1>7. Reverse(r) = s
  BY <1>1, <1>3, <1>5, <1>6, SeqEqual
<1> QED
  BY <1>4, <1>7 DEF r, s

(* The list starts empty and nothing has been sent.                        *)
LEMMA QueueInit == Init => Queue!Init
<1> SUFFICES ASSUME Init PROVE Reverse(queue) = <<>> /\ EnteredQueue = {}
  BY DEF Queue!Init
<1>1. Reverse(queue) = <<>>
  BY DEF Init, Reverse
<1>2. EnteredQueue = {}
  BY DEF Init, EnteredQueue, Push
<1> QED
  BY <1>1, <1>2

(* A step that leaves the list, the connections and the attempts alone.    *)
LEMMA QueueFrame ==
  ASSUME UNCHANGED <<queue, inflight, attempts>>
  PROVE  UNCHANGED <<Reverse(queue), EnteredQueue>>
BY DEF EnteredQueue

(* A command that is sent has not entered the list yet.                    *)
LEMMA QueueSend ==
  ASSUME TypeOK, OnePlace, NEW t \in Tasks, SendPush(t)
  PROVE  UNCHANGED <<Reverse(queue), EnteredQueue>>
<1> DEFINE new == [id |-> t, attempt |-> attempts[t] + 1]
<1>1. /\ new \in Push /\ new.id = t /\ new.attempt = attempts[t] + 1
      /\ attempts' = [attempts EXCEPT ![t] = attempts[t] + 1]
      /\ inflight' = inflight \cup {new}
      /\ queue' = queue
      /\ attempts \in [Tasks -> Nat]
  BY DEF SendPush, TypeOK, Push, redisVars, workerVars
<1>2. ASSUME NEW m \in Push
      PROVE  m.attempt <= attempts'[m.id] <=> m.attempt <= attempts[m.id] \/ m = new
  <2>1. m.id \in Tasks /\ m.attempt \in Nat /\ m = [id |-> m.id, attempt |-> m.attempt]
    BY DEF Push
  <2>2. CASE m.id = t
    <3>1. attempts'[m.id] = attempts[t] + 1 /\ attempts[t] \in Nat
      BY <1>1, <2>2
    <3>2. m = new <=> m.attempt = attempts[t] + 1
      BY <2>1, <2>2
    <3> QED
      BY <2>1, <2>2, <3>1, <3>2
  <2>3. CASE m.id # t
    BY <1>1, <2>1, <2>3
  <2> QED
    BY <2>2, <2>3
<1> HIDE DEF new
<1>3. ~(new.attempt <= attempts[new.id])
  BY <1>1
<1>4. EnteredQueue' = EnteredQueue
  BY <1>1, <1>2, <1>3 DEF EnteredQueue
<1> QED
  BY <1>1, <1>4

(* Redis puts a command behind those that wait.                            *)
LEMMA QueueEnter ==
  ASSUME TypeOK, OnePlace, NEW m \in Push, RedisPush(m)
  PROVE  Queue!Enter(m)
<1>1. /\ m \in inflight /\ inflight' = inflight \ {m} /\ queue' = <<m>> \o queue
      /\ attempts' = attempts /\ queue \in Seq(Push)
  BY DEF RedisPush, PushLeft, TypeOK, requestVars, workerVars
<1>2. Reverse(queue') = Append(Reverse(queue), m)
  BY <1>1, ReversePush
<1>3. m.attempt <= attempts[m.id]
  BY <1>1 DEF OnePlace, UnsentIsNowhere, Held, TypeOK, Push
<1>4. EnteredQueue' = EnteredQueue \cup {m} /\ m \notin EnteredQueue
  BY <1>1, <1>3 DEF EnteredQueue
<1> QED
  BY <1>2, <1>4 DEF Queue!Enter

(* Redis gives away what waits longest.                                    *)
LEMMA QueueLeave ==
  ASSUME TypeOK, queue # <<>>, PopLast, UNCHANGED <<inflight, attempts>>
  PROVE  Queue!Leave
<1>1. queue \in Seq(Push) /\ queue' = SubSeq(queue, 1, Len(queue) - 1)
  BY DEF TypeOK, PopLast
<1>2. Reverse(queue) # <<>> /\ Reverse(queue') = Tail(Reverse(queue))
  BY <1>1, ReversePop
<1>3. EnteredQueue' = EnteredQueue
  BY DEF EnteredQueue
<1> QED
  BY <1>2, <1>3 DEF Queue!Leave

(* Every step is a step of TaskQueue or leaves it alone.                   *)
LEMMA QueueStep ==
  TypeOK /\ OnePlace /\ [Next]_vars => [Queue!Next]_<<Reverse(queue), EnteredQueue>>
<1> SUFFICES ASSUME TypeOK, OnePlace, [Next]_vars
             PROVE  Queue!Next \/ UNCHANGED <<Reverse(queue), EnteredQueue>>
  OBVIOUS
<1>1. ASSUME NEW t \in Tasks, SendPush(t) PROVE UNCHANGED <<Reverse(queue), EnteredQueue>>
  BY <1>1, QueueSend
<1>2. ASSUME NEW m \in Push, RedisPush(m) PROVE Queue!Next
  BY <1>2, QueueEnter DEF Queue!Next
<1>3. ASSUME NEW w \in Workers, BRPop(w) \/ BRPopLost(w) PROVE Queue!Next
  BY <1>3, QueueLeave DEF Queue!Next, BRPop, BRPopLost, requestVars
<1>4. CASE /\ ~\E t \in Tasks : SendPush(t)
           /\ ~\E m \in Push : RedisPush(m)
           /\ ~\E w \in Workers : BRPop(w) \/ BRPopLost(w)
  <2>1. UNCHANGED <<queue, inflight, attempts>>
    BY <1>4 DEF Next, RequestStep, WorkerStep, RedisStep, Save, TransitionToQueued,
       Dispatch, EnqueueOK, EnqueueError, HandleFailure, CheckFailed, SetFailed,
       ReadArgs, UpdateFailed, ReadStatus, ReadResult, TransitionToRunning, RunHandler,
       CompleteTask, FailTask, Finish, Crash, vars, requestVars, redisVars
  <2> QED
    BY <2>1, QueueFrame
<1> QED
  BY <1>1, <1>2, <1>3, <1>4

(* The list that Enqueue and Dequeue share is the queue TaskQueue          *)
(* specifies: each command enters once and leaves in the order of entry,   *)
(* whatever is lost, sent again or killed.                                 *)
THEOREM QueueCorrect == Spec => ImplementsQueue
<1>1. Init => Queue!Init
  BY QueueInit
<1>2. TypeOK /\ OnePlace /\ [Next]_vars => [Queue!Next]_<<Reverse(queue), EnteredQueue>>
  BY QueueStep
<1> QED
  BY <1>1, <1>2, TypeCorrect, OnePlaceCorrect, PTL DEF Spec, ImplementsQueue, Queue!Spec
=============================================================================
