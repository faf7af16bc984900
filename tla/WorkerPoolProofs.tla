--------------------------- MODULE WorkerPoolProofs ---------------------------
(***************************************************************************)
(* Proofs about WorkerPool that hold for every finite set of workers and   *)
(* of calls of Start, and for any calls of Stop, however they interleave.  *)
(***************************************************************************)
EXTENDS WorkerPool, FiniteSetTheorems, TLAPS

USE PoolAssumption

-----------------------------------------------------------------------------
(* The type invariant.                                                     *)

(* Before the first call everything is new, unlocked and empty.            *)
LEMMA TypeInit == Init => TypeOK
<1> SUFFICES ASSUME Init PROVE TypeOK
  OBVIOUS
<1>1. \A s \in Starts : spc[s] = "spawning" <=> mu = s
  BY DEF Init
<1>2. /\ spc \in [Starts -> {"new", "spawning", "returned"}]
      /\ gpc \in [Goroutines -> {"none", "loop", "dequeuing", "working", "exited"}]
  BY DEF Init
<1>3. /\ ppc \in [Stops -> {"new", "cancelling", "closing", "waiting", "clearing", "returned"}]
      /\ fn \in [Stops -> Starts \cup {Nobody}]
      /\ waiter \in [Stops -> {"none", "spawned", "waiting", "woken", "closed"}]
  BY DEF Init
<1>4. panicked \in BOOLEAN
  BY DEF Init
<1> QED
  BY <1>1, <1>2, <1>3, <1>4 DEF Init, TypeOK

(* The steps of Start keep the mutex with the one Start that spawns.       *)
LEMMA TypeStart ==
  ASSUME TypeOK, NEW s \in Starts, StartStep(s)
  PROVE  TypeOK'
<1> USE DEF TypeOK, poolVars, stopVars, historyVars
<1>1. CASE StartLock(s)
  BY <1>1 DEF StartLock, Unfinished
<1>2. ASSUME NEW w \in Workers, Spawn(s, w) PROVE TypeOK'
  <2>1. <<s, w>> \in Goroutines
    BY DEF Goroutines
  <2> QED
    BY <1>2, <2>1 DEF Spawn
<1>3. CASE StartReturn(s)
  BY <1>3 DEF StartReturn, Unlock
<1> QED
  BY <1>1, <1>2, <1>3 DEF StartStep

(* The steps of Stop and of the goroutine it waits with.                   *)
LEMMA TypeStop ==
  ASSUME TypeOK, NEW p \in Stops, StopStep(p) \/ Wait(p) \/ Wake(p)
  PROVE  TypeOK'
<1> USE DEF TypeOK, poolVars, stopVars, historyVars, Goto
<1>1. CASE StopRead(p)
  BY <1>1 DEF StopRead, Keep
<1>2. CASE StopCancel(p)
  BY <1>2 DEF StopCancel
<1>3. ASSUME NEW w \in Workers, StopWorker(p, w) PROVE TypeOK'
  BY <1>3 DEF StopWorker
<1>4. CASE StopWait(p)
  BY <1>4 DEF StopWait
<1>5. CASE StopGraceful(p)
  BY <1>5 DEF StopGraceful
<1>6. CASE StopTimeout(p)
  BY <1>6 DEF StopTimeout
<1>7. CASE StopClear(p)
  BY <1>7 DEF StopClear
<1>8. CASE Wait(p)
  BY <1>8 DEF Wait
<1>9. CASE Wake(p)
  BY <1>9 DEF Wake
<1> QED
  BY <1>1, <1>2, <1>3, <1>4, <1>5, <1>6, <1>7, <1>8, <1>9 DEF StopStep

(* The steps of a worker's goroutine.                                      *)
LEMMA TypeGoroutine ==
  ASSUME TypeOK, NEW g \in Goroutines, LoopStep(g) \/ DequeueTask(g) \/ DequeueError(g)
  PROVE  TypeOK'
<1> USE DEF TypeOK, poolVars, stopVars, historyVars, GoOn
<1>1. CASE CallDequeue(g)
  BY <1>1 DEF CallDequeue
<1>2. CASE EndTask(g)
  BY <1>2 DEF EndTask
<1>3. CASE Exit(g)
  BY <1>3 DEF Exit
<1>4. CASE DequeueTask(g)
  BY <1>4 DEF DequeueTask
<1>5. CASE DequeueError(g)
  BY <1>5 DEF DequeueError
<1> QED
  BY <1>1, <1>2, <1>3, <1>4, <1>5 DEF LoopStep

(* No step of a Start, a Stop or a worker leaves the types.                *)
LEMMA TypeNext == TypeOK /\ [Next]_vars => TypeOK'
<1> SUFFICES ASSUME TypeOK, [Next]_vars PROVE TypeOK'
  OBVIOUS
<1>1. CASE CancelParent
  BY <1>1 DEF CancelParent, TypeOK, stopVars, historyVars
<1>2. CASE UNCHANGED vars
  BY <1>2 DEF TypeOK, vars, poolVars, stopVars, historyVars
<1> QED
  BY <1>1, <1>2, TypeStart, TypeStop, TypeGoroutine DEF Next

(* Every value in the state has its type, and the mutex is held exactly by *)
(* the Start that creates goroutines.                                      *)
THEOREM TypeCorrect == Spec => []TypeOK
BY TypeInit, TypeNext, PTL DEF Spec

-----------------------------------------------------------------------------
(* The WaitGroup.  Whoever waits for it relies on what it counts, so the   *)
(* set of the goroutines that run is followed along with the counter; it   *)
(* is finite because it grows by one goroutine at a time.                  *)

Running == {g \in Goroutines : Alive(g)}

CountsRunning == IsFiniteSet(Running) /\ wg = Cardinality(Running)

(* Nothing runs at first.                                                  *)
LEMMA CountInit == Init => CountsRunning
<1> SUFFICES ASSUME Init PROVE CountsRunning
  OBVIOUS
<1>1. Running = {}
  BY DEF Init, Running, Alive
<1> QED
  BY <1>1, FS_EmptySet DEF Init, CountsRunning

(* A step that starts and ends no goroutine leaves the WaitGroup alone.    *)
LEMMA CountFrame ==
  ASSUME CountsRunning, wg' = wg, \A g \in Goroutines : Alive(g)' <=> Alive(g)
  PROVE  CountsRunning'
<1>1. Running' = Running
  BY DEF Running
<1> QED
  BY <1>1 DEF CountsRunning

(* The goroutine that starts was not counted.                              *)
LEMMA CountSpawn ==
  ASSUME TypeOK, CountsRunning, NEW s \in Starts, NEW w \in Workers, Spawn(s, w)
  PROVE  CountsRunning'
<1>1. /\ <<s, w>> \in Goroutines /\ gpc[<<s, w>>] = "none"
      /\ gpc' = [gpc EXCEPT ![<<s, w>>] = "loop"] /\ wg' = wg + 1
  BY DEF Spawn, Goroutines
<1>2. Running' = Running \cup {<<s, w>>} /\ <<s, w>> \notin Running
  BY <1>1 DEF Running, Alive, TypeOK
<1> QED
  BY <1>1, <1>2, FS_AddElement DEF CountsRunning

(* The goroutine that returns was counted.                                 *)
LEMMA CountExit ==
  ASSUME TypeOK, CountsRunning, NEW g \in Goroutines, Exit(g)
  PROVE  CountsRunning'
<1>1. gpc[g] = "loop" /\ gpc' = [gpc EXCEPT ![g] = "exited"] /\ wg' = wg - 1
  BY DEF Exit
<1>2. Running' = Running \ {g} /\ g \in Running
  BY <1>1 DEF Running, Alive, TypeOK
<1> QED
  BY <1>1, <1>2, FS_RemoveElement DEF CountsRunning

(* Every step keeps the count.                                             *)
LEMMA CountNext == TypeOK /\ CountsRunning /\ [Next]_vars => CountsRunning'
<1> SUFFICES ASSUME TypeOK, CountsRunning, [Next]_vars PROVE CountsRunning'
  OBVIOUS
<1>1. ASSUME NEW s \in Starts, NEW w \in Workers, Spawn(s, w) PROVE CountsRunning'
  BY <1>1, CountSpawn
<1>2. ASSUME NEW g \in Goroutines, Exit(g) PROVE CountsRunning'
  BY <1>2, CountExit
<1>3. ASSUME NEW g \in Goroutines,
             CallDequeue(g) \/ EndTask(g) \/ DequeueTask(g) \/ DequeueError(g)
      PROVE  CountsRunning'
  <2>1. /\ wg' = wg /\ gpc[g] \in {"loop", "dequeuing", "working"}
        /\ \E to \in {"loop", "dequeuing", "working"} : gpc' = [gpc EXCEPT ![g] = to]
    BY <1>3 DEF CallDequeue, EndTask, DequeueTask, DequeueError, GoOn, poolVars
  <2> QED
    BY <2>1, CountFrame DEF Alive, TypeOK
<1>4. CASE UNCHANGED <<wg, gpc>>
  BY <1>4, CountFrame DEF Alive
<1> QED
  BY <1>1, <1>2, <1>3, <1>4 DEF Next, StartStep, StartLock, StartReturn, CancelParent,
     StopStep, StopRead, StopCancel, StopWorker, StopWait, StopGraceful, StopTimeout,
     StopClear, Wait, Wake, LoopStep, vars, poolVars

(* The counter of the WaitGroup is the number of the goroutines that run,  *)
(* for any overlapping Starts and Stops; so no wg.Done makes it negative.  *)
THEOREM CounterCorrect == Spec => []CounterIsExact
<1>1. CountsRunning => CounterIsExact
  BY DEF CountsRunning, CounterIsExact, Running
<1> QED
  BY <1>1, CountInit, CountNext, TypeCorrect, PTL DEF Spec

-----------------------------------------------------------------------------
(* A stopped worker.  A goroutine took its last task when its worker was   *)
(* stopped before it was spawned or while it was in Dequeue; stopCh stays  *)
(* closed, so from then on it is in its loop or with that task.            *)

SpentIsStopped ==
    \A g \in spent : g[2] \in closed /\ gpc[g] \in {"loop", "working"}

(* At the start no goroutine exists.                                       *)
LEMMA SpentInit == Init => SpentIsStopped
BY DEF Init, SpentIsStopped

(* closed only grows, and the loop looks at it before every Dequeue.       *)
LEMMA SpentNext == TypeOK /\ SpentIsStopped /\ [Next]_vars => SpentIsStopped'
<1> SUFFICES ASSUME TypeOK, SpentIsStopped, [Next]_vars PROVE SpentIsStopped'
  OBVIOUS
<1> USE DEF SpentIsStopped, TypeOK
<1>1. ASSUME NEW s \in Starts, NEW w \in Workers, Spawn(s, w) PROVE SpentIsStopped'
  <2>1. <<s, w>> \in Goroutines /\ <<s, w>>[2] = w
    BY DEF Goroutines
  <2>2. /\ gpc' = [gpc EXCEPT ![<<s, w>>] = "loop"] /\ closed' = closed
        /\ spent' = IF w \in closed THEN spent \cup {<<s, w>>} ELSE spent
    BY <1>1 DEF Spawn
  <2> QED
    BY <2>1, <2>2
<1>2. ASSUME NEW g \in Goroutines, CallDequeue(g) PROVE SpentIsStopped'
  BY <1>2 DEF CallDequeue, Stopping, GoOn, poolVars, historyVars
<1>3. ASSUME NEW g \in Goroutines, DequeueTask(g) PROVE SpentIsStopped'
  BY <1>3 DEF DequeueTask, poolVars
<1>4. ASSUME NEW g \in Goroutines, DequeueError(g) \/ EndTask(g) PROVE SpentIsStopped'
  BY <1>4 DEF DequeueError, EndTask, GoOn, poolVars, historyVars
<1>5. ASSUME NEW g \in Goroutines, Exit(g) PROVE SpentIsStopped'
  BY <1>5 DEF Exit
<1>6. CASE UNCHANGED <<spent, gpc>> /\ closed \subseteq closed'
  BY <1>6
<1> QED
  BY <1>1, <1>2, <1>3, <1>4, <1>5, <1>6 DEF Next, StartStep, StartLock, StartReturn,
     CancelParent, StopStep, StopRead, StopCancel, StopWorker, StopWait, StopGraceful,
     StopTimeout, StopClear, Wait, Wake, LoopStep, vars, poolVars, historyVars

(* No goroutine of a stopped worker takes a task after its last one, not   *)
(* even that of a Start which follows the Stop.                            *)
THEOREM StoppedWorkersCorrect == Spec => []StoppedWorkersTakeNoMore
<1>1. SpentIsStopped => StoppedWorkersTakeNoMore
  BY DEF SpentIsStopped, StoppedWorkersTakeNoMore
<1> QED
  BY <1>1, SpentInit, SpentNext, TypeCorrect, PTL DEF Spec

-----------------------------------------------------------------------------
(* A graceful Stop.  A Stop is orderly while no Start has come after it,   *)
(* so that no Start is spawning and the goroutines that run get fewer      *)
(* only: once the waiter of an orderly Stop was woken the counter stays    *)
(* zero.                                                                   *)

NewHasNone ==
    \A s \in Starts : spc[s] = "new" => \A w \in Workers : gpc[<<s, w>>] = "none"

ReturnedHasAll ==
    \A s \in Starts : spc[s] = "returned" => \A w \in Workers : gpc[<<s, w>>] # "none"

OrderlyIsUnlocked == orderly # {} => mu = Nobody

WaitersFollowStops ==
    \A p \in Stops :
        /\ ppc[p] \in {"new", "cancelling", "closing"} => waiter[p] = "none"
        /\ p \in graceful => waiter[p] = "closed"

WokenIsQuiet ==
    \A p \in orderly : waiter[p] \in {"woken", "closed"} => wg = 0

StopIsFinal ==
    NewHasNone /\ ReturnedHasAll /\ OrderlyIsUnlocked /\ WaitersFollowStops /\ WokenIsQuiet

(* At the start there are no goroutines and no orderly Stops.              *)
LEMMA StopIsFinalInit == Init => StopIsFinal
<1> SUFFICES ASSUME Init PROVE StopIsFinal
  OBVIOUS
<1>1. NewHasNone
  BY DEF Init, NewHasNone, Goroutines
<1> QED
  BY <1>1 DEF Init, StopIsFinal, ReturnedHasAll, OrderlyIsUnlocked, WaitersFollowStops, WokenIsQuiet

(* With an orderly Stop every Start is new or has spawned all it will.     *)
LEMMA OrderlySpawnsNone ==
  ASSUME TypeOK, StopIsFinal, orderly # {}, NEW s \in Starts, NEW w \in Workers
  PROVE  ~Spawn(s, w)
<1>1. spc[s] # "spawning"
  BY DEF TypeOK, StopIsFinal, OrderlyIsUnlocked
<1>2. CASE spc[s] = "new"
  BY <1>2 DEF Spawn
<1>3. CASE spc[s] = "returned"
  BY <1>3 DEF Spawn, StopIsFinal, ReturnedHasAll
<1> QED
  BY <1>1, <1>2, <1>3 DEF TypeOK

(* The steps of Start: the first one makes every Stop disorderly, and no   *)
(* goroutine is spawned while one is orderly.                              *)
LEMMA StopIsFinalStart ==
  ASSUME TypeOK, StopIsFinal, NEW s \in Starts, StartStep(s)
  PROVE  StopIsFinal'
<1> USE DEF TypeOK, StopIsFinal, NewHasNone, ReturnedHasAll, OrderlyIsUnlocked,
            WaitersFollowStops, WokenIsQuiet, stopVars, historyVars
<1>1. CASE StartLock(s)
  BY <1>1 DEF StartLock
<1>2. ASSUME NEW w \in Workers, Spawn(s, w) PROVE StopIsFinal'
  <2>1. orderly = {}
    BY <1>2, OrderlySpawnsNone
  <2>2. /\ spc[s] # "new" /\ gpc' = [gpc EXCEPT ![<<s, w>>] = "loop"]
        /\ UNCHANGED <<mu, spc, ppc, waiter, graceful, orderly>>
    BY <1>2 DEF Spawn
  <2>3. \A x \in Starts, v \in Workers : <<x, v>> \in Goroutines
    BY DEF Goroutines
  <2>4. NewHasNone' /\ ReturnedHasAll'
    BY <2>2, <2>3
  <2> QED
    BY <2>1, <2>2, <2>4
<1>3. CASE StartReturn(s)
  BY <1>3 DEF StartReturn, AllSpawned, Unlock
<1> QED
  BY <1>1, <1>2, <1>3 DEF StartStep

(* The steps of Stop and its waiter: a Stop becomes orderly before it has  *)
(* a waiter, and a waiter that Wait or Wake closes has seen zero.          *)
LEMMA StopIsFinalStop ==
  ASSUME TypeOK, StopIsFinal, NEW p \in Stops, StopStep(p) \/ Wait(p) \/ Wake(p)
  PROVE  StopIsFinal'
<1> USE DEF TypeOK, StopIsFinal, NewHasNone, ReturnedHasAll, OrderlyIsUnlocked,
            WaitersFollowStops, WokenIsQuiet, Goto, poolVars, historyVars
<1>1. CASE StopRead(p)
  BY <1>1 DEF StopRead
<1>2. CASE StopCancel(p)
  BY <1>2 DEF StopCancel
<1>3. ASSUME NEW w \in Workers, StopWorker(p, w) PROVE StopIsFinal'
  BY <1>3 DEF StopWorker, stopVars
<1>4. CASE StopWait(p)
  BY <1>4 DEF StopWait
<1>5. CASE StopGraceful(p)
  BY <1>5 DEF StopGraceful
<1>6. CASE StopTimeout(p)
  BY <1>6 DEF StopTimeout
<1>7. CASE StopClear(p)
  BY <1>7 DEF StopClear
<1>8. CASE Wait(p)
  BY <1>8 DEF Wait
<1>9. CASE Wake(p)
  BY <1>9 DEF Wake
<1> QED
  BY <1>1, <1>2, <1>3, <1>4, <1>5, <1>6, <1>7, <1>8, <1>9 DEF StopStep

(* The steps of the goroutines: none of them runs when a waiter was woken, *)
(* and the one that wakes it is the last.                                  *)
LEMMA StopIsFinalGoroutine ==
  ASSUME TypeOK, CountsRunning, StopIsFinal, NEW g \in Goroutines,
         LoopStep(g) \/ DequeueTask(g) \/ DequeueError(g)
  PROVE  StopIsFinal'
<1> USE DEF TypeOK, StopIsFinal, OrderlyIsUnlocked, WaitersFollowStops, WokenIsQuiet
<1>1. /\ gpc[g] # "none" /\ UNCHANGED <<mu, spc, ppc, graceful, orderly>>
      /\ \E to \in {"loop", "dequeuing", "working", "exited"} : gpc' = [gpc EXCEPT ![g] = to]
  BY DEF LoopStep, CallDequeue, EndTask, Exit, DequeueTask, DequeueError, GoOn, poolVars,
         stopVars, historyVars
<1>2. \A h \in Goroutines : gpc'[h] = "none" <=> gpc[h] = "none"
  BY <1>1
<1>3. NewHasNone' /\ ReturnedHasAll'
  <2>1. \A x \in Starts, v \in Workers : <<x, v>> \in Goroutines
    BY DEF Goroutines
  <2> QED
    BY <1>1, <1>2, <2>1 DEF NewHasNone, ReturnedHasAll
<1>4. CASE Exit(g)
  <2>1. wg # 0
    <3>1. g \in Running
      BY <1>4 DEF Exit, Running, Alive
    <3> QED
      BY <3>1, FS_EmptySet DEF CountsRunning
  <2>2. /\ wg' = wg - 1
        /\ waiter' = [p \in Stops |-> IF wg = 1 /\ waiter[p] = "waiting" THEN "woken"
                                                                        ELSE waiter[p]]
    BY <1>4 DEF Exit
  <2>3. \A p \in Stops : /\ waiter[p] # "waiting" => waiter'[p] = waiter[p]
                         /\ waiter'[p] = "woken" => waiter[p] = "woken" \/ wg = 1
                         /\ waiter'[p] = "closed" => waiter[p] = "closed"
    BY <2>2
  <2>4. WaitersFollowStops'
    BY <1>1, <2>3
  <2>5. WokenIsQuiet'
    BY <1>1, <2>1, <2>2, <2>3
  <2> QED
    BY <1>1, <1>3, <2>4, <2>5
<1>5. CASE ~Exit(g)
  <2>1. UNCHANGED <<waiter, wg>>
    BY <1>5 DEF LoopStep, CallDequeue, EndTask, DequeueTask, DequeueError, GoOn, poolVars,
       stopVars
  <2> QED
    BY <1>1, <1>3, <2>1
<1> QED
  BY <1>4, <1>5

(* Every step keeps the strengthening.                                     *)
LEMMA StopIsFinalNext == TypeOK /\ CountsRunning /\ StopIsFinal /\ [Next]_vars => StopIsFinal'
<1> SUFFICES ASSUME TypeOK, CountsRunning, StopIsFinal, [Next]_vars PROVE StopIsFinal'
  OBVIOUS
<1>1. CASE UNCHANGED <<mu, wg, spc, ppc, waiter, gpc, graceful, orderly>>
  BY <1>1 DEF StopIsFinal, NewHasNone, ReturnedHasAll, OrderlyIsUnlocked, WaitersFollowStops,
     WokenIsQuiet
<1> QED
  BY <1>1, StopIsFinalStart, StopIsFinalStop, StopIsFinalGoroutine DEF Next, CancelParent, vars,
     poolVars, stopVars, historyVars

(* Both invariants together hold in every reachable state.                 *)
LEMMA StopIsFinalCorrect == Spec => [](CountsRunning /\ StopIsFinal)
BY CountInit, CountNext, StopIsFinalInit, StopIsFinalNext, TypeCorrect, PTL DEF Spec

(* A Stop after the last Start that ends before its timeout leaves no      *)
(* goroutine of a worker behind.                                           *)
THEOREM GracefulStopCorrect == Spec => []GracefulStopIsQuiet
<1>1. TypeOK /\ CountsRunning /\ StopIsFinal => GracefulStopIsQuiet
  <2> SUFFICES ASSUME TypeOK, CountsRunning, StopIsFinal, NEW p \in graceful \cap orderly
               PROVE  \A g \in Goroutines : ~Alive(g)
    BY DEF GracefulStopIsQuiet
  <2>1. wg = 0
    BY DEF TypeOK, StopIsFinal, WaitersFollowStops, WokenIsQuiet
  <2>2. Running = {}
    BY <2>1, FS_EmptySet DEF CountsRunning
  <2> QED
    BY <2>2 DEF Running
<1> QED
  BY <1>1, TypeCorrect, StopIsFinalCorrect, PTL

-----------------------------------------------------------------------------
(* No panic.  A woken waiter panics when the counter is not zero again.    *)
(* While a Start holds the mutex no Stop begins, so that the Stops which   *)
(* are not over were crossed by that Start, and only theirs meet a         *)
(* goroutine that it adds; the counter stays zero for the others.          *)

LockedIsCrossed == mu # Nobody => Unfinished \subseteq crossed

UncrossedWokeAtZero == \A p \in Stops \ crossed : waiter[p] = "woken" => wg = 0

Crossing == LockedIsCrossed /\ UncrossedWokeAtZero /\ OnlyCrossedStopsPanic

(* At the start no Stop was called and the process lives.                  *)
LEMMA CrossingInit == Init => Crossing
BY DEF Init, Crossing, LockedIsCrossed, UncrossedWokeAtZero, OnlyCrossedStopsPanic

(* The steps of Start: it crosses what is not over as it takes the mutex,  *)
(* and spawns only while it holds the mutex.                               *)
LEMMA CrossingStart ==
  ASSUME TypeOK, StopIsFinal, Crossing, ~panicked, NEW s \in Starts, StartStep(s)
  PROVE  Crossing'
<1> USE DEF TypeOK, Crossing, LockedIsCrossed, UncrossedWokeAtZero, OnlyCrossedStopsPanic,
            Unfinished, stopVars, historyVars
<1>1. CASE StartLock(s)
  BY <1>1 DEF StartLock
<1>2. ASSUME NEW w \in Workers, Spawn(s, w) PROVE Crossing'
  <2>1. spc[s] = "spawning"
    BY <1>2 DEF Spawn, StopIsFinal, ReturnedHasAll
  <2>2. mu # Nobody
    BY <2>1
  <2>3. UNCHANGED <<mu, ppc, waiter, crossed, panicked>>
    BY <1>2 DEF Spawn
  <2> QED
    BY <2>2, <2>3
<1>3. CASE StartReturn(s)
  BY <1>3 DEF StartReturn, Unlock
<1> QED
  BY <1>1, <1>2, <1>3 DEF StartStep

(* The steps of Stop and its waiter: none begins while the mutex is held,  *)
(* and a woken waiter that was not crossed finds zero.                     *)
LEMMA CrossingStop ==
  ASSUME TypeOK, StopIsFinal, Crossing, ~panicked,
         NEW p \in Stops, StopStep(p) \/ Wait(p) \/ Wake(p)
  PROVE  Crossing'
<1> USE DEF TypeOK, Crossing, LockedIsCrossed, UncrossedWokeAtZero, OnlyCrossedStopsPanic,
            Unfinished, Goto, poolVars, historyVars
<1>1. CASE StopRead(p)
  BY <1>1 DEF StopRead
<1>2. CASE StopCancel(p)
  BY <1>2 DEF StopCancel
<1>3. ASSUME NEW w \in Workers, StopWorker(p, w) PROVE Crossing'
  BY <1>3 DEF StopWorker, stopVars
<1>4. CASE StopWait(p)
  BY <1>4 DEF StopWait
<1>5. CASE StopGraceful(p)
  BY <1>5 DEF StopGraceful
<1>6. CASE StopTimeout(p)
  BY <1>6 DEF StopTimeout
<1>7. CASE StopClear(p)
  BY <1>7 DEF StopClear
<1>8. CASE Wait(p)
  BY <1>8 DEF Wait
<1>9. CASE Wake(p)
  BY <1>9 DEF Wake
<1> QED
  BY <1>1, <1>2, <1>3, <1>4, <1>5, <1>6, <1>7, <1>8, <1>9 DEF StopStep

(* The steps of the goroutines: the last exit wakes the waiters at zero.   *)
LEMMA CrossingGoroutine ==
  ASSUME TypeOK, CountsRunning, Crossing, ~panicked,
         NEW g \in Goroutines, LoopStep(g) \/ DequeueTask(g) \/ DequeueError(g)
  PROVE  Crossing'
<1> USE DEF TypeOK, Crossing, LockedIsCrossed, UncrossedWokeAtZero, OnlyCrossedStopsPanic,
            Unfinished
<1>1. UNCHANGED <<mu, ppc, crossed, panicked>>
  BY DEF LoopStep, CallDequeue, EndTask, Exit, DequeueTask, DequeueError, GoOn, poolVars,
         stopVars, historyVars
<1>2. CASE Exit(g)
  <2>1. wg # 0
    <3>1. g \in Running
      BY <1>2 DEF Exit, Running, Alive
    <3> QED
      BY <3>1, FS_EmptySet DEF CountsRunning
  <2>2. /\ wg' = wg - 1
        /\ waiter' = [p \in Stops |-> IF wg = 1 /\ waiter[p] = "waiting" THEN "woken"
                                                                        ELSE waiter[p]]
    BY <1>2 DEF Exit
  <2>3. \A p \in Stops : /\ waiter'[p] = "woken" => waiter[p] = "woken" \/ wg = 1
                         /\ waiter[p] \in {"none", "closed"} => waiter'[p] = waiter[p]
    BY <2>2
  <2>4. UncrossedWokeAtZero'
    BY <1>1, <2>1, <2>2, <2>3
  <2>5. Unfinished' \subseteq Unfinished
    BY <1>1, <2>3
  <2>6. LockedIsCrossed'
    BY <1>1, <2>5 DEF LockedIsCrossed
  <2> QED
    BY <1>1, <2>4, <2>6
<1>3. CASE ~Exit(g)
  <2>1. UNCHANGED <<waiter, wg>>
    BY <1>3 DEF LoopStep, CallDequeue, EndTask, DequeueTask, DequeueError, GoOn, poolVars,
       stopVars
  <2> QED
    BY <1>1, <2>1
<1> QED
  BY <1>2, <1>3

(* Every step keeps the strengthening; a dead process takes none.          *)
LEMMA CrossingNext ==
  TypeOK /\ CountsRunning /\ StopIsFinal /\ Crossing /\ [Next]_vars => Crossing'
<1> SUFFICES ASSUME TypeOK, CountsRunning, StopIsFinal, Crossing, [Next]_vars PROVE Crossing'
  OBVIOUS
<1>1. CASE UNCHANGED <<mu, wg, ppc, waiter, crossed, panicked>>
  BY <1>1 DEF Crossing, LockedIsCrossed, UncrossedWokeAtZero, OnlyCrossedStopsPanic, Unfinished
<1> QED
  BY <1>1, CrossingStart, CrossingStop, CrossingGoroutine DEF Next, CancelParent, vars, poolVars,
     stopVars, historyVars

(* A Stop that no Start crosses, from its first line to the end of the     *)
(* goroutine that waits for it, never panics: whatever Starts, Stops and   *)
(* timeouts came before it, and for any number of calls and workers.       *)
THEOREM OnlyCrossedCorrect == Spec => []OnlyCrossedStopsPanic
<1>1. Crossing => OnlyCrossedStopsPanic
  BY DEF Crossing
<1> QED
  BY <1>1, CrossingInit, CrossingNext, TypeCorrect, StopIsFinalCorrect, PTL DEF Spec

-----------------------------------------------------------------------------
(* The only Start is cancelled.  Several Stops share one cancelFn, and the *)
(* first to return clears it; each of them has read it, or comes after one *)
(* that has called it.                                                     *)

(* The Start s is the only one that was called.                            *)
Lone(s) == {x \in Starts : spc[x] # "new"} = {s}

CancelledOrHeld ==
    OrderlyUse => \A s \in Starts : Lone(s) =>
        /\ s \in cancelled \/ cancelFn = s
        /\ \A p \in Stops :
              /\ ppc[p] = "cancelling" => s \in cancelled \/ fn[p] = s
              /\ ppc[p] \in {"closing", "waiting", "clearing", "returned"} => s \in cancelled

(* At the start no Start was called.                                       *)
LEMMA CancelInit == Init => CancelledOrHeld
BY DEF Init, CancelledOrHeld, Lone

(* Every step keeps the cancel function, or has called it.                 *)
LEMMA CancelNext == TypeOK /\ CancelledOrHeld /\ [Next]_vars => CancelledOrHeld'
<1> SUFFICES ASSUME TypeOK, CancelledOrHeld, [Next]_vars, OrderlyUse',
                    NEW s \in Starts, Lone(s)'
             PROVE  /\ s \in cancelled' \/ cancelFn' = s
                    /\ \A p \in Stops :
                          /\ ppc'[p] = "cancelling" => s \in cancelled' \/ fn'[p] = s
                          /\ ppc'[p] \in {"closing", "waiting", "clearing", "returned"} =>
                                s \in cancelled'
  BY DEF CancelledOrHeld
<1> USE DEF TypeOK
<1>1. ASSUME NEW x \in Starts, StartLock(x) PROVE cancelFn' = s /\ \A p \in Stops : ppc'[p] = "new"
  <2>1. x = s /\ cancelFn' = x
    BY <1>1 DEF StartLock, Lone
  <2>2. \A p \in Stops : ppc'[p] = "new"
    BY <1>1 DEF StartLock, OrderlyUse
  <2> QED
    BY <2>1, <2>2
<1>2. ASSUME \A x \in Starts : spc'[x] = "new" <=> spc[x] = "new" PROVE Lone(s)
  BY <1>2 DEF Lone
<1>3. ASSUME \A p \in Stops : ppc'[p] = "new" <=> ppc[p] = "new", orderly' = orderly
      PROVE  OrderlyUse
  BY <1>3 DEF OrderlyUse
<1>4. ASSUME NEW p \in Stops, StopRead(p) PROVE OrderlyUse /\ Lone(s)
  <2>1. \A q \in Stops : ppc[q] # "new" => q \in orderly
    BY <1>4 DEF StopRead, Goto, OrderlyUse
  <2> QED
    BY <1>2, <1>4, <2>1 DEF StopRead, OrderlyUse
<1> DEFINE Held == /\ s \in cancelled \/ cancelFn = s
                   /\ \A p \in Stops :
                         /\ ppc[p] = "cancelling" => s \in cancelled \/ fn[p] = s
                         /\ ppc[p] \in {"closing", "waiting", "clearing", "returned"} =>
                               s \in cancelled
<1>5. ASSUME OrderlyUse, Lone(s) PROVE Held
  BY <1>5 DEF CancelledOrHeld
<1> HIDE DEF Held
<1>6. ASSUME NEW p \in Stops, StopRead(p) PROVE Held'
  <2>1. Held
    BY <1>4, <1>5, <1>6
  <2> QED
    BY <1>6, <2>1 DEF StopRead, Keep, Goto, Held
<1>7. ASSUME NEW p \in Stops, StopStep(p), ~StopRead(p) PROVE Held'
  <2>1. Held
    <3>1. /\ orderly' = orderly /\ spc' = spc
          /\ \A q \in Stops : ppc'[q] = "new" <=> ppc[q] = "new"
      BY <1>7 DEF StopStep, StopCancel, StopWorker, StopWait, StopGraceful, StopTimeout,
         StopClear, Goto, poolVars, stopVars, historyVars
    <3> QED
      BY <1>2, <1>3, <1>5, <3>1
  <2> USE DEF Held, Goto, poolVars, stopVars
  <2>2. CASE StopCancel(p)
    BY <2>1, <2>2 DEF StopCancel
  <2>3. ASSUME NEW w \in Workers, StopWorker(p, w) PROVE Held'
    BY <2>1, <2>3 DEF StopWorker
  <2>4. CASE StopWait(p)
    BY <2>1, <2>4 DEF StopWait
  <2>5. CASE StopGraceful(p)
    BY <2>1, <2>5 DEF StopGraceful
  <2>6. CASE StopTimeout(p)
    BY <2>1, <2>6 DEF StopTimeout
  <2>7. CASE StopClear(p)
    BY <2>1, <2>7 DEF StopClear
  <2> QED
    BY <1>7, <2>2, <2>3, <2>4, <2>5, <2>6, <2>7 DEF StopStep
<1>8. ASSUME UNCHANGED <<cancelFn, ppc, fn, orderly>>, cancelled \subseteq cancelled',
             \A x \in Starts : spc'[x] = "new" <=> spc[x] = "new"
      PROVE  Held'
  BY <1>2, <1>3, <1>5, <1>8 DEF Held
<1>9. ASSUME NEW x \in Starts, StartStep(x), ~StartLock(x) PROVE Held'
  BY <1>8, <1>9 DEF StartStep, Spawn, StartReturn, stopVars, historyVars
<1>10. ASSUME CancelParent PROVE Held'
  BY <1>8, <1>10 DEF CancelParent, stopVars, historyVars
<1>11. ASSUME NEW p \in Stops, Wait(p) \/ Wake(p) PROVE Held'
  BY <1>8, <1>11 DEF Wait, Wake, poolVars, historyVars
<1>12. ASSUME NEW g \in Goroutines, LoopStep(g) \/ DequeueTask(g) \/ DequeueError(g) PROVE Held'
  BY <1>8, <1>12 DEF LoopStep, CallDequeue, EndTask, Exit, DequeueTask, DequeueError, GoOn,
     poolVars, stopVars, historyVars
<1>13. ASSUME UNCHANGED vars PROVE Held'
  BY <1>8, <1>13 DEF vars, poolVars, stopVars, historyVars
<1>14. ASSUME NEW x \in Starts, StartLock(x) PROVE Held'
  BY <1>1, <1>14 DEF Held
<1>15. Held'
  BY <1>6, <1>7, <1>9, <1>10, <1>11, <1>12, <1>13, <1>14 DEF Next
<1> QED
  BY <1>15 DEF Held

(* When the only Start was followed by its Stops, the first of them to     *)
(* return has made sure that no worker runs on with a live context.        *)
THEOREM OnlyStartCorrect == Spec => []OnlyStartIsCancelled
<1>1. TypeOK /\ StopIsFinal /\ CancelledOrHeld => OnlyStartIsCancelled
  <2> SUFFICES ASSUME TypeOK, StopIsFinal, CancelledOrHeld, OneStart, OrderlyUse,
                      NEW p \in Stops, ppc[p] = "returned",
                      NEW g \in Goroutines, Alive(g)
               PROVE  g[1] \in cancelled
    BY DEF OnlyStartIsCancelled
  <2>1. PICK s : {x \in Starts : spc[x] # "new"} = {s}
    <3>1. {x \in Starts : spc[x] # "new"} \in SUBSET Starts /\ IsFiniteSet(Starts)
      OBVIOUS
    <3>2. IsFiniteSet({x \in Starts : spc[x] # "new"})
      BY <3>1, FS_Subset
    <3> QED
      BY <3>2, FS_Singleton DEF OneStart
  <2>2. s \in Starts /\ Lone(s)
    BY <2>1 DEF Lone
  <2>3. s \in cancelled
    BY <2>2 DEF CancelledOrHeld
  <2>4. g[1] \in Starts /\ g[2] \in Workers /\ g = <<g[1], g[2]>>
    BY DEF Goroutines
  <2>5. spc[g[1]] # "new"
    BY <2>4 DEF StopIsFinal, NewHasNone, Alive
  <2> QED
    BY <2>1, <2>3, <2>4, <2>5
<1> QED
  BY <1>1, CancelInit, CancelNext, TypeCorrect, StopIsFinalCorrect, PTL DEF Spec

=============================================================================
