------------------------------ MODULE WorkerPool ------------------------------
(***************************************************************************)
(* The life of the worker pool (tasks/workers): calls of Start and Stop    *)
(* from any number of goroutines, the goroutines of the workers, and the   *)
(* WaitGroup and the contexts that connect them.                           *)
(*                                                                         *)
(*  - The mutex covers Start but only the first and last lines of Stop.    *)
(*  - Every Start makes one goroutine per worker and overwrites cancelFn.  *)
(*  - Stop waits in a goroutine of its own, which outlives a Stop that     *)
(*    gives up after shutdownTimeout.                                      *)
(*  - A woken WaitGroup.Wait panics, and with it the process, when the     *)
(*    counter is no longer zero.                                           *)
(*                                                                         *)
(* What a worker does with the task it takes is AsyncExecution.            *)
(***************************************************************************)
EXTENDS Integers, FiniteSets

CONSTANTS
    Workers,    \* the Worker objects of the pool
    Starts,     \* the calls of Start, each with the context it derives
    Stops,      \* the calls of Stop
    Nobody      \* neither a Start nor a Stop

ASSUME PoolAssumption ==
    /\ IsFiniteSet(Workers)
    /\ IsFiniteSet(Starts)
    /\ Nobody \notin Starts

VARIABLES
    mu,         \* the Start that holds the pool's mutex
    cancelFn,   \* the Start whose cancel function the pool keeps
    cancelled,  \* the Starts whose context is done
    closed,     \* the workers whose stopCh is closed
    wg,         \* the counter of the WaitGroup
    spc,        \* where each Start is
    ppc,        \* where each Stop is
    fn,         \* the cancel function it read
    waiter,     \* the goroutine it waits with
    gpc,        \* where each worker's goroutine of each Start is
    graceful,   \* the Stops whose wait ended before the timeout
    orderly,    \* history: the Stops called after the last Start returned
    crossed,    \* history: the Stops that were not over when a Start came
    spent,      \* history: the goroutines that live and took their last task
    panicked    \* the process died of a panic

poolVars == <<mu, cancelFn, cancelled, closed, wg>>
stopVars == <<ppc, fn, waiter, graceful>>
historyVars == <<orderly, crossed, spent>>
vars == <<poolVars, spc, stopVars, gpc, historyVars, panicked>>

Goroutines == Starts \X Workers

Init ==
    /\ mu = Nobody /\ cancelFn = Nobody
    /\ cancelled = {} /\ closed = {}
    /\ wg = 0
    /\ spc = [s \in Starts |-> "new"]
    /\ ppc = [p \in Stops |-> "new"]
    /\ fn = [p \in Stops |-> Nobody]
    /\ waiter = [p \in Stops |-> "none"]
    /\ gpc = [g \in Goroutines |-> "none"]
    /\ graceful = {} /\ orderly = {} /\ crossed = {} /\ spent = {}
    /\ panicked = FALSE

-----------------------------------------------------------------------------
(* Start, under the mutex.                                                 *)

(* A Stop that was called and has not returned, or whose goroutine waits.  *)
Unfinished == {p \in Stops : \/ ppc[p] \notin {"new", "returned"}
                             \/ waiter[p] \notin {"none", "closed"}}

StartLock(s) ==
    /\ spc[s] = "new" /\ mu = Nobody
    /\ mu' = s
    /\ cancelFn' = s
    /\ spc' = [spc EXCEPT ![s] = "spawning"]
    /\ orderly' = {}
    /\ crossed' = crossed \cup Unfinished
    /\ UNCHANGED <<cancelled, closed, wg, stopVars, gpc, spent, panicked>>

(* Variant: wg.Add is forgotten.                                           *)
SpawnUncounted(s, w) ==
    /\ spc[s] # "new" /\ gpc[<<s, w>>] = "none"
    /\ gpc' = [gpc EXCEPT ![<<s, w>>] = "loop"]
    /\ UNCHANGED <<poolVars, spc, stopVars, historyVars, panicked>>

(* wg.Add and the go statement, for one worker after the other.            *)
Spawn(s, w) ==
    /\ spc[s] # "new" /\ gpc[<<s, w>>] = "none"
    /\ wg' = wg + 1
    /\ gpc' = [gpc EXCEPT ![<<s, w>>] = "loop"]
    /\ spent' = IF w \in closed THEN spent \cup {<<s, w>>} ELSE spent
    /\ UNCHANGED <<mu, cancelFn, cancelled, closed, spc, stopVars, orderly, crossed, panicked>>

(* Variants: Start returns while its loop runs; Start keeps the mutex.     *)
InBackground(s) == TRUE
KeepLocked == mu' = mu

AllSpawned(s) == \A w \in Workers : gpc[<<s, w>>] # "none"

Unlock == mu' = Nobody

StartReturn(s) ==
    /\ spc[s] = "spawning" /\ AllSpawned(s)
    /\ Unlock
    /\ spc' = [spc EXCEPT ![s] = "returned"]
    /\ UNCHANGED <<cancelFn, cancelled, closed, wg, stopVars, gpc, historyVars, panicked>>

StartStep(s) == StartLock(s) \/ (\E w \in Workers : Spawn(s, w)) \/ StartReturn(s)

(* The application cancels the context it passed to Start.                 *)
CancelParent ==
    /\ cancelled # Starts
    /\ cancelled' = Starts
    /\ UNCHANGED <<mu, cancelFn, closed, wg, spc, stopVars, gpc, historyVars, panicked>>

-----------------------------------------------------------------------------
(* Stop.                                                                   *)

Goto(p, from, to) == ppc[p] = from /\ ppc' = [ppc EXCEPT ![p] = to]

(* Variant: the cancel function is taken out of the pool as it is read.    *)
Take == cancelFn' = Nobody

Keep == cancelFn' = cancelFn

(* The cancel function is read under the mutex ...                         *)
StopRead(p) ==
    /\ mu = Nobody
    /\ Goto(p, "new", "cancelling")
    /\ fn' = [fn EXCEPT ![p] = cancelFn]
    /\ Keep
    /\ orderly' = IF \E s \in Starts : spc[s] = "returned" THEN orderly \cup {p} ELSE orderly
    /\ UNCHANGED <<mu, cancelled, closed, wg, spc, waiter, gpc, graceful, crossed, spent, panicked>>

(* ... and called without it, when there is one; it is not used again.     *)
StopCancel(p) ==
    /\ Goto(p, "cancelling", "closing")
    /\ cancelled' = IF fn[p] = Nobody THEN cancelled ELSE cancelled \cup {fn[p]}
    /\ fn' = [fn EXCEPT ![p] = Nobody]
    /\ UNCHANGED <<mu, cancelFn, closed, wg, spc, waiter, gpc, graceful, historyVars, panicked>>

(* worker.Stop, for one worker after the other; stopOnce closes once.      *)
StopWorker(p, w) ==
    /\ ppc[p] = "closing" /\ w \notin closed
    /\ closed' = closed \cup {w}
    /\ UNCHANGED <<mu, cancelFn, cancelled, wg, spc, stopVars, gpc, historyVars, panicked>>

StopWait(p) ==
    /\ closed = Workers
    /\ Goto(p, "closing", "waiting")
    /\ waiter' = [waiter EXCEPT ![p] = "spawned"]
    /\ UNCHANGED <<poolVars, spc, fn, gpc, graceful, historyVars, panicked>>

StopGraceful(p) ==
    /\ waiter[p] = "closed"
    /\ Goto(p, "waiting", "clearing")
    /\ graceful' = graceful \cup {p}
    /\ UNCHANGED <<poolVars, spc, fn, waiter, gpc, historyVars, panicked>>

(* Variant: Stop waits as long as it takes.                                *)
NoTimeout(p) == FALSE /\ UNCHANGED vars

(* shutdownTimeout passes.                                                 *)
StopTimeout(p) ==
    /\ Goto(p, "waiting", "clearing")
    /\ UNCHANGED <<poolVars, spc, fn, waiter, gpc, graceful, historyVars, panicked>>

StopClear(p) ==
    /\ mu = Nobody
    /\ Goto(p, "clearing", "returned")
    /\ cancelFn' = Nobody
    /\ UNCHANGED <<mu, cancelled, closed, wg, spc, fn, waiter, gpc, graceful, historyVars, panicked>>

StopStep(p) ==
    \/ StopRead(p) \/ StopCancel(p) \/ StopWait(p) \/ StopGraceful(p) \/ StopTimeout(p)
    \/ StopClear(p)
    \/ \E w \in Workers : StopWorker(p, w)

(* WaitGroup.Wait returns at once or joins those that wait ...             *)
Wait(p) ==
    /\ waiter[p] = "spawned"
    /\ waiter' = [waiter EXCEPT ![p] = IF wg = 0 THEN "closed" ELSE "waiting"]
    /\ UNCHANGED <<poolVars, spc, ppc, fn, gpc, graceful, historyVars, panicked>>

(* ... and, once woken, panics when the WaitGroup is in use again.         *)
Wake(p) ==
    /\ waiter[p] = "woken"
    /\ IF wg = 0
         THEN waiter' = [waiter EXCEPT ![p] = "closed"] /\ UNCHANGED panicked
         ELSE panicked' = TRUE /\ UNCHANGED waiter
    /\ UNCHANGED <<poolVars, spc, ppc, fn, gpc, graceful, historyVars>>

-----------------------------------------------------------------------------
(* The goroutine g = <<start, worker>> of a worker: Worker.Start.          *)

(* Variant: the loop looks at the context only.                            *)
CancelledOnly(g) == g[1] \in cancelled

Stopping(g) == g[1] \in cancelled \/ g[2] \in closed

GoOn(g, from, to) ==
    /\ gpc[g] = from
    /\ gpc' = [gpc EXCEPT ![g] = to]
    /\ UNCHANGED <<poolVars, spc, stopVars, historyVars, panicked>>

(* The default case of the select, when no other case is ready.            *)
CallDequeue(g) == ~Stopping(g) /\ GoOn(g, "loop", "dequeuing")

(* Dequeue returns a task, or an error (of the connection, or because the  *)
(* context is done, which go-redis does not notice while BRPOP blocks).    *)
DequeueTask(g) ==
    /\ gpc[g] = "dequeuing"
    /\ gpc' = [gpc EXCEPT ![g] = "working"]
    /\ spent' = IF g[2] \in closed THEN spent \cup {g} ELSE spent
    /\ UNCHANGED <<poolVars, spc, stopVars, orderly, crossed, panicked>>

DequeueError(g) == GoOn(g, "dequeuing", "loop")

(* Every path of processNextTask after Dequeue ends in the loop.           *)
EndTask(g) == GoOn(g, "working", "loop")

(* The goroutine returns; the last wg.Done wakes those that wait.          *)
Exit(g) ==
    /\ gpc[g] = "loop" /\ Stopping(g)
    /\ gpc' = [gpc EXCEPT ![g] = "exited"]
    /\ wg' = wg - 1
    /\ waiter' = [p \in Stops |-> IF wg = 1 /\ waiter[p] = "waiting" THEN "woken"
                                                                    ELSE waiter[p]]
    /\ spent' = spent \ {g}
    /\ UNCHANGED <<mu, cancelFn, cancelled, closed, spc, ppc, fn, graceful, orderly, crossed, panicked>>

LoopStep(g) == CallDequeue(g) \/ EndTask(g) \/ Exit(g)

-----------------------------------------------------------------------------
Next ==
    /\ ~panicked
    /\ \/ \E s \in Starts : StartStep(s)
       \/ CancelParent
       \/ \E p \in Stops : StopStep(p) \/ Wait(p) \/ Wake(p)
       \/ \E g \in Goroutines : LoopStep(g) \/ DequeueTask(g) \/ DequeueError(g)

Spec == Init /\ [][Next]_vars

(* Calls that were made and goroutines run, handlers return and timers     *)
(* fire.  Nobody has to call Start or Stop, and Dequeue may block for ever.*)
Fairness ==
    /\ \A s \in Starts : WF_vars(~panicked /\ spc[s] # "new" /\ StartStep(s))
    /\ \A p \in Stops : WF_vars(~panicked /\ ppc[p] # "new" /\ StopStep(p))
    /\ \A p \in Stops : WF_vars(~panicked /\ (Wait(p) \/ Wake(p)))
    /\ \A g \in Goroutines : WF_vars(~panicked /\ LoopStep(g))

FairSpec == Spec /\ Fairness

-----------------------------------------------------------------------------
(* What is promised.                                                       *)

(* The shape of the state; the mutex is held exactly by the Start that     *)
(* creates goroutines.                                                     *)
TypeOK ==
    /\ mu \in Starts \cup {Nobody}
    /\ cancelFn \in Starts \cup {Nobody}
    /\ cancelled \subseteq Starts
    /\ closed \subseteq Workers
    /\ wg \in Int
    /\ spc \in [Starts -> {"new", "spawning", "returned"}]
    /\ \A s \in Starts : spc[s] = "spawning" <=> mu = s
    /\ ppc \in [Stops -> {"new", "cancelling", "closing", "waiting", "clearing", "returned"}]
    /\ fn \in [Stops -> Starts \cup {Nobody}]
    /\ waiter \in [Stops -> {"none", "spawned", "waiting", "woken", "closed"}]
    /\ gpc \in [Goroutines -> {"none", "loop", "dequeuing", "working", "exited"}]
    /\ graceful \subseteq Stops
    /\ orderly \subseteq Stops
    /\ crossed \subseteq Stops
    /\ spent \subseteq Goroutines
    /\ panicked \in BOOLEAN

Alive(g) == gpc[g] \notin {"none", "exited"}

(* The WaitGroup counts the goroutines that run, however Starts, Stops and *)
(* exits interleave: its counter is never negative, which would panic.     *)
CounterIsExact == wg = Cardinality({g \in Goroutines : Alive(g)})

(* "worker pool stopped gracefully" (pool.go:99): a Stop that was called   *)
(* after the last Start returned and that did not time out leaves no       *)
(* goroutine of any Start, so no task is taken or half done after it.      *)
GracefulStopIsQuiet ==
    \A p \in graceful \cap orderly : \A g \in Goroutines : ~Alive(g)

(* Every call of Stop so far came after the last Start had returned.       *)
OrderlyUse == \A p \in Stops : ppc[p] # "new" => p \in orderly

(* Called after the only Start, every Stop that returns, of several that   *)
(* overlap and clear cancelFn for each other, has seen to it that the      *)
(* context of the workers is done, even if it timed out.  (A Stop that     *)
(* began before Start clears the cancelFn of the Start, pool.go:109-112.)  *)
OneStart == Cardinality({s \in Starts : spc[s] # "new"}) = 1

OnlyStartIsCancelled ==
    (OneStart /\ OrderlyUse /\ \E p \in Stops : ppc[p] = "returned") =>
        \A g \in Goroutines : Alive(g) => g[1] \in cancelled

(* It takes a Start to make a Stop panic: one that is called after the     *)
(* Stop and before the goroutine which waits for the Stop has ended (the   *)
(* caller of a Stop that timed out cannot tell, pool.go:90-107).  All      *)
(* others are safe, however many Stops overlap and time out, and whether   *)
(* they follow one Start, several, or a restart.                           *)
OnlyCrossedStopsPanic == panicked => \E p \in crossed : waiter[p] = "woken"

(* worker.Stop is final: a goroutine takes at most one more task, that of  *)
(* a Dequeue it was in already, and the goroutines of a Start that follows *)
(* a Stop take none at all, because stopCh stays closed (worker.go:73).    *)
(* No goroutine that has taken its last task asks for another.             *)
StoppedWorkersTakeNoMore == \A g \in spent : gpc[g] # "dequeuing"

(* A goroutine whose worker was stopped, and that is not in Dequeue, ends, *)
(* even when its context is live because no Stop cancelled its Start.      *)
StoppedWorkersExit ==
    \A g \in Goroutines :
        (g[2] \in closed /\ gpc[g] \in {"loop", "working"})
            ~> (gpc[g] = "exited" \/ panicked)

(* A call of Stop returns although Dequeue may block for ever and ignore   *)
(* its context (pool.go:97-107).                                           *)
StopReturns ==
    \A p \in Stops : ppc[p] = "cancelling" ~> (ppc[p] = "returned" \/ panicked)

(* pool.go:69: Stop gracefully shuts down all workers, so none of them is  *)
(* left behind with a context that nobody can cancel any more.             *)
StopReachesEveryWorker ==
    \A p \in orderly : ppc[p] = "returned" =>
        \A g \in Goroutines : Alive(g) => g[1] \in cancelled

(* pool_test.go:372: if we get here without panic, the pool handled        *)
(* concurrency correctly; Start and Stop are called concurrently.          *)
NeverPanics == ~panicked
=============================================================================
