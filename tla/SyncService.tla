----------------------------- MODULE SyncService -----------------------------
(***************************************************************************)
(* The program that cmd/task-orchestrator/main.go wires (V1): an HTTP      *)
(* server whose /submit handler executes the task before it answers, the   *)
(* in-memory store, polling by /tasks/{id}/status, and the shutdown of the *)
(* process while submissions are being executed.                           *)
(*                                                                         *)
(* The goroutine of a submission is the only writer of its task object,    *)
(* which is also the store's record (Save keeps the pointer).              *)
(***************************************************************************)
EXTENDS Task, Naturals

CONSTANTS
    Tasks,          \* the valid submissions clients make
    Registered,     \* those whose type has a handler in the registry
    Slow,           \* those that outlast the server's WriteTimeout
    StoreFaults     \* TRUE: a call of the TaskStore may return an error

ASSUME ServiceAssumption ==
    /\ Registered \subseteq Tasks
    /\ Slow \subseteq Registered
    /\ StoreFaults \in BOOLEAN

(* HTTP status codes of a submission (errors/errors.go); 0 is none yet.    *)
Codes == {0, 200, 400, 404, 422, 500}

VARIABLES
    server,     \* the server and the process that hosts it
    pc,         \* where the goroutine of each submission is
    status,     \* the fields of the
    result,     \*   task objects and
    stamps,     \*   the timestamps that are set
    saved,      \* the IDs in the store's map
    cancelled,  \* submissions whose client went away: the context is done
    code,       \* the status code the goroutine has decided on
    answer,     \* what the client of the submission received
    poll        \* what the last poll of each task answered

objectVars == <<status, result, stamps>>
vars == <<server, pc, objectVars, saved, cancelled, code, answer, poll>>

(* Variants of NewTask: the status is forgotten, or set too far.           *)
NoStatus == [t \in Tasks |-> "empty"]
StartedStatus == [t \in Tasks |-> "running"]

InitialStatus == [t \in Tasks |-> "submitted"]

NoAnswer == [code |-> 0, status |-> "none", result |-> "none", stamps |-> {}]

Init ==
    /\ server = "starting"
    /\ pc = [t \in Tasks |-> "new"]
    /\ status = InitialStatus
    /\ result = [t \in Tasks |-> "empty"]
    /\ stamps = [t \in Tasks |-> {}]
    /\ saved = {}
    /\ cancelled = {}
    /\ code = [t \in Tasks |-> 0]
    /\ answer = [t \in Tasks |-> NoAnswer]
    /\ poll = [t \in Tasks |-> "none"]

(* The goroutines of the handlers run: Shutdown lets them finish.          *)
Alive == server \in {"listening", "draining"}

Goto(t, from, to) == pc[t] = from /\ pc' = [pc EXCEPT ![t] = to]

StoreAnswers == IF StoreFaults THEN BOOLEAN ELSE {TRUE}

-----------------------------------------------------------------------------
(* One submission.                                                         *)

(* net/http reads the request and starts its handler.                      *)
Receive(t) ==
    /\ server = "listening"
    /\ Goto(t, "new", "received")
    /\ UNCHANGED <<server, objectVars, saved, cancelled, code, answer, poll>>

(* SubmitTask: NewTask and store.Save, whose error becomes a 500.  The     *)
(* server may have stopped listening since the request was received.       *)
Save(t) ==
    /\ Alive
    /\ pc[t] = "received"
    /\ \E ok \in StoreAnswers :
         /\ saved' = IF ok THEN saved \cup {t} ELSE saved
         /\ pc' = [pc EXCEPT ![t] = IF ok THEN "saved" ELSE "answering"]
         /\ code' = [code EXCEPT ![t] = IF ok THEN 0 ELSE 500]
    /\ UNCHANGED <<server, objectVars, cancelled, answer, poll>>

(* TransitionToRunning; the Update that follows writes what the shared     *)
(* object holds already, and its error is logged.                          *)
TransitionToRunning(t) ==
    /\ Alive
    /\ Goto(t, "saved", "running")
    /\ stamps' = [stamps EXCEPT ![t] = stamps[t] \cup {"started"}]
    /\ status' = [status EXCEPT ![t] = SetStatus(status[t], "running")]
    /\ UNCHANGED <<server, result, saved, cancelled, code, answer, poll>>

(* Variant: the error of a handler is ignored.                             *)
IgnoringErrors(t) == [code : {200}, result : {"output", "partial"}]

(* SynchronousRunner.Run: what the registry and the handler answer, and    *)
(* the code of the TaskError it is returned as.  A handler returns a       *)
(* TaskError when it rejects its payload and any other error (that of a    *)
(* context that is done) otherwise, which the runner wraps; it may leave a *)
(* result although it fails.                                               *)
RunnerAnswers(t) ==
    IF t \notin Registered THEN {[code |-> 404, result |-> "empty"]}
    ELSE [code : {200}, result : {"output"}]
           \cup [code : {400, 422}, result : {"empty", "partial"}]

RunHandler(t) ==
    /\ Alive
    /\ pc[t] = "running"
    /\ \E a \in RunnerAnswers(t) :
         /\ code' = [code EXCEPT ![t] = a.code]
         /\ result' = [result EXCEPT ![t] = a.result]
         /\ pc' = [pc EXCEPT ![t] = IF a.code = 200 THEN "succeeded" ELSE "failed"]
    /\ UNCHANGED <<server, status, stamps, saved, cancelled, answer, poll>>

(* TransitionToCompleted.                                                  *)
Complete(t) ==
    /\ Alive
    /\ Goto(t, "succeeded", "answering")
    /\ stamps' = [stamps EXCEPT ![t] = stamps[t] \cup {"completed"}]
    /\ status' = [status EXCEPT ![t] = SetStatus(status[t], "done")]
    /\ UNCHANGED <<server, result, saved, cancelled, code, answer, poll>>

(* Variant of HandleFailure: the error message is forgotten.               *)
KeepResult(r) == r

(* HandleFailure keeps the result of the handler when there is one.        *)
FailureResult(r) == IF r = "empty" THEN "error" ELSE r

(* HandleFailure and TransitionToFailed.                                   *)
Fail(t) ==
    /\ Alive
    /\ Goto(t, "failed", "answering")
    /\ stamps' = [stamps EXCEPT ![t] = stamps[t] \cup {"completed"}]
    /\ status' = [status EXCEPT ![t] = SetStatus(status[t], "failed")]
    /\ result' = [result EXCEPT ![t] = FailureResult(result[t])]
    /\ UNCHANGED <<server, saved, cancelled, code, answer, poll>>

(* What NewSubmitHandler writes: the task's fields after a success, the    *)
(* code and nothing about the task after an error.                         *)
Response(t) ==
    IF code[t] = 200
      THEN [code |-> 200, status |-> status[t], result |-> result[t], stamps |-> stamps[t]]
      ELSE [code |-> code[t], status |-> "none", result |-> "none", stamps |-> {}]

(* The WriteTimeout counts from the request: an execution outlasted it.    *)
TimedOut(t) == t \in Slow /\ "started" \in stamps[t]

(* The response reaches the client, unless the client went away or the     *)
(* WriteTimeout of the connection expired while the handler was running.   *)
Respond(t) ==
    /\ Alive
    /\ Goto(t, "answering", "answered")
    /\ answer' = IF t \in cancelled \/ TimedOut(t)
                   THEN answer
                   ELSE [answer EXCEPT ![t] = Response(t)]
    /\ UNCHANGED <<server, objectVars, saved, cancelled, code, poll>>

InFlight(t) ==
    pc[t] \in {"received", "saved", "running", "succeeded", "failed", "answering"}

(* The client closes the connection: net/http cancels the context.         *)
Disconnect(t) ==
    /\ Alive /\ InFlight(t)
    /\ cancelled' = cancelled \cup {t}
    /\ UNCHANGED <<server, pc, objectVars, saved, code, answer, poll>>

(* GetTaskStatus for a client that learned the ID from its response.       *)
Poll(t) ==
    /\ server = "listening"
    /\ answer[t].code = 200
    /\ poll' = [poll EXCEPT ![t] = IF t \in saved THEN status[t] ELSE "notfound"]
    /\ UNCHANGED <<server, pc, objectVars, saved, cancelled, code, answer>>

-----------------------------------------------------------------------------
(* The server (api/server/server.go) and main.                             *)

(* ListenAndServe listens, or returns an error that Start only logs.       *)
Listen(ok) ==
    /\ server = "starting"
    /\ server' = IF ok THEN "listening" ELSE "deaf"
    /\ UNCHANGED <<pc, objectVars, saved, cancelled, code, answer, poll>>

(* SIGINT or SIGTERM: Shutdown closes the listener ...                     *)
Signal ==
    /\ server \in {"starting", "listening", "deaf"}
    /\ server' = "draining"
    /\ UNCHANGED <<pc, objectVars, saved, cancelled, code, answer, poll>>

(* Variants: Close instead of Shutdown; clients that never come are waited *)
(* for.                                                                    *)
NoWait == TRUE
AllAnswered == \A t \in Tasks : pc[t] = "answered"

(* ... and waits for the requests it is serving ...                        *)
Drained == \A t \in Tasks : ~InFlight(t)

ShutdownComplete ==
    /\ server = "draining"
    /\ Drained
    /\ server' = "exited"
    /\ UNCHANGED <<pc, objectVars, saved, cancelled, code, answer, poll>>

(* ... or until ShutdownTimeout, when main exits with log.Fatalf.          *)
ShutdownTimeout ==
    /\ server = "draining"
    /\ \E t \in Tasks : InFlight(t)
    /\ server' = "forced"
    /\ UNCHANGED <<pc, objectVars, saved, cancelled, code, answer, poll>>

RequestStep(t) ==
    \/ Save(t) \/ TransitionToRunning(t) \/ RunHandler(t) \/ Complete(t) \/ Fail(t)
    \/ Respond(t)

ShutdownStep == ShutdownComplete \/ ShutdownTimeout

Next ==
    \/ \E t \in Tasks : Receive(t) \/ RequestStep(t) \/ Disconnect(t) \/ Poll(t)
    \/ \E ok \in BOOLEAN : Listen(ok)
    \/ Signal \/ ShutdownStep

Spec == Init /\ [][Next]_vars

(* Goroutines are scheduled and handlers return; Shutdown polls for idle   *)
(* connections and its timer fires.  Nobody has to send a signal.          *)
Fairness ==
    /\ \A t \in Tasks : WF_vars(RequestStep(t))
    /\ WF_vars(ShutdownStep)

FairSpec == Spec /\ Fairness

-----------------------------------------------------------------------------
(* What is promised.                                                       *)

(* The shape of the state.                                                 *)
TypeOK ==
    /\ server \in {"starting", "listening", "deaf", "draining", "exited", "forced"}
    /\ pc \in [Tasks -> {"new", "received", "saved", "running", "succeeded", "failed", "answering",
                         "answered"}]
    /\ status \in [Tasks -> TaskStatus]
    /\ result \in [Tasks -> {"empty", "output", "partial", "error"}]
    /\ stamps \in [Tasks -> SUBSET {"started", "completed"}]
    /\ saved \subseteq Tasks
    /\ cancelled \subseteq Tasks
    /\ code \in [Tasks -> Codes]
    /\ answer \in [Tasks -> [code : Codes, status : TaskStatus \cup {"none"},
                             result : {"empty", "output", "partial", "error", "none"},
                             stamps : SUBSET {"started", "completed"}]]
    /\ poll \in [Tasks -> TaskStatus \cup {"none", "notfound"}]

(* A 200 stands for a finished execution: the response shows a done task   *)
(* with the handler's output and both timestamps (api/submit.go:45-49),    *)
(* even when the store refused every Update, and polling later agrees.     *)
SuccessIsComplete ==
    \A t \in Tasks : answer[t].code = 200 =>
        /\ answer[t].status = "done" /\ answer[t].result = "output"
        /\ answer[t].stamps = {"started", "completed"}
        /\ poll[t] \in {"none", "done"}

(* A submission that was answered with an error leaves, when it was saved  *)
(* at all, a failed record with a message in its result, in which a        *)
(* message the handler left survives.                                      *)
ErrorIsRecorded ==
    \A t \in saved : (pc[t] \in {"answering", "answered"} /\ code[t] # 200) =>
        status[t] = "failed" /\ result[t] \in {"error", "partial"}

(* A graceful exit interrupts no execution: every task in the store has    *)
(* reached a final status when Shutdown returns (server.go:110-126), for   *)
(* every signal that arrives while submissions are being executed, and no  *)
(* request that was received is left undecided.                            *)
GracefulExitFinishesTasks ==
    server = "exited" =>
        /\ \A t \in saved : IsFinal(status[t])
        /\ \A t \in Tasks : pc[t] # "new" => code[t] # 0

(* A client that stays connected to a server that is not forced to exit is *)
(* answered, unless its task outlasts the WriteTimeout.                    *)
ClientsAreAnswered ==
    \A t \in Tasks \ Slow :
        pc[t] = "received" ~> (answer[t].code # 0 \/ t \in cancelled \/ server = "forced")

(* The process ends after a signal whatever it is doing: also when it      *)
(* never listened because ListenAndServe failed (server.go:94-97), when    *)
(* requests are being served and when no request ever came.                *)
ShutdownEnds == server = "draining" ~> server \in {"exited", "forced"}

(* api/submit.go:45: synchronous runners execute immediately and return    *)
(* final results, so a client that waits for the end of its task gets them.*)
FinalResultIsReturned ==
    \A t \in Tasks : (pc[t] = "answered" /\ t \notin cancelled) => answer[t].code # 0

(* Polling shows each task moving along the transition table.              *)
Visible == [t \in Tasks |-> IF t \in saved THEN status[t] ELSE "absent"]

Lifecycle == INSTANCE TaskLifecycle WITH status <- Visible

ImplementsLifecycle == Lifecycle!Spec
=============================================================================
