---------------------------- MODULE HttpExchange ----------------------------
(***************************************************************************)
(* The program of cmd/task-orchestrator/main.go around one HTTP request:   *)
(* it loads its configuration, makes the logger and serves; the router,    *)
(* the logging middleware and a handler answer the request.  What handlers *)
(* and checks decide is in Requests and Handlers, what the environment     *)
(* variables mean in Configuration; what concurrent requests do to the     *)
(* store and the shutdown is SyncService.                                  *)
(***************************************************************************)
EXTENDS Requests, Handlers, Configuration, FiniteSets

CONSTANTS
    Values,         \* what may be exported for each variable
    MaxExports,     \* how many variables are exported at most
    Inputs,         \* the requests clients send
    Known,          \* the IDs of tasks in the store
    NoRequest

(* A request; a body that is null leaves the decoded submission empty.     *)
Request ==
    {r \in [method : STRING, path : Path, type : Type, payload : Payload, body : Body] :
        r.body.value = "null" => r.type.len = 0}

ASSUME ExchangeAssumption ==
    /\ \A v \in EnvVars : Values[v] \subseteq Meaning[v]
    /\ MaxExports \in Nat
    /\ Inputs \subseteq Request
    /\ NoRequest \notin Inputs

VARIABLES
    pc,         \* how far the program is
    env,        \* the environment variables
    config,     \* what LoadConfig returned
    request,    \* the request that is served
    answer,     \* what is decided about it: code, time slept, who answers
    submitted,  \* SubmitTask was called for it
    sent,       \* the status code that net/http put on the wire
    captured,   \* the status code in the middleware's interceptor
    log         \* its error and its request entry: severity and what of

exchange == <<request, answer, submitted, sent, captured, log>>
vars == <<pc, env, config, exchange>>

NoAnswer == [code |-> 0, slept |-> 0, logs |-> FALSE]

Init ==
    /\ pc = "configuring"
    /\ env = [v \in EnvVars |-> Unset]
    /\ config = Default
    /\ request = NoRequest
    /\ answer = NoAnswer
    /\ submitted = FALSE
    /\ sent = 0 /\ captured = 0
    /\ log = {}

Exported == {v \in EnvVars : env[v] # Unset}

Export(v) ==
    /\ pc = "configuring"
    /\ env[v] = Unset /\ Cardinality(Exported) < MaxExports
    /\ \E x \in Values[v] : env' = [env EXCEPT ![v] = x]
    /\ UNCHANGED <<pc, config, exchange>>

(* main: without a valid configuration the process exits.                  *)
Boot ==
    /\ pc = "configuring"
    /\ IF Refused(env) = "none"
         THEN pc' = "serving" /\ config' = LoadConfig(env)
         ELSE pc' = "exited" /\ UNCHANGED config
    /\ UNCHANGED <<env, exchange>>

(* Variant: the interceptor waits for a WriteHeader.                       *)
NoCode == 0

(* newResponseWriterInterceptor: handlers need not call WriteHeader.       *)
InitialCode == 200

(* The bound: requests meet no other setting than the log level.           *)
Receive(r) ==
    /\ pc = "serving" /\ Exported \subseteq {"LOG_LEVEL"}
    /\ pc' = "handling"
    /\ request' = r
    /\ captured' = InitialCode
    /\ UNCHANGED <<env, config, answer, submitted, sent, log>>

(* An answer, and whether respondWithError logs it.                        *)
Reply(code, slept, logs) == [code |-> code, slept |-> slept, logs |-> logs]

(* The answers to a submission: of a check, or of the execution.           *)
SubmitAnswers(r) ==
    IF Refusal(SubmitChecks(r)) # "none" THEN {Reply(400, 0, TRUE)}
    ELSE {Reply(a.code, a.slept, a.code # 200) : a \in Run(r.type.name, r.payload)}

StatusAnswers(r) ==
    IF Refusal(StatusChecks(r)) # "none" THEN {Reply(400, 0, TRUE)}
    ELSE IF TaskID(r.path) \in Known THEN {Reply(200, 0, FALSE)}
    ELSE {Reply(404, 0, TRUE)}

(* The health handler refuses with http.Error, which logs nothing, as do   *)
(* the answers of the router.                                              *)
HealthAnswers(r) == {Reply(IF r.method = "GET" THEN 200 ELSE 405, 0, FALSE)}

Answers(r) ==
    LET route == Route(r)
    IN  IF route = "submit" THEN SubmitAnswers(r)
        ELSE IF route = "status" THEN StatusAnswers(r)
        ELSE IF route = "health" THEN HealthAnswers(r)
        ELSE {Reply(IF route = "redirect" THEN 301 ELSE 404, 0, FALSE)}

Entries(severity, what) == IF Writes(config.LOG_LEVEL, severity) THEN {<<severity, what>>} ELSE {}

(* The first WriteHeader, or the first Write, puts a code on the wire; the *)
(* interceptor keeps the last one it sees.  A body that cannot be written  *)
(* makes a handler that has said 200 call respondWithError, with 500.      *)
Handle(broken) ==
    /\ pc = "handling"
    /\ pc' = "handled"
    /\ \E a \in Answers(request) :
         /\ answer' = a
         /\ sent' = a.code
         /\ captured' = IF a.code # 200 THEN a.code ELSE IF broken THEN 500 ELSE captured
         /\ log' = IF a.logs \/ (broken /\ a.code = 200) THEN Entries("ERROR", "response") ELSE {}
    /\ submitted' = (Route(request) = "submit" /\ Refusal(SubmitChecks(request)) = "none")
    /\ UNCHANGED <<env, config, request>>

RequestEntry == Entries("INFO", "request")

(* LoggingMiddleware, after the handler returned.                          *)
LogRequest ==
    /\ pc = "handled"
    /\ pc' = "answered"
    /\ log' = log \cup RequestEntry
    /\ UNCHANGED <<env, config, request, answer, submitted, sent, captured>>

Next ==
    \/ \E v \in EnvVars : Export(v)
    \/ Boot
    \/ \E r \in Inputs : Receive(r)
    \/ \E broken \in BOOLEAN : Handle(broken)
    \/ LogRequest

Spec == Init /\ [][Next]_vars

-----------------------------------------------------------------------------
(* What is promised.                                                       *)

(* What an operator can set wrong: a value that was understood and that is *)
(* out of range, with the last three looked at in asynchronous mode only.  *)
IsWrong(v) ==
    /\ env[v] \notin {Unset, Garbage}
    /\ \/ v = "PORT" /\ ~(1 <= env[v] /\ env[v] <= 65535)
       \/ v = "LOG_LEVEL" /\ env[v].word \notin {"DEBUG", "INFO", "WARN", "ERROR", "FATAL"}
       \/ v = "TASK_TIMEOUT" /\ ~(1 <= env[v] /\ env[v] <= 24 * 60 * 60)
       \/ v = "SHUTDOWN_TIMEOUT" /\ ~(1 <= env[v] /\ env[v] <= 5 * 60)
       \/ v = "VERSION" /\ env[v] = "blank"
       \/ /\ env["ASYNC_MODE"] = TRUE
          /\ \/ v = "WORKER_COUNT" /\ env[v] \notin Nat \ {0}
             \/ v \in {"REDIS_URL", "QUEUE_NAME"} /\ env[v] = "blank"

(* The program starts unless a variable is wrong, and what it complains of *)
(* is one that is; a number, a duration or a Boolean that cannot be parsed *)
(* never stops it (config.go:60-85), an unknown log level does.            *)
StartsUnlessWrong ==
    /\ pc = "exited" => IsWrong(Refused(env))
    /\ pc \notin {"configuring", "exited"} => \A v \in EnvVars : ~IsWrong(v)

(* The logger drops the request's INFO entry exactly when the operator set *)
(* WARN or ERROR, in whatever case and between whatever spaces.  FATAL,    *)
(* which config.go:96 accepts and logger.go:49-62 does not know, makes the *)
(* logger more talkative than ERROR.                                       *)
LevelIsHonoured ==
    pc = "answered" =>
        (<<"INFO", "request">> \in log <=>
            (env["LOG_LEVEL"] = Unset \/ env["LOG_LEVEL"].word \in {"DEBUG", "INFO", "FATAL"}))

(* A submission or a poll answered with an error leaves an ERROR entry     *)
(* under every log level that the configuration accepts.                   *)
ErrorsAreLogged ==
    (pc = "answered" /\ Route(request) \in {"submit", "status"} /\ sent # 200) =>
        <<"ERROR", "response">> \in log

(* The code the middleware logs (logging.go:9-25) is the code the client   *)
(* was sent, except when the body of a success could not be written: then  *)
(* the log says 500 of a response that began with 200.                     *)
LoggedCodeIsSent ==
    pc = "answered" =>
        captured = sent \/ (sent = 200 /\ captured = 500 /\ <<"ERROR", "response">> \in log)

(* A submission reaches the orchestrator exactly when it is a POST whose   *)
(* first JSON value is complete within the limit and is an object with a   *)
(* type and a payload within theirs (submit.go:13-17).  The size of the    *)
(* body does not count: bytes that follow the value are never read, so a   *)
(* body that exceeds the limit does not make Decode fail (submit.go:57).   *)
LimitsDecide ==
    pc = "answered" =>
        (submitted <=>
            /\ Texts(request.path) = <<"", "submit">>
            /\ request.method = "POST"
            /\ request.body.end <= 1024 * 1024 /\ request.body.end <= request.body.size
            /\ request.body.value = "object"
            /\ request.type.len \in 1..50
            /\ request.payload.size <= 100 * 1024)

(* A poll that the router lets through is about the part of the decoded    *)
(* path that follows "/tasks/", or about nothing when that is empty: the   *)
(* trimming of the handler never shifts another part into the place of the *)
(* ID, not even for /tasks/%2Fa, which the router takes for clean and the  *)
(* handler sees as /tasks//a (task_status.go:27-37).                       *)
PathNamesTask ==
    (pc = "answered" /\ Route(request) = "status" /\ request.method = "GET") =>
        LET ID == request.path[3].text
        IN  sent = (IF ID = "" THEN 400 ELSE IF ID \in Known THEN 200 ELSE 404)

IsSleep == submitted /\ request.type.name = "sleep"

(* A sleep task that ends as done slept for as long as it was asked to, if *)
(* its positive number of seconds is a duration; beyond that the product   *)
(* wraps around and it never sleeps as long (sleep.go:78).                 *)
SleepIsExact ==
    (pc = "answered" /\ IsSleep /\ answer.code = 200) =>
        LET n == request.payload.seconds
        IN  /\ n > 0
            /\ IF n <= MaxInt \div Second THEN answer.slept = n * Second
                                          ELSE answer.slept < n * Second

(* Both runners treat a payload alike, except one that is absent: the      *)
(* queue turns it into null, so that a print task which the synchronous    *)
(* runner refuses is done by a worker.                                     *)
QueueKeepsPayload ==
    submitted =>
        LET codes(p) == {a.code : a \in Run(request.type.name, p)}
        IN  codes(request.payload) # codes(Requeue(request.payload)) <=>
                request.type.name = "print" /\ request.payload.json = "absent"

(* sleep.go:38: SleepHandler pauses execution for the specified number of  *)
(* seconds; its result says so.                                            *)
SleepsAsAsked ==
    (pc = "answered" /\ IsSleep /\ answer.code = 200) =>
        answer.slept = request.payload.seconds * Second
=============================================================================
