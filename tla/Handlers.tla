------------------------------ MODULE Handlers ------------------------------
(***************************************************************************)
(* The task handlers (tasks/handlers), as the synchronous runner calls     *)
(* them: what Run answers for a payload, and how long a sleep task sleeps. *)
(* An answer is the HTTP code of the error, or 200, and the time slept.    *)
(***************************************************************************)
EXTENDS Integers

CONSTANTS
    MaxInt,     \* the largest int, which is 64 bits wide as time.Duration is
    Second,     \* time.Second, a number of nanoseconds
    Missing     \* a payload has no number of seconds

Ints == (-MaxInt - 1)..MaxInt

ASSUME HandlersAssumption ==
    /\ MaxInt \in Nat
    /\ Second \in 1..MaxInt
    /\ Missing \notin Ints

(* A payload: absent from the request, the JSON value null, an object that *)
(* the handler's struct can take, or any other JSON.                       *)
Payload ==
    {p \in [json : {"absent", "null", "object", "mismatch"},
            seconds : Ints \cup {Missing}, size : Nat] :
        p.json # "object" => p.seconds = Missing}

(* json.Unmarshal succeeds; null leaves the struct as it is.               *)
Decodes(p) == p.json \in {"null", "object"}

Answer(code, slept) == [code |-> code, slept |-> slept]

Rejected == {Answer(400, 0)}

PrintHandler(p) == IF Decodes(p) THEN {Answer(200, 0)} ELSE Rejected

(* The arithmetic of int64.                                                *)
Wrap(n) == ((n + MaxInt + 1) % (2 * MaxInt + 2)) - MaxInt - 1

(* time.Duration(seconds) * time.Second                                    *)
Duration(n) == Wrap(n * Second)

(* A timer of a duration that is not positive fires at once.               *)
Timer(d) == IF d > 0 THEN d ELSE 0

(* Variant: zero seconds and less are not refused.                         *)
SleepAnyTime(p) ==
    IF Decodes(p) /\ p.seconds # Missing
      THEN {Answer(200, Timer(Duration(p.seconds))), Answer(422, 0)}
      ELSE Rejected

(* The context may be done before the timer fires: its error is no         *)
(* TaskError and is wrapped as one of the execution.                       *)
SleepHandler(p) ==
    IF Decodes(p) /\ p.seconds # Missing /\ p.seconds > 0
      THEN {Answer(200, Timer(Duration(p.seconds))), Answer(422, 0)}
      ELSE Rejected

(* The registry that main fills, and the runner's error without a handler. *)
Registered == {"print", "sleep"}

Run(type, p) ==
    IF type \notin Registered THEN {Answer(404, 0)}
    ELSE IF type = "print" THEN PrintHandler(p) ELSE SleepHandler(p)

(* Variant: the payload is tagged omitempty.                               *)
Omitted(p) == p

(* The payload of a task that went through the queue: json.Marshal writes  *)
(* null for a payload that is absent.                                      *)
Requeue(p) == IF p.json = "absent" THEN [p EXCEPT !.json = "null"] ELSE p
=============================================================================
