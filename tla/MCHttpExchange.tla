---------------------------- MODULE MCHttpExchange ----------------------------
(* The inputs of HttpExchange that TLC checks: values on both sides of each *)
(* boundary, and an int of ten bits with a second of twelve units.          *)
EXTENDS HttpExchange

MCMaxInt == 511
MCSecond == 12

LogLevels == {Level(w, p) : w \in validLevels \cup {"TRACE"}, p \in BOOLEAN}

MCValues ==
    [PORT |-> {Garbage, -1, 0, 1, 65535, 65536},
     LOG_LEVEL |-> LogLevels,
     TASK_TIMEOUT |-> {Garbage, -1, 0, 1, 86400, 86401},
     SHUTDOWN_TIMEOUT |-> {Garbage, -1, 0, 1, 300, 301},
     VERSION |-> {"blank", "text", "padded"},
     ASYNC_MODE |-> {Garbage, TRUE, FALSE},
     REDIS_URL |-> {"blank", "text"},
     WORKER_COUNT |-> {Garbage, -1, 0, 1},
     QUEUE_NAME |-> {"blank", "text"}]

(* 42 seconds fit, 43 become negative, 86 short, 256 nothing at all.        *)
Payloads ==
    {[json |-> "object", seconds |-> n, size |-> 13] :
        n \in {Missing, -512, -1, 0, 1, 42, 43, 86, 128, 256, 511}}
    \cup {[json |-> "absent", seconds |-> Missing, size |-> 0],
          [json |-> "null", seconds |-> Missing, size |-> 4],
          [json |-> "mismatch", seconds |-> Missing, size |-> 3]}
    \cup {[json |-> "object", seconds |-> 1, size |-> n] : n \in {102400, 102401}}

Types ==
    {[name |-> "print", len |-> 5], [name |-> "sleep", len |-> 5]}
        \cup {[name |-> "other", len |-> n] : n \in {0, 1, 50, 51}}

(* Everything around the payload and the type takes 24 bytes.               *)
Bodies(content) ==
    {[value |-> "object", end |-> e, size |-> s] :
        e \in {content, 1048576, 1048577}, s \in {content, 1048576, 1048577, 3000000}}
    \cup {[value |-> v, end |-> 9, size |-> s] : v \in {"malformed", "mismatch"}, s \in {9, 3000000}}

(* The path of these texts, with the slashes before the parts i \in E escaped.*)
Slashed(texts, E) == [i \in DOMAIN texts |-> [text |-> texts[i], escaped |-> i \in E]]

Submission(m, t, p, b) ==
    [method |-> m, path |-> Slashed(<<"", "submit">>, {}), type |-> t, payload |-> p, body |-> b]

Small == [json |-> "absent", seconds |-> Missing, size |-> 0]
Nothing == [name |-> "other", len |-> 0]
PrintType == [name |-> "print", len |-> 5]

Submissions ==
    UNION {{Submission("POST", t, p, b) : b \in Bodies(t.len + p.size + 24)} :
        t \in Types, p \in Payloads}
    \cup {Submission("POST", Nothing, Small, [value |-> "null", end |-> 4, size |-> s]) :
            s \in {4, 3000000}}
    \cup {Submission("GET", PrintType, Small, [value |-> "object", end |-> 29, size |-> 29])}

(* All paths of few parts with every choice of escaped slashes, and some   *)
(* with dots, with a second ID, or near the other patterns.                *)
Paths ==
    {Slashed(<<"">> \o t, E) : t \in [1..3 -> {"", "tasks", "a"}], E \in SUBSET {3, 4}}
        \cup {Slashed(<<"">> \o t, E) : t \in [1..2 -> {"", "tasks", "a", "submit", ".."}], E \in SUBSET {3}}
        \cup {Slashed(t, {}) :
                t \in {<<"", "">>, <<"", "tasks">>, <<"", "a">>, <<"", "health">>, <<"", "..">>,
                       <<"", "tasks", "b">>, <<"", "tasks", "a", "b", "a">>,
                       <<"", "tasks", "..", "a">>, <<"", "a", ".", "tasks">>}}
        \cup {Slashed(<<"", "tasks", "", "..", "a">>, {4, 5})}

NoBody == [value |-> "malformed", end |-> 0, size |-> 0]

Others ==
    {[method |-> m, path |-> p, type |-> Nothing, payload |-> Small, body |-> NoBody] :
        m \in {"GET", "POST", "CONNECT"}, p \in Paths}

MCInputs == Submissions \cup Others
=============================================================================
