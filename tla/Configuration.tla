---------------------------- MODULE Configuration ----------------------------
(***************************************************************************)
(* The configuration (config/config.go): what LoadConfig makes of the      *)
(* environment, and the levels of the logger (logger/logger.go) that is    *)
(* made from it.  Durations are numbers of seconds; a text is blank, or    *)
(* has spaces around it, or neither.                                       *)
(***************************************************************************)
EXTENDS Integers, FiniteSetsExt

CONSTANTS
    Unset,      \* the variable is not set, or set to the empty string
    Garbage     \* its parser refuses what it is set to

Level(word, padded) == [word |-> word, padded |-> padded]

LevelText == [word : STRING, padded : BOOLEAN]

ASSUME ConfigurationAssumption ==
    /\ Unset # Garbage
    /\ \A x \in {Unset, Garbage} : x \notin Int \cup BOOLEAN \cup STRING \cup LevelText

(* What an exported variable may mean to its parser.                       *)
Meaning ==
    [PORT |-> Int \cup {Garbage}, LOG_LEVEL |-> LevelText, TASK_TIMEOUT |-> Int \cup {Garbage},
     SHUTDOWN_TIMEOUT |-> Int \cup {Garbage}, VERSION |-> {"blank", "text", "padded"},
     ASYNC_MODE |-> BOOLEAN \cup {Garbage}, REDIS_URL |-> {"blank", "text"},
     WORKER_COUNT |-> Int \cup {Garbage}, QUEUE_NAME |-> {"blank", "text"}]

(* The variables and the defaults of LoadConfig.                           *)
Default ==
    [PORT |-> 8080, LOG_LEVEL |-> Level("INFO", FALSE), TASK_TIMEOUT |-> 30,
     SHUTDOWN_TIMEOUT |-> 15, VERSION |-> "text", ASYNC_MODE |-> FALSE,
     REDIS_URL |-> "text", WORKER_COUNT |-> 3, QUEUE_NAME |-> "text"]

EnvVars == DOMAIN Default

(* getEnvString, getEnvInt, getEnvDuration, getEnvBool: what cannot be     *)
(* parsed counts as not set.                                               *)
GetEnv(env, v) == IF env[v] \in {Unset, Garbage} THEN Default[v] ELSE env[v]

validLevels == {"DEBUG", "INFO", "WARN", "ERROR", "FATAL"}

Complaint(when, v) == [when |-> when, about |-> v]

(* Variant: the boundaries of the positive numbers are forgotten.          *)
NegativeOnly(c) ==
    <<Complaint(c.PORT < 0 \/ c.PORT > 65535, "PORT"),
      Complaint(c.LOG_LEVEL.word \notin validLevels, "LOG_LEVEL"),
      Complaint(c.TASK_TIMEOUT < 0 \/ c.TASK_TIMEOUT > 86400, "TASK_TIMEOUT")>>

(* validate, in its order.                                                 *)
Complaints(c) ==
    <<Complaint(c.PORT < 1 \/ c.PORT > 65535, "PORT"),
      Complaint(c.LOG_LEVEL.word \notin validLevels, "LOG_LEVEL"),
      Complaint(c.TASK_TIMEOUT <= 0 \/ c.TASK_TIMEOUT > 86400, "TASK_TIMEOUT"),
      Complaint(c.SHUTDOWN_TIMEOUT <= 0 \/ c.SHUTDOWN_TIMEOUT > 300, "SHUTDOWN_TIMEOUT"),
      Complaint(c.VERSION = "blank", "VERSION"),
      Complaint(c.ASYNC_MODE /\ c.WORKER_COUNT < 1, "WORKER_COUNT"),
      Complaint(c.ASYNC_MODE /\ c.REDIS_URL = "blank", "REDIS_URL"),
      Complaint(c.ASYNC_MODE /\ c.QUEUE_NAME = "blank", "QUEUE_NAME")>>

(* Variant: the level and the version are checked and kept as they are.    *)
AsTyped(c) == c

(* The level and the version lose the spaces around them.                  *)
Normalise(c) ==
    [c EXCEPT !.LOG_LEVEL = Level(c.LOG_LEVEL.word, FALSE),
              !.VERSION = IF c.VERSION = "padded" THEN "text" ELSE c.VERSION]

ReadEnv(env) == [v \in EnvVars |-> GetEnv(env, v)]

(* The variable LoadConfig refuses, "none" when there is a configuration.  *)
Refused(env) ==
    LET complaints == Complaints(ReadEnv(env))
        justified == {i \in DOMAIN complaints : complaints[i].when}
    IN  IF justified = {} THEN "none" ELSE complaints[Min(justified)].about

LoadConfig(env) == Normalise(ReadEnv(env))

Severity == [DEBUG |-> 0, INFO |-> 1, WARN |-> 2, ERROR |-> 3]

(* Variant: the logger knows the fifth level.                              *)
ParseFatal(level) ==
    IF level.padded THEN Severity.INFO
    ELSE IF level.word = "FATAL" THEN 4 ELSE Severity[level.word]

(* parseLevel ignores case, does not trim, and takes what it does not know *)
(* for INFO.                                                               *)
ParseLevel(level) ==
    IF ~level.padded /\ level.word \in DOMAIN Severity
      THEN Severity[level.word] ELSE Severity.INFO

(* writeLogEntry drops what is below the logger's level.                   *)
Writes(level, severity) == ParseLevel(level) <= Severity[severity]
=============================================================================
