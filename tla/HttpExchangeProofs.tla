--------------------------- MODULE HttpExchangeProofs ---------------------------
(***************************************************************************)
(* Proofs about HttpExchange, for every int width, second, environment and *)
(* request: which checks refuse a submission, what a path names, how long  *)
(* a sleep task sleeps, when the program starts and what it logs.          *)
(***************************************************************************)
EXTENDS HttpExchange, SequenceTheorems, WellFoundedInduction, TLAPS

-----------------------------------------------------------------------------
(* The checks of a request and of a configuration: the first that fails    *)
(* speaks for all of them.                                                 *)

(* A set of natural numbers that is not empty has a least element.         *)
LEMMA MinIsLeast ==
  ASSUME NEW S \in SUBSET Nat, S # {}
  PROVE  Min(S) \in S /\ \A y \in S : Min(S) <= y
<1>1. PICK x \in S : \A y \in S : ~(<<y, x>> \in OpToRel(<, Nat))
  BY NatLessThanWellFounded, WFMin
<1>2. ASSUME NEW y \in S PROVE x <= y
  <2>1. ~(<<y, x>> \in OpToRel(<, Nat))
    BY <1>1
  <2>2. x \in Nat /\ y \in Nat
    OBVIOUS
  <2>3. ~(y < x)
    BY <2>1, <2>2 DEF OpToRel
  <2> QED
    BY <2>2, <2>3
<1> QED
  BY <1>2 DEF Min

(* A set of indexes that is not empty has a greatest element: the least of *)
(* the distances to the end is its distance.                               *)
LEMMA MaxIsGreatest ==
  ASSUME NEW n \in Nat, NEW S \in SUBSET (1..n), S # {}
  PROVE  Max(S) \in S /\ \A y \in S : Max(S) >= y
<1> DEFINE T == {n - y : y \in S}
<1>1. T \in SUBSET Nat /\ T # {}
  <2>1. \A y \in S : n - y \in Nat
    OBVIOUS
  <2> QED
    BY <2>1, Zenon
<1> HIDE DEF T
<1>2. PICK d \in T : \A e \in T : d <= e
  BY <1>1, MinIsLeast
<1>3. PICK x \in S : d = n - x
  BY <1>2 DEF T
<1>4. ASSUME NEW y \in S PROVE x >= y
  <2>1. n - y \in T /\ x \in Nat /\ y \in Nat
    BY DEF T
  <2>2. n - x <= n - y
    BY <1>2, <1>3, <2>1
  <2> QED
    BY <2>1, <2>2
<1> QED
  BY <1>4 DEF Max

(* A request is refused when a check fails.                                *)
LEMMA RefusalIsNone ==
  ASSUME NEW n \in Nat, NEW checks, DOMAIN checks = 1..n, \A i \in 1..n : checks[i].message # "none"
  PROVE  Refusal(checks) = "none" <=> \A i \in 1..n : ~checks[i].fails
<1> DEFINE failed == {i \in 1..n : checks[i].fails}
<1>1. failed # {} => Min(failed) \in 1..n
  BY MinIsLeast
<1>2. Refusal(checks) = IF failed = {} THEN "none" ELSE checks[Min(failed)].message
  BY DEF Refusal
<1> QED
  BY <1>1, <1>2

(* What makes a submission acceptable to NewSubmitHandler.                 *)
LEMMA SubmitRefusal ==
  ASSUME NEW r
  PROVE  Refusal(SubmitChecks(r)) = "none" <=>
            /\ r.method = "POST" /\ ~TooLarge(r.body) /\ ~Undecodable(r.body)
            /\ ~(r.type.len = 0) /\ ~(r.type.len > maxTypeLen)
            /\ ~(r.payload.size > maxPayloadSize)
<1> DEFINE checks == SubmitChecks(r)
<1>1. checks[1].message # "none" /\ (checks[1].fails <=> r.method # "POST")
  BY Zenon DEF SubmitChecks, Check
<1>2. checks[2].message # "none" /\ (checks[2].fails <=> TooLarge(r.body))
  BY Zenon DEF SubmitChecks, Check
<1>3. checks[3].message # "none" /\ (checks[3].fails <=> Undecodable(r.body))
  BY Zenon DEF SubmitChecks, Check
<1>4. checks[4].message # "none" /\ (checks[4].fails <=> r.type.len = 0)
  BY Zenon DEF SubmitChecks, Check
<1>5. checks[5].message # "none" /\ (checks[5].fails <=> r.type.len > maxTypeLen)
  BY Zenon DEF SubmitChecks, Check
<1>6. checks[6].message # "none" /\ (checks[6].fails <=> r.payload.size > maxPayloadSize)
  BY Zenon DEF SubmitChecks, Check
<1>7. DOMAIN checks = 1..6
  BY DEF SubmitChecks
<1> HIDE DEF checks
<1>8. 1..6 = {1, 2, 3, 4, 5, 6}
  OBVIOUS
<1>9. \A i \in 1..6 : checks[i].message # "none"
  BY <1>1, <1>2, <1>3, <1>4, <1>5, <1>6, <1>8, Zenon
<1>10. Refusal(checks) = "none" <=> \A i \in 1..6 : ~checks[i].fails
  BY <1>7, <1>9, RefusalIsNone
<1> QED
  BY <1>1, <1>2, <1>3, <1>4, <1>5, <1>6, <1>8, <1>10, Zenon DEF checks

(* What makes a poll acceptable to NewTaskStatusHandler.                   *)
LEMMA StatusRefusal ==
  ASSUME NEW r, NEW parts, parts = PathParts(r.path)
  PROVE  Refusal(StatusChecks(r)) = "none" <=>
            /\ r.method = "GET"
            /\ ~(Len(parts) < 2 \/ parts[1] # "tasks")
            /\ ~(Len(parts) >= 2 /\ parts[2] = "")
<1> DEFINE checks == StatusChecks(r)
<1>1. checks[1].message # "none" /\ (checks[1].fails <=> r.method # "GET")
  BY Zenon DEF StatusChecks, Check
<1>2. checks[2].message # "none" /\ (checks[2].fails <=> (Len(parts) < 2 \/ parts[1] # "tasks"))
  BY Zenon DEF StatusChecks, Check
<1>3. checks[3].message # "none" /\ (checks[3].fails <=> (Len(parts) >= 2 /\ parts[2] = ""))
  BY Zenon DEF StatusChecks, Check
<1>4. DOMAIN checks = 1..3
  BY DEF StatusChecks
<1> HIDE DEF checks
<1>5. 1..3 = {1, 2, 3}
  OBVIOUS
<1>6. Refusal(checks) = "none" <=> \A i \in 1..3 : ~checks[i].fails
  BY <1>1, <1>2, <1>3, <1>4, <1>5, RefusalIsNone
<1> QED
  BY <1>1, <1>2, <1>3, <1>5, <1>6, Zenon DEF checks

-----------------------------------------------------------------------------
(* Submissions.                                                            *)

(* What the checks come to, in terms of the limits of api/submit.go.       *)
LEMMA SubmitDecision ==
  ASSUME NEW r \in Request
  PROVE  Refusal(SubmitChecks(r)) = "none" <=>
            /\ r.method = "POST"
            /\ r.body.end <= 1024 * 1024 /\ r.body.end <= r.body.size
            /\ r.body.value = "object"
            /\ r.type.len \in 1..50
            /\ r.payload.size <= 100 * 1024
<1>1. /\ r.body.value \in {"object", "null", "malformed", "mismatch"}
      /\ r.body.end \in Nat /\ r.body.size \in Nat /\ r.type.len \in Nat /\ r.payload.size \in Nat
      /\ r.body.value = "null" => r.type.len = 0
  BY DEF Request, Body, Type, Payload
<1>2. TooLarge(r.body) <=> r.body.end > 1024 * 1024 /\ r.body.size > 1024 * 1024
  BY DEF TooLarge, maxBodySize
<1>3. Undecodable(r.body) <=> r.body.end > r.body.size \/ r.body.value \in {"malformed", "mismatch"}
  BY DEF Undecodable
<1>4. (r.type.len > maxTypeLen <=> r.type.len > 50) /\ maxPayloadSize = 100 * 1024
  BY DEF maxTypeLen, maxPayloadSize
<1> DEFINE fits == r.body.end <= 1024 * 1024 /\ r.body.end <= r.body.size
<1>5. ~TooLarge(r.body) /\ ~Undecodable(r.body) <=> fits /\ r.body.value \notin {"malformed", "mismatch"}
  BY <1>1, <1>2, <1>3
<1>6. ~(r.type.len = 0) /\ ~(r.type.len > maxTypeLen) <=> r.type.len \in 1..50
  BY <1>1, <1>4
<1>7. ~(r.payload.size > maxPayloadSize) <=> r.payload.size <= 100 * 1024
  BY <1>1, <1>4
<1>8. r.type.len \in 1..50 => r.body.value # "null"
  BY <1>1
<1> HIDE DEF fits
<1> QED
  BY <1>1, <1>5, <1>6, <1>7, <1>8, SubmitRefusal DEF fits

-----------------------------------------------------------------------------
(* Polls.  A path that the router takes for a poll has the parts "",       *)
(* "tasks" and the ID; what follows it may be anything.                    *)

(* The first part is what the second was, and the second what the third    *)
(* was, unless that is empty; then there is no second, or an empty one.    *)
Shifted(parts, names, empty) ==
    IF names[3] = empty
      THEN Len(parts) = 1 \/ (Len(parts) >= 2 /\ parts[2] = empty)
      ELSE Len(parts) >= 2 /\ parts[1] = names[2] /\ parts[2] = names[3]

(* Trimming a sequence whose first element is empty and whose second is    *)
(* not.                                                                    *)
LEMMA Trimmed ==
  ASSUME NEW S, NEW names \in Seq(S), NEW empty, Len(names) > 2,
         names[1] = empty, names[2] # empty,
         NEW filled, \A i : i \in filled <=> i \in 1..Len(names) /\ names[i] # empty,
         NEW parts, parts = SubSeq(names, Min(filled), Max(filled))
  PROVE  Shifted(parts, names, empty)
<1>1. Len(names) \in Nat
  OBVIOUS
<1>2. 1 \notin filled /\ 2 \in filled /\ filled \subseteq 1..Len(names)
  BY <1>1
<1>3. Min(filled) = 2
  <2>1. Min(filled) \in filled /\ Min(filled) <= 2
    BY <1>2, MinIsLeast
  <2>2. Min(filled) \in 1..Len(names) /\ Min(filled) # 1
    BY <1>2, <2>1
  <2> QED
    BY <1>1, <2>1, <2>2
<1>4. PICK last : last = Max(filled)
  OBVIOUS
<1>5. last \in 1..Len(names) /\ \A i \in filled : last >= i
  BY <1>1, <1>2, <1>4, MaxIsGreatest
<1>6. last >= 2 /\ (names[3] # empty => last >= 3)
  <2>1. names[3] # empty => 3 \in filled
    BY <1>1
  <2> QED
    BY <1>2, <1>5, <2>1
<1>7. /\ Len(parts) = last - 1
      /\ \A i \in 1..(last - 1) : parts[i] = names[i + 1]
  <2>1. \A i \in 2..last : names[i] \in S
    BY <1>1, <1>5
  <2>2. parts = SubSeq(names, 2, last)
    BY <1>3, <1>4
  <2>3. /\ Len(parts) = IF 2 <= last THEN last - 2 + 1 ELSE 0
        /\ \A i \in 1..(last - 2 + 1) : parts[i] = names[2 + i - 1]
    BY <1>5, <2>1, <2>2, SubSeqProperties
  <2>4. last - 2 + 1 = last - 1 /\ 2 <= last
    BY <1>5, <1>6
  <2>5. Len(parts) = last - 1 /\ \A i \in 1..(last - 1) : parts[i] = names[2 + i - 1]
    BY <2>3, <2>4, Zenon
  <2>6. \A i \in 1..(last - 1) : 2 + i - 1 = i + 1
    OBVIOUS
  <2> QED
    BY <2>5, <2>6, Zenon
<1>8. CASE last = 2
  <2>1. Len(parts) = 1 /\ names[3] = empty
    BY <1>6, <1>7, <1>8
  <2> QED
    BY <2>1, Zenon DEF Shifted
<1>9. CASE last >= 3
  <2>1. Len(parts) >= 2 /\ 1 \in 1..(last - 1) /\ 2 \in 1..(last - 1)
    BY <1>5, <1>7, <1>9
  <2>2. parts[1] = names[1 + 1] /\ parts[2] = names[2 + 1]
    BY <1>7, <2>1, Zenon
  <2>3. 1 + 1 = 2 /\ 2 + 1 = 3
    OBVIOUS
  <2> QED
    BY <2>1, <2>2, <2>3, Zenon DEF Shifted
<1> QED
  BY <1>5, <1>6, <1>8, <1>9

(* A sequence is a function on the numbers up to its length.               *)
LEMMA SequenceShape ==
  ASSUME NEW S, NEW seq \in Seq(S)
  PROVE  /\ Len(seq) \in Nat /\ DOMAIN seq = 1..Len(seq)
         /\ \A i \in 1..Len(seq) : seq[i] \in S
OBVIOUS

(* ... and such a function is a sequence.                                  *)
LEMMA FunctionIsSequence ==
  ASSUME NEW S, NEW n \in Nat, NEW f \in [1..n -> S]
  PROVE  f \in Seq(S) /\ Len(f) = n
OBVIOUS

(* The texts of a path.                                                    *)
LEMMA PathTexts ==
  ASSUME NEW path \in Path, NEW names, names = Texts(path)
  PROVE  /\ names \in Seq(STRING) /\ Len(names) = Len(path)
         /\ names[1] = path[1].text /\ names[1] = ""
         /\ \A i \in 1..Len(path) : names[i] = path[i].text
<1>1. path \in Seq(Part) /\ Len(path) > 1 /\ path[1].text = ""
  BY Zenon DEF Path
<1>2. PICK n : n = Len(path)
  OBVIOUS
<1>3. n \in Nat /\ DOMAIN path = 1..n /\ \A i \in 1..n : path[i] \in Part
  BY <1>1, <1>2, SequenceShape, Zenon
<1>4. n > 1
  BY <1>1, <1>2, Zenon
<1>5. 1 \in 1..n
  BY <1>3, <1>4
<1>6. \A part \in Part : part.text \in STRING
  BY DEF Part
<1>7. names = [i \in 1..n |-> path[i].text]
  BY <1>3, Zenon DEF Texts
<1>8. names \in [1..n -> STRING]
  BY <1>3, <1>6, <1>7, Zenon
<1>9. names \in Seq(STRING) /\ Len(names) = n
  BY <1>3, <1>8, FunctionIsSequence, Zenon
<1> QED
  BY <1>1, <1>2, <1>5, <1>7, <1>9, Zenon

(* What the handler makes of such a path.                                  *)
LEMMA StatusPath ==
  ASSUME NEW r, r.path \in Path, Route(r) = "status", NEW parts, parts = PathParts(r.path),
         NEW ID, ID = r.path[3].text
  PROVE  IF ID = "" THEN Len(parts) = 1 \/ (Len(parts) >= 2 /\ parts[2] = "")
                    ELSE Len(parts) >= 2 /\ parts[1] = "tasks" /\ parts[2] = ID
<1>1. PICK names : names = Texts(r.path)
  OBVIOUS
<1>2. /\ names \in Seq(STRING) /\ Len(names) = Len(r.path)
      /\ names[1] = "" /\ \A i \in 1..Len(r.path) : names[i] = r.path[i].text
  BY <1>1, PathTexts, Zenon
<1>3. Len(names) > 2 /\ names[2] = "tasks"
  BY <1>1, Zenon DEF Route
<1>4. Len(names) \in Nat /\ 2 \in 1..Len(names) /\ 3 \in 1..Len(names)
  <2>1. PICK n : n = Len(names)
    OBVIOUS
  <2>2. n \in Nat /\ n > 2
    BY <1>2, <1>3, <2>1, SequenceShape, Zenon
  <2>3. 2 \in 1..n /\ 3 \in 1..n
    BY <2>2
  <2> QED
    BY <2>1, <2>2, <2>3, Zenon
<1>5. names[3] = ID
  BY <1>2, <1>4, Zenon
<1>6. PICK empty : empty = ""
  OBVIOUS
<1>7. names[2] # ""
  BY <1>3
<1> DEFINE filled == {i \in DOMAIN names : names[i] # ""}
<1>d. DOMAIN names = 1..Len(names)
  BY <1>2, SequenceShape, Zenon
<1>8. \A i : i \in filled <=> i \in 1..Len(names) /\ names[i] # empty
  BY <1>6, <1>d, Zenon
<1>9. parts = SubSeq(names, Min(filled), Max(filled))
  BY <1>1, <1>4, <1>7, <1>d, Zenon DEF PathParts
<1> HIDE DEF filled
<1>10. Shifted(parts, names, empty)
  BY <1>2, <1>3, <1>6, <1>7, <1>8, <1>9, Trimmed, Zenon
<1> QED
  BY <1>3, <1>5, <1>6, <1>10, Zenon DEF Shifted

-----------------------------------------------------------------------------
(* The handlers.                                                           *)

(* time.Duration(n) * time.Second is exact as long as it fits into an int, *)
(* and a timer never fires as late as asked for when it does not.          *)
LEMMA SleepLength ==
  ASSUME NEW n \in 1..MaxInt
  PROVE  IF n <= MaxInt \div Second THEN Timer(Duration(n)) = n * Second
                                    ELSE Timer(Duration(n)) < n * Second
<1>0. MaxInt \in Nat /\ Second \in 1..MaxInt
  BY HandlersAssumption
<1>1. PICK x \in Int : x = n * Second /\ x > 0
  BY <1>0
<1>2. Wrap(x) \in Int /\ Wrap(x) <= MaxInt
  BY <1>0 DEF Wrap
<1>3. x <= MaxInt => Wrap(x) = x
  BY <1>0, <1>1 DEF Wrap
<1>4. n <= MaxInt \div Second => x <= MaxInt
  BY <1>0, <1>1
<1>5. n > MaxInt \div Second => x > MaxInt
  BY <1>0, <1>1
<1>6. x <= MaxInt => Timer(Wrap(x)) = x
  BY <1>1, <1>3 DEF Timer
<1>7. x > MaxInt => Timer(Wrap(x)) < x
  BY <1>0, <1>1, <1>2 DEF Timer
<1>8. n <= MaxInt \div Second \/ n > MaxInt \div Second
  BY <1>0
<1> QED
  BY <1>1, <1>4, <1>5, <1>6, <1>7, <1>8 DEF Duration

(* A sleep task that is done slept for its positive number of seconds.     *)
LEMMA SleepAnswer ==
  ASSUME NEW p \in Payload, NEW a \in SleepHandler(p), a.code = 200
  PROVE  p.seconds \in 1..MaxInt /\ a.slept = Timer(Duration(p.seconds))
<1>1. p.seconds # Missing /\ p.seconds > 0 /\ a = Answer(200, Timer(Duration(p.seconds)))
  BY DEF SleepHandler, Rejected, Answer
<1>2. p.seconds \in 1..MaxInt
  BY <1>1, HandlersAssumption DEF Payload, Ints
<1> QED
  BY <1>1, <1>2 DEF Answer

(* The queue changes what a payload means to a print task only, and only a *)
(* payload that is absent.                                                 *)
LEMMA Requeued ==
  ASSUME NEW p \in Payload, NEW type
  PROVE  {a.code : a \in Run(type, p)} # {a.code : a \in Run(type, Requeue(p))} <=>
            type = "print" /\ p.json = "absent"
<1>1. CASE p.json # "absent"
  <2>1. Requeue(p) = p
    BY <1>1 DEF Requeue
  <2> QED
    BY <1>1, <2>1
<1>2. CASE p.json = "absent"
  <2>1. PICK q : q = Requeue(p)
    OBVIOUS
  <2>2. ~Decodes(p) /\ p.seconds = Missing
    BY <1>2 DEF Decodes, Payload
  <2>3. Decodes(q) /\ q.seconds = Missing
    BY <1>2, <2>1, <2>2 DEF Requeue, Decodes, Payload
  <2>4. CASE type = "print"
    <3>1. Run(type, p) = {Answer(400, 0)} /\ Run(type, q) = {Answer(200, 0)}
      BY <2>2, <2>3, <2>4 DEF Run, Registered, PrintHandler, Rejected
    <3>2. 400 \in {a.code : a \in Run(type, p)} /\ 400 \notin {a.code : a \in Run(type, q)}
      BY <3>1 DEF Answer
    <3> QED
      BY <1>2, <2>1, <2>4, <3>2, Zenon
  <2>5. CASE type # "print"
    <3>1. Run(type, p) = Run(type, q)
      BY <2>2, <2>3, <2>5 DEF Run, SleepHandler
    <3> QED
      BY <2>1, <2>5, <3>1
  <2> QED
    BY <2>4, <2>5
<1> QED
  BY <1>1, <1>2

-----------------------------------------------------------------------------
(* The configuration.                                                      *)

(* What main can find in the environment.                                  *)
EnvTypeOK ==
    /\ env = [v \in EnvVars |-> env[v]]
    /\ \A v \in EnvVars : env[v] \in Meaning[v] \cup {Unset}

(* The variables of LoadConfig.                                            *)
LEMMA Variables ==
  EnvVars = {"PORT", "LOG_LEVEL", "TASK_TIMEOUT", "SHUTDOWN_TIMEOUT", "VERSION", "ASYNC_MODE",
             "REDIS_URL", "WORKER_COUNT", "QUEUE_NAME"}
BY DEF EnvVars, Default

(* What each variable may be.                                              *)
LEMMA Settings ==
  ASSUME EnvTypeOK
  PROVE  /\ \A v \in {"PORT", "TASK_TIMEOUT", "SHUTDOWN_TIMEOUT", "WORKER_COUNT"} :
               env[v] \in Int \/ env[v] \in {Unset, Garbage}
         /\ env["LOG_LEVEL"] \in LevelText \/ env["LOG_LEVEL"] = Unset
         /\ env["ASYNC_MODE"] \in BOOLEAN \/ env["ASYNC_MODE"] \in {Unset, Garbage}
BY Variables DEF EnvTypeOK, Meaning

(* The first complaint is made when there is one.                          *)
LEMMA FirstComplaint ==
  ASSUME NEW n \in Nat, NEW e, NEW complaints, complaints = Complaints(ReadEnv(e)),
         DOMAIN complaints = 1..n, \A i \in 1..n : complaints[i].about # "none"
  PROVE  \/ Refused(e) = "none" /\ \A i \in 1..n : ~complaints[i].when
         \/ \E i \in 1..n : complaints[i].when /\ Refused(e) = complaints[i].about
<1> DEFINE justified == {i \in 1..n : complaints[i].when}
<1>1. justified # {} => Min(justified) \in justified
  BY MinIsLeast
<1>2. Refused(e) = IF justified = {} THEN "none" ELSE complaints[Min(justified)].about
  BY DEF Refused
<1> QED
  BY <1>1, <1>2

(* validate complains about a variable ...                                 *)
LEMMA ComplaintsAre ==
  ASSUME NEW c
  PROVE  /\ DOMAIN Complaints(c) = 1..8
         /\ Complaints(c)[1] = Complaint(c.PORT < 1 \/ c.PORT > 65535, "PORT")
         /\ Complaints(c)[2] = Complaint(c.LOG_LEVEL.word \notin validLevels, "LOG_LEVEL")
         /\ Complaints(c)[3] = Complaint(c.TASK_TIMEOUT <= 0 \/ c.TASK_TIMEOUT > 86400, "TASK_TIMEOUT")
         /\ Complaints(c)[4] = Complaint(c.SHUTDOWN_TIMEOUT <= 0 \/ c.SHUTDOWN_TIMEOUT > 300, "SHUTDOWN_TIMEOUT")
         /\ Complaints(c)[5] = Complaint(c.VERSION = "blank", "VERSION")
         /\ Complaints(c)[6] = Complaint(c.ASYNC_MODE /\ c.WORKER_COUNT < 1, "WORKER_COUNT")
         /\ Complaints(c)[7] = Complaint(c.ASYNC_MODE /\ c.REDIS_URL = "blank", "REDIS_URL")
         /\ Complaints(c)[8] = Complaint(c.ASYNC_MODE /\ c.QUEUE_NAME = "blank", "QUEUE_NAME")
BY DEF Complaints

(* ... exactly when it is wrong.                                           *)
LEMMA ComplaintsAreJust ==
  ASSUME EnvTypeOK, NEW c, c = ReadEnv(env)
  PROVE  /\ (c.PORT < 1 \/ c.PORT > 65535) <=> IsWrong("PORT")
         /\ (c.LOG_LEVEL.word \notin validLevels) <=> IsWrong("LOG_LEVEL")
         /\ (c.TASK_TIMEOUT <= 0 \/ c.TASK_TIMEOUT > 86400) <=> IsWrong("TASK_TIMEOUT")
         /\ (c.SHUTDOWN_TIMEOUT <= 0 \/ c.SHUTDOWN_TIMEOUT > 300) <=> IsWrong("SHUTDOWN_TIMEOUT")
         /\ (c.VERSION = "blank") <=> IsWrong("VERSION")
         /\ (c.ASYNC_MODE /\ c.WORKER_COUNT < 1) <=> IsWrong("WORKER_COUNT")
         /\ (c.ASYNC_MODE /\ c.REDIS_URL = "blank") <=> IsWrong("REDIS_URL")
         /\ (c.ASYNC_MODE /\ c.QUEUE_NAME = "blank") <=> IsWrong("QUEUE_NAME")
<1>1. \A v \in EnvVars : c[v] = IF env[v] \in {Unset, Garbage} THEN Default[v] ELSE env[v]
  BY DEF ReadEnv, GetEnv
<1>2. \A v \in EnvVars : env[v] \in {Unset, Garbage} => c[v] = Default[v]
  BY <1>1
<1>3. \A v \in EnvVars : env[v] \notin {Unset, Garbage} => c[v] = env[v]
  BY <1>1
<1>4. (c.PORT < 1 \/ c.PORT > 65535) <=> IsWrong("PORT")
  <2>1. IsWrong("PORT") <=> env["PORT"] \notin {Unset, Garbage} /\ ~(1 <= env["PORT"] /\ env["PORT"] <= 65535)
    BY DEF IsWrong
  <2>2. CASE env["PORT"] \in {Unset, Garbage}
    BY <1>2, <2>1, <2>2, Variables DEF Default
  <2>3. CASE env["PORT"] \notin {Unset, Garbage}
    BY <1>3, <2>1, <2>3, Settings, Variables
  <2> QED
    BY <2>2, <2>3
<1>5. (c.LOG_LEVEL.word \notin validLevels) <=> IsWrong("LOG_LEVEL")
  <2>1. IsWrong("LOG_LEVEL") <=>
            env["LOG_LEVEL"] \notin {Unset, Garbage} /\ env["LOG_LEVEL"].word \notin validLevels
    BY DEF IsWrong, validLevels
  <2>2. CASE env["LOG_LEVEL"] \in {Unset, Garbage}
    <3>1. c.LOG_LEVEL.word = "INFO"
      BY <1>2, <2>2, Variables DEF Default, Level
    <3> QED
      BY <2>1, <2>2, <3>1 DEF validLevels
  <2>3. CASE env["LOG_LEVEL"] \notin {Unset, Garbage}
    BY <1>3, <2>1, <2>3, Variables
  <2> QED
    BY <2>2, <2>3, Zenon
<1>6. (c.TASK_TIMEOUT <= 0 \/ c.TASK_TIMEOUT > 86400) <=> IsWrong("TASK_TIMEOUT")
  <2>1. IsWrong("TASK_TIMEOUT") <=>
            env["TASK_TIMEOUT"] \notin {Unset, Garbage} /\ ~(1 <= env["TASK_TIMEOUT"] /\ env["TASK_TIMEOUT"] <= 24 * 60 * 60)
    BY DEF IsWrong
  <2>2. CASE env["TASK_TIMEOUT"] \in {Unset, Garbage}
    BY <1>2, <2>1, <2>2, Variables DEF Default
  <2>3. CASE env["TASK_TIMEOUT"] \notin {Unset, Garbage}
    BY <1>3, <2>1, <2>3, Settings, Variables
  <2> QED
    BY <2>2, <2>3
<1>7. (c.SHUTDOWN_TIMEOUT <= 0 \/ c.SHUTDOWN_TIMEOUT > 300) <=> IsWrong("SHUTDOWN_TIMEOUT")
  <2>1. IsWrong("SHUTDOWN_TIMEOUT") <=>
            env["SHUTDOWN_TIMEOUT"] \notin {Unset, Garbage} /\ ~(1 <= env["SHUTDOWN_TIMEOUT"] /\ env["SHUTDOWN_TIMEOUT"] <= 5 * 60)
    BY DEF IsWrong
  <2>2. CASE env["SHUTDOWN_TIMEOUT"] \in {Unset, Garbage}
    BY <1>2, <2>1, <2>2, Variables DEF Default
  <2>3. CASE env["SHUTDOWN_TIMEOUT"] \notin {Unset, Garbage}
    BY <1>3, <2>1, <2>3, Settings, Variables
  <2> QED
    BY <2>2, <2>3
<1>8. (c.VERSION = "blank") <=> IsWrong("VERSION")
  BY <1>2, <1>3, Variables DEF IsWrong, Default
<1>9. c.ASYNC_MODE <=> env["ASYNC_MODE"] = TRUE
  <2>1. \A b \in BOOLEAN : b \notin {Unset, Garbage}
    BY ConfigurationAssumption
  <2>2. CASE env["ASYNC_MODE"] \in {Unset, Garbage}
    <3>1. env["ASYNC_MODE"] # TRUE
      BY <2>1, <2>2, Zenon
    <3>2. c.ASYNC_MODE = FALSE
      <4>1. "ASYNC_MODE" \in EnvVars
        BY Variables
      <4>2. Default["ASYNC_MODE"] = FALSE
        BY DEF Default
      <4> QED
        BY <1>2, <2>2, <4>1, <4>2, Zenon
    <3> QED
      BY <3>1, <3>2, Zenon
  <2>3. CASE env["ASYNC_MODE"] \notin {Unset, Garbage}
    <3>1. env["ASYNC_MODE"] \in BOOLEAN
      BY <2>3, Settings, Zenon
    <3>2. c.ASYNC_MODE = env["ASYNC_MODE"]
      <4>1. "ASYNC_MODE" \in EnvVars
        BY Variables
      <4> QED
        BY <1>3, <2>3, <4>1, Zenon
    <3> QED
      BY <3>1, <3>2, Zenon
  <2> QED
    BY <2>2, <2>3, Zenon
<1>10. (c.ASYNC_MODE /\ c.WORKER_COUNT < 1) <=> IsWrong("WORKER_COUNT")
  <2>1. IsWrong("WORKER_COUNT") <=>
            env["WORKER_COUNT"] \notin {Unset, Garbage} /\ env["ASYNC_MODE"] = TRUE
              /\ env["WORKER_COUNT"] \notin Nat \ {0}
    BY DEF IsWrong
  <2>2. c.WORKER_COUNT < 1 <=>
            env["WORKER_COUNT"] \notin {Unset, Garbage} /\ env["WORKER_COUNT"] \notin Nat \ {0}
    <3>1. CASE env["WORKER_COUNT"] \in {Unset, Garbage}
      BY <1>2, <3>1, Variables DEF Default
    <3>2. CASE env["WORKER_COUNT"] \notin {Unset, Garbage}
      BY <1>3, <3>2, Settings, Variables
    <3> QED
      BY <3>1, <3>2, Zenon
  <2> QED
    BY <1>9, <2>1, <2>2, Zenon
<1>11. (c.ASYNC_MODE /\ c.REDIS_URL = "blank") <=> IsWrong("REDIS_URL")
  <2>1. IsWrong("REDIS_URL") <=>
            env["REDIS_URL"] \notin {Unset, Garbage} /\ env["ASYNC_MODE"] = TRUE /\ env["REDIS_URL"] = "blank"
    BY DEF IsWrong
  <2>2. c.REDIS_URL = "blank" <=> env["REDIS_URL"] \notin {Unset, Garbage} /\ env["REDIS_URL"] = "blank"
    BY <1>2, <1>3, Variables DEF Default
  <2> QED
    BY <1>9, <2>1, <2>2, Zenon
<1>12. (c.ASYNC_MODE /\ c.QUEUE_NAME = "blank") <=> IsWrong("QUEUE_NAME")
  <2>1. IsWrong("QUEUE_NAME") <=>
            env["QUEUE_NAME"] \notin {Unset, Garbage} /\ env["ASYNC_MODE"] = TRUE /\ env["QUEUE_NAME"] = "blank"
    BY DEF IsWrong
  <2>2. c.QUEUE_NAME = "blank" <=> env["QUEUE_NAME"] \notin {Unset, Garbage} /\ env["QUEUE_NAME"] = "blank"
    BY <1>2, <1>3, Variables DEF Default
  <2> QED
    BY <1>9, <2>1, <2>2, Zenon
<1> QED
  BY <1>4, <1>5, <1>6, <1>7, <1>8, <1>10, <1>11, <1>12
(* A complaint is made when its condition holds.                           *)
LEMMA WhenComplaining ==
  ASSUME NEW P, NEW v, NEW x, x = Complaint(P, v)
  PROVE  x.when <=> P
BY Zenon DEF Complaint

(* What LoadConfig refuses is wrong, and nothing is wrong when it refuses  *)
(* nothing.                                                                *)
LEMMA RefusedIsWrong ==
  ASSUME EnvTypeOK
  PROVE  /\ Refused(env) # "none" => IsWrong(Refused(env))
         /\ Refused(env) = "none" => \A v \in EnvVars : ~IsWrong(v)
<1> DEFINE c == ReadEnv(env)
           complaints == Complaints(c)
           names == <<"PORT", "LOG_LEVEL", "TASK_TIMEOUT", "SHUTDOWN_TIMEOUT", "VERSION",
                      "WORKER_COUNT", "REDIS_URL", "QUEUE_NAME">>
<1>1. \A i \in 1..8 : complaints[i].about = names[i] /\ names[i] # "none"
  BY DEF Complaints, Complaint
<1>2. \A i \in 1..8 : complaints[i].when <=> IsWrong(names[i])
  <2>1. complaints[1].when <=> IsWrong("PORT")
    <3> DEFINE out == c.PORT < 1 \/ c.PORT > 65535
    <3>1. complaints[1] = Complaint(out, "PORT")
      BY ComplaintsAre
    <3>2. out <=> IsWrong("PORT")
      BY ComplaintsAreJust
    <3>3. out \in BOOLEAN
      OBVIOUS
    <3> HIDE DEF out
    <3>4. complaints[1].when <=> out
      BY <3>1, <3>3, WhenComplaining, Zenon
    <3> QED
      BY <3>2, <3>4, Zenon
  <2>2. complaints[2].when <=> IsWrong("LOG_LEVEL")
    <3>1. complaints[2] = Complaint(c.LOG_LEVEL.word \notin validLevels, "LOG_LEVEL")
      BY ComplaintsAre
    <3>2. (c.LOG_LEVEL.word \notin validLevels) <=> IsWrong("LOG_LEVEL")
      BY ComplaintsAreJust
    <3>3. complaints[2].when <=> c.LOG_LEVEL.word \notin validLevels
      BY <3>1, WhenComplaining, Zenon
    <3> QED
      BY <3>2, <3>3, Zenon
  <2>3. complaints[3].when <=> IsWrong("TASK_TIMEOUT")
    <3> DEFINE out == c.TASK_TIMEOUT <= 0 \/ c.TASK_TIMEOUT > 86400
    <3>1. complaints[3] = Complaint(out, "TASK_TIMEOUT")
      BY ComplaintsAre
    <3>2. out <=> IsWrong("TASK_TIMEOUT")
      BY ComplaintsAreJust
    <3>3. out \in BOOLEAN
      OBVIOUS
    <3> HIDE DEF out
    <3>4. complaints[3].when <=> out
      BY <3>1, <3>3, WhenComplaining, Zenon
    <3> QED
      BY <3>2, <3>4, Zenon
  <2>4. complaints[4].when <=> IsWrong("SHUTDOWN_TIMEOUT")
    <3> DEFINE out == c.SHUTDOWN_TIMEOUT <= 0 \/ c.SHUTDOWN_TIMEOUT > 300
    <3>1. complaints[4] = Complaint(out, "SHUTDOWN_TIMEOUT")
      BY ComplaintsAre
    <3>2. out <=> IsWrong("SHUTDOWN_TIMEOUT")
      BY ComplaintsAreJust
    <3>3. out \in BOOLEAN
      OBVIOUS
    <3> HIDE DEF out
    <3>4. complaints[4].when <=> out
      BY <3>1, <3>3, WhenComplaining, Zenon
    <3> QED
      BY <3>2, <3>4, Zenon
  <2>5. complaints[5].when <=> IsWrong("VERSION")
    <3>1. complaints[5] = Complaint(c.VERSION = "blank", "VERSION")
      BY ComplaintsAre
    <3>2. (c.VERSION = "blank") <=> IsWrong("VERSION")
      BY ComplaintsAreJust
    <3>3. complaints[5].when <=> c.VERSION = "blank"
      BY <3>1, WhenComplaining, Zenon
    <3> QED
      BY <3>2, <3>3, Zenon
  <2>6. complaints[6].when <=> IsWrong("WORKER_COUNT")
    <3>1. complaints[6] = Complaint(c.ASYNC_MODE /\ c.WORKER_COUNT < 1, "WORKER_COUNT")
      BY ComplaintsAre
    <3>2. (c.ASYNC_MODE /\ c.WORKER_COUNT < 1) <=> IsWrong("WORKER_COUNT")
      BY ComplaintsAreJust
    <3>3. complaints[6].when <=> c.ASYNC_MODE /\ c.WORKER_COUNT < 1
      BY <3>1, WhenComplaining, Zenon
    <3> QED
      BY <3>2, <3>3, Zenon
  <2>7. complaints[7].when <=> IsWrong("REDIS_URL")
    <3>1. complaints[7] = Complaint(c.ASYNC_MODE /\ c.REDIS_URL = "blank", "REDIS_URL")
      BY ComplaintsAre
    <3>2. (c.ASYNC_MODE /\ c.REDIS_URL = "blank") <=> IsWrong("REDIS_URL")
      BY ComplaintsAreJust
    <3>3. complaints[7].when <=> c.ASYNC_MODE /\ c.REDIS_URL = "blank"
      BY <3>1, WhenComplaining, Zenon
    <3> QED
      BY <3>2, <3>3, Zenon
  <2>8. complaints[8].when <=> IsWrong("QUEUE_NAME")
    <3>1. complaints[8] = Complaint(c.ASYNC_MODE /\ c.QUEUE_NAME = "blank", "QUEUE_NAME")
      BY ComplaintsAre
    <3>2. (c.ASYNC_MODE /\ c.QUEUE_NAME = "blank") <=> IsWrong("QUEUE_NAME")
      BY ComplaintsAreJust
    <3>3. complaints[8].when <=> c.ASYNC_MODE /\ c.QUEUE_NAME = "blank"
      BY <3>1, WhenComplaining, Zenon
    <3> QED
      BY <3>2, <3>3, Zenon
  <2> QED
    BY <2>1, <2>2, <2>3, <2>4, <2>5, <2>6, <2>7, <2>8
<1>3. DOMAIN complaints = 1..8
  BY DEF Complaints
<1> HIDE DEF complaints
<1>4. \/ Refused(env) = "none" /\ \A i \in 1..8 : ~complaints[i].when
      \/ \E i \in 1..8 : complaints[i].when /\ Refused(env) = complaints[i].about
  <2>1. 8 \in Nat
    OBVIOUS
  <2>2. \A i \in 1..8 : complaints[i].about # "none"
    BY <1>1
  <2> QED
    BY <1>3, <2>1, <2>2, FirstComplaint DEF complaints
<1>5. ~IsWrong("ASYNC_MODE")
  BY DEF IsWrong
<1>6. \A v \in EnvVars : v = "ASYNC_MODE" \/ \E i \in 1..8 : v = names[i]
  BY Variables
<1> HIDE DEF names
<1> QED
  BY <1>1, <1>2, <1>4, <1>5, <1>6, Zenon

-----------------------------------------------------------------------------
(* The program starts under a configuration that has nothing wrong.        *)

(* The environment has its type, the program serves under what LoadConfig  *)
(* made of it, and it exits only because LoadConfig refused it.            *)
Configured ==
    /\ EnvTypeOK
    /\ pc \in {"configuring", "exited", "serving", "handling", "handled", "answered"}
    /\ pc = "exited" => Refused(env) # "none"
    /\ pc \notin {"configuring", "exited"} => Refused(env) = "none" /\ config = LoadConfig(env)

LEMMA ConfiguredHolds == Spec => []Configured
<1>1. Init => Configured
  <2> SUFFICES ASSUME Init PROVE Configured
    OBVIOUS
  <2>1. EnvTypeOK
    BY DEF Init, EnvTypeOK
  <2> QED
    BY <2>1 DEF Init, Configured
<1>2. Configured /\ [Next]_vars => Configured'
  <2> SUFFICES ASSUME Configured, [Next]_vars PROVE Configured'
    OBVIOUS
  <2>1. ASSUME NEW v \in EnvVars, Export(v) PROVE Configured'
    <3>1. PICK x \in Values[v] : env' = [env EXCEPT ![v] = x]
      BY <2>1 DEF Export
    <3>2. x \in Meaning[v]
      BY ExchangeAssumption
    <3>3. EnvTypeOK'
      BY <3>1, <3>2 DEF Configured, EnvTypeOK
    <3> QED
      BY <2>1, <3>3 DEF Export, Configured
  <2>2. CASE Boot
    <3>1. env' = env /\ EnvTypeOK'
      BY <2>2 DEF Boot, Configured, EnvTypeOK
    <3>2. (pc' = "serving" /\ config' = LoadConfig(env) /\ Refused(env) = "none")
            \/ (pc' = "exited" /\ Refused(env) # "none")
      BY <2>2 DEF Boot
    <3>3. PICK e : e = env
      OBVIOUS
    <3>4. Refused(env)' = Refused(e) /\ LoadConfig(env)' = LoadConfig(e)
      BY <3>1, <3>3
    <3> QED
      BY <3>1, <3>2, <3>3, <3>4 DEF Configured
  <2>3. ASSUME pc \notin {"configuring", "exited"}, UNCHANGED <<env, config>>,
               pc' \in {"handling", "handled", "answered"}
        PROVE  Configured'
    <3>1. EnvTypeOK'
      BY <2>3 DEF Configured, EnvTypeOK
    <3> QED
      BY <2>3, <3>1 DEF Configured
  <2>4. ASSUME NEW r \in Inputs, Receive(r) PROVE Configured'
    BY <2>3, <2>4 DEF Receive
  <2>5. ASSUME NEW broken \in BOOLEAN, Handle(broken) PROVE Configured'
    BY <2>3, <2>5 DEF Handle
  <2>6. CASE LogRequest
    BY <2>3, <2>6 DEF LogRequest
  <2>7. CASE UNCHANGED vars
    BY <2>7 DEF vars, exchange, Configured, EnvTypeOK
  <2> QED
    BY <2>1, <2>2, <2>4, <2>5, <2>6, <2>7 DEF Next
<1> QED
  BY <1>1, <1>2, PTL DEF Spec

(* The program starts exactly under an environment with nothing wrong in   *)
(* it, and what it complains of is wrong, for all values of the variables. *)
THEOREM StartsCorrect == Spec => []StartsUnlessWrong
<1>1. Configured => StartsUnlessWrong
  BY RefusedIsWrong DEF Configured, StartsUnlessWrong
<1> QED
  BY <1>1, ConfiguredHolds, PTL

-----------------------------------------------------------------------------
(* What is sent, captured and logged is what was decided.                  *)

ErrorEntry == <<"ERROR", "response">>
InfoEntry == <<"INFO", "request">>

(* What Handle decides about the request that it was given ...             *)
Decided ==
    /\ answer \in Answers(request) /\ sent = answer.code
    /\ submitted <=> Route(request) = "submit" /\ Refusal(SubmitChecks(request)) = "none"

(* ... and what it tells the middleware and the logger of it.              *)
Told ==
    /\ captured = sent \/ (sent = 200 /\ captured = 500 /\ ErrorEntry \in log)
    /\ answer.logs => ErrorEntry \in log

Exchanged ==
    /\ pc \in {"configuring", "exited", "serving", "handling", "handled", "answered"}
    /\ pc \in {"handling", "handled", "answered"} => request \in Inputs
    /\ pc = "handling" => captured = 200
    /\ pc \in {"handled", "answered"} => Decided /\ Told
    /\ pc \notin {"handled", "answered"} => ~submitted
    /\ pc = "handled" => log \subseteq {ErrorEntry}
    /\ pc = "answered" => (InfoEntry \in log <=> Writes(config.LOG_LEVEL, "INFO"))

(* Every level lets an ERROR entry pass.                                   *)
LEMMA ErrorsPass ==
  ASSUME NEW what
  PROVE  Entries("ERROR", what) = {<<"ERROR", what>>}
<1>1. ParseLevel(config.LOG_LEVEL) \in 0..3
  BY DEF ParseLevel, Severity
<1>2. Severity["ERROR"] = 3
  BY DEF Severity
<1> QED
  BY <1>1, <1>2 DEF Entries, Writes

LEMMA ExchangedHolds == Spec => []Exchanged
<1>1. Init => Exchanged
  BY DEF Init, Exchanged
<1>2. Exchanged /\ [Next]_vars => Exchanged'
  <2> SUFFICES ASSUME Exchanged, [Next]_vars PROVE Exchanged'
    OBVIOUS
  <2>1. ASSUME NEW v \in EnvVars, Export(v) PROVE Exchanged'
    BY <2>1 DEF Export, exchange, Exchanged
  <2>2. CASE Boot
    BY <2>2 DEF Boot, exchange, Exchanged
  <2>3. ASSUME NEW r \in Inputs, Receive(r) PROVE Exchanged'
    BY <2>3 DEF Receive, InitialCode, Exchanged
  <2>4. ASSUME NEW broken \in BOOLEAN, Handle(broken) PROVE Exchanged'
    <3>1. PICK a \in Answers(request) :
              /\ answer' = a
              /\ sent' = a.code
              /\ captured' = IF a.code # 200 THEN a.code ELSE IF broken THEN 500 ELSE captured
              /\ log' = IF a.logs \/ (broken /\ a.code = 200) THEN Entries("ERROR", "response") ELSE {}
      BY <2>4, Zenon DEF Handle
    <3>2. pc = "handling" /\ pc' = "handled" /\ request' = request /\ request \in Inputs /\ captured = 200
      BY <2>4 DEF Handle, Exchanged
    <3>3. Entries("ERROR", "response") = {ErrorEntry}
      BY ErrorsPass DEF ErrorEntry
    <3>4. Decided'
      BY <2>4, <3>1, <3>2 DEF Handle, Decided
    <3>5. Told'
      BY <3>1, <3>2, <3>3 DEF Told
    <3>6. log' \subseteq {ErrorEntry}
      BY <3>1, <3>3
    <3> QED
      BY <3>2, <3>4, <3>5, <3>6 DEF Exchanged
  <2>5. CASE LogRequest
    <3>1. /\ pc = "handled" /\ pc' = "answered" /\ log' = log \cup RequestEntry
          /\ UNCHANGED <<config, request, answer, submitted, sent, captured>>
      BY <2>5 DEF LogRequest
    <3>2. request \in Inputs /\ Decided /\ Told /\ log \subseteq {ErrorEntry}
      BY <3>1 DEF Exchanged
    <3>3. Decided'
      BY <3>1, <3>2 DEF Decided
    <3>4. Told'
      BY <3>1, <3>2 DEF Told
    <3>5. InfoEntry \in log' <=> Writes(config.LOG_LEVEL, "INFO")
      <4>1. InfoEntry # ErrorEntry
        BY DEF InfoEntry, ErrorEntry
      <4> QED
        BY <3>1, <3>2, <4>1 DEF RequestEntry, Entries, InfoEntry
    <3> QED
      BY <3>1, <3>2, <3>3, <3>4, <3>5 DEF Exchanged
  <2>6. CASE UNCHANGED vars
    BY <2>6 DEF vars, exchange, Exchanged, Decided, Told
  <2> QED
    BY <2>1, <2>2, <2>3, <2>4, <2>5, <2>6 DEF Next
<1> QED
  BY <1>1, <1>2, PTL DEF Spec

(* The code the middleware logs is the code the client was sent, but for a *)
(* success whose body could not be written, and that leaves an ERROR entry.*)
THEOREM LoggedCodeCorrect == Spec => []LoggedCodeIsSent
<1>1. Exchanged => LoggedCodeIsSent
  BY DEF Exchanged, Told, ErrorEntry, LoggedCodeIsSent
<1> QED
  BY <1>1, ExchangedHolds, PTL

(* A submission or a poll that is answered with an error is logged as one. *)
THEOREM ErrorsCorrect == Spec => []ErrorsAreLogged
<1>1. ASSUME NEW r, Route(r) \in {"submit", "status"}, NEW a \in Answers(r), a.code # 200
      PROVE  a.logs
  <2>1. CASE Route(r) = "submit"
    <3>1. CASE Refusal(SubmitChecks(r)) # "none"
      BY <1>1, <2>1, <3>1 DEF Answers, SubmitAnswers, Reply
    <3>2. CASE Refusal(SubmitChecks(r)) = "none"
      <4>1. PICK b \in Run(r.type.name, r.payload) : a = Reply(b.code, b.slept, b.code # 200)
        BY <1>1, <2>1, <3>2 DEF Answers, SubmitAnswers
      <4> QED
        BY <1>1, <4>1 DEF Reply
    <3> QED
      BY <3>1, <3>2
  <2>2. CASE Route(r) = "status"
    <3>1. a \in StatusAnswers(r)
      BY <1>1, <2>2 DEF Answers
    <3>2. a \in {Reply(400, 0, TRUE), Reply(200, 0, FALSE), Reply(404, 0, TRUE)}
      BY <3>1 DEF StatusAnswers
    <3> QED
      BY <1>1, <3>2 DEF Reply
  <2> QED
    BY <1>1, <2>1, <2>2
<1>2. Exchanged => ErrorsAreLogged
  <2> SUFFICES ASSUME Exchanged, pc = "answered", Route(request) \in {"submit", "status"}, sent # 200
               PROVE  ErrorEntry \in log
    BY DEF ErrorsAreLogged, ErrorEntry
  <2>1. answer \in Answers(request) /\ answer.code # 200 /\ (answer.logs => ErrorEntry \in log)
    BY DEF Exchanged, Decided, Told
  <2> QED
    BY <1>1, <2>1
<1> QED
  BY <1>2, ExchangedHolds, PTL

(* The level the operator set decides about the entry of a request, and    *)
(* FATAL counts as INFO.                                                   *)
THEOREM LevelCorrect == Spec => []LevelIsHonoured
<1>1. Configured /\ Exchanged => LevelIsHonoured
  <2> SUFFICES ASSUME Configured, Exchanged, pc = "answered"
               PROVE  InfoEntry \in log <=>
                        (env["LOG_LEVEL"] = Unset \/ env["LOG_LEVEL"].word \in {"DEBUG", "INFO", "FATAL"})
    BY DEF LevelIsHonoured, InfoEntry
  <2>1. EnvTypeOK /\ Refused(env) = "none" /\ config = LoadConfig(env)
    BY DEF Configured
  <2>2. InfoEntry \in log <=> ParseLevel(config.LOG_LEVEL) <= 1
    BY DEF Exchanged, Writes, Severity
  <2> DEFINE level == GetEnv(env, "LOG_LEVEL")
  <2>3. config.LOG_LEVEL = Level(level.word, FALSE)
    <3>1. ReadEnv(env) = [v \in EnvVars |-> GetEnv(env, v)]
      BY DEF ReadEnv
    <3> QED
      BY <2>1, <3>1, Variables DEF LoadConfig, Normalise
  <2>4. ParseLevel(config.LOG_LEVEL) <= 1 <=> level.word \notin {"WARN", "ERROR"}
    BY <2>3 DEF ParseLevel, Severity, Level
  <2>5. CASE env["LOG_LEVEL"] = Unset
    BY <2>2, <2>4, <2>5 DEF GetEnv, Default, Level
  <2>6. CASE env["LOG_LEVEL"] # Unset
    <3>1. env["LOG_LEVEL"] \in LevelText
      BY <2>1, <2>6, Settings
    <3>2. env["LOG_LEVEL"] \notin {Unset, Garbage}
      BY <3>1, ConfigurationAssumption
    <3>3. level = env["LOG_LEVEL"]
      BY <3>2 DEF GetEnv
    <3>4. level.word \in {"DEBUG", "INFO", "WARN", "ERROR", "FATAL"}
      BY <2>1, <3>2, <3>3, RefusedIsWrong, Variables DEF IsWrong
    <3> QED
      BY <2>2, <2>4, <2>6, <3>3, <3>4
  <2> QED
    BY <2>5, <2>6
<1> QED
  BY <1>1, ConfiguredHolds, ExchangedHolds, PTL

-----------------------------------------------------------------------------
(* What becomes of the request.                                            *)

(* A submission reaches the orchestrator exactly when it is a POST within  *)
(* the limits, for every length and size.                                  *)
THEOREM LimitsCorrect == Spec => []LimitsDecide
<1>1. ASSUME NEW r, r.path \in Path PROVE Route(r) = "submit" <=> Texts(r.path) = <<"", "submit">>
  <2>1. CASE Texts(r.path) = <<"", "submit">>
    <3>1. PICK names : names = Texts(r.path)
      OBVIOUS
    <3>2. PICK n : n = 2
      OBVIOUS
    <3>3. /\ Len(names) = n /\ names[2] = "submit" /\ names # <<"", "tasks">>
          /\ n \in Nat /\ 2 \in 1..n /\ ~(n > 2)
      <4>1. <<"", "submit">>[2] = "submit" /\ <<"", "submit">> # <<"", "tasks">>
        OBVIOUS
      <4>2. Len(<<"", "submit">>) = n
        BY <3>2
      <4>3. n \in Nat /\ 2 \in 1..n /\ ~(n > 2)
        BY <3>2
      <4> QED
        BY <2>1, <3>1, <4>1, <4>2, <4>3, Zenon
    <3>4. Len(r.path) = n /\ r.path[2].text = "submit"
      <4>1. /\ Len(names) = Len(r.path)
            /\ \A i \in 1..Len(r.path) : names[i] = r.path[i].text
        BY <1>1, <3>1, PathTexts, Zenon
      <4>2. Len(r.path) = n
        BY <3>3, <4>1, Zenon
      <4>3. names[2] = r.path[2].text
        BY <3>3, <4>1, <4>2, Zenon
      <4> QED
        BY <3>3, <4>2, <4>3, Zenon
    <3>5. \A i \in 2..n : i = 2 /\ ~(i < n)
      BY <3>2
    <3>6. "submit" \notin {".", ".."}
      OBVIOUS
    <3>7. ~Unclean(r.path)
      BY <3>4, <3>5, <3>6, Zenon DEF Unclean
    <3> QED
      BY <2>1, <3>1, <3>3, <3>7, Zenon DEF Route
  <2>2. CASE Texts(r.path) # <<"", "submit">>
    <3>1. Route(r) \in {"redirect", "status", "health", "notfound"}
      BY <2>2, Zenon DEF Route
    <3> QED
      BY <2>2, <3>1
  <2> QED
    BY <2>1, <2>2
<1>2. Exchanged => LimitsDecide
  <2> SUFFICES ASSUME Exchanged, pc = "answered" PROVE LimitsDecide
    BY DEF LimitsDecide
  <2>1. /\ request \in Request
        /\ submitted <=> Route(request) = "submit" /\ Refusal(SubmitChecks(request)) = "none"
    BY ExchangeAssumption DEF Exchanged, Decided
  <2>2. submitted <=> Texts(request.path) = <<"", "submit">> /\ Refusal(SubmitChecks(request)) = "none"
    <3>1. request.path \in Path
      BY <2>1 DEF Request
    <3> QED
      BY <1>1, <2>1, <3>1
  <2> DEFINE fits ==
               /\ request.method = "POST"
               /\ request.body.end <= 1024 * 1024 /\ request.body.end <= request.body.size
               /\ request.body.value = "object"
               /\ request.type.len \in 1..50
               /\ request.payload.size <= 100 * 1024
  <2>3. Refusal(SubmitChecks(request)) = "none" <=> fits
    BY <2>1, SubmitDecision
  <2>4. LimitsDecide <=> (submitted <=> Texts(request.path) = <<"", "submit">> /\ fits)
    BY DEF LimitsDecide
  <2> HIDE DEF fits
  <2> QED
    BY <2>2, <2>3, <2>4, Zenon
<1> QED
  BY <1>2, ExchangedHolds, PTL

(* A poll is about what follows "/tasks/", whatever the path: however long *)
(* it is, and wherever it has empty parts that came of escaped slashes.    *)
THEOREM PathCorrect == Spec => []PathNamesTask
<1>1. Exchanged => PathNamesTask
  <2> SUFFICES ASSUME Exchanged, pc = "answered", Route(request) = "status", request.method = "GET",
                      NEW ID, ID = request.path[3].text
               PROVE  sent = (IF ID = "" THEN 400 ELSE IF ID \in Known THEN 200 ELSE 404)
    BY DEF PathNamesTask
  <2>1. request \in Request /\ answer \in StatusAnswers(request) /\ sent = answer.code
    BY ExchangeAssumption DEF Exchanged, Decided, Answers
  <2>2. PICK parts : parts = PathParts(request.path)
    OBVIOUS
  <2>3. request.path \in Path
    BY <2>1 DEF Request
  <2>4. IF ID = "" THEN Len(parts) = 1 \/ (Len(parts) >= 2 /\ parts[2] = "")
                   ELSE Len(parts) >= 2 /\ parts[1] = "tasks" /\ parts[2] = ID
    BY <2>2, <2>3, StatusPath
  <2>5. Refusal(StatusChecks(request)) = "none" <=>
            ~(Len(parts) < 2 \/ parts[1] # "tasks") /\ ~(Len(parts) >= 2 /\ parts[2] = "")
    BY <2>2, StatusRefusal
  <2>6. Len(parts) = 1 => Len(parts) < 2
    OBVIOUS
  <2>7. Len(parts) >= 2 => ~(Len(parts) < 2)
    OBVIOUS
  <2>8. CASE ID = ""
    <3>1. Refusal(StatusChecks(request)) # "none"
      BY <2>4, <2>5, <2>6, <2>8, Zenon
    <3>2. answer = Reply(400, 0, TRUE)
      BY <2>1, <3>1 DEF StatusAnswers
    <3>3. sent = 400
      BY <2>1, <3>2 DEF Reply
    <3> QED
      BY <2>8, <3>3, Zenon
  <2>9. CASE ID # ""
    <3>1. Len(parts) >= 2 /\ parts[1] = "tasks" /\ parts[2] = ID
      BY <2>4, <2>9, Zenon
    <3>2. Refusal(StatusChecks(request)) = "none"
      BY <2>5, <2>7, <2>9, <3>1, Zenon
    <3>3. TaskID(request.path) = ID
      BY <2>2, <3>1, Zenon DEF TaskID
    <3>4. answer = IF ID \in Known THEN Reply(200, 0, FALSE) ELSE Reply(404, 0, TRUE)
      BY <2>1, <3>2, <3>3 DEF StatusAnswers
    <3>5. sent = IF ID \in Known THEN 200 ELSE 404
      BY <2>1, <3>4 DEF Reply
    <3> QED
      BY <2>9, <3>5, Zenon
  <2> QED
    BY <2>8, <2>9
<1> QED
  BY <1>1, ExchangedHolds, PTL

(* A sleep task that is done slept as long as it was asked to if that is a *)
(* duration, and less if it is not, for every width of an int.             *)
THEOREM SleepCorrect == Spec => []SleepIsExact
<1>1. Exchanged => SleepIsExact
  <2> SUFFICES ASSUME Exchanged, pc = "answered", IsSleep, answer.code = 200,
                      NEW n, n = request.payload.seconds
               PROVE  /\ n > 0
                      /\ IF n <= MaxInt \div Second THEN answer.slept = n * Second
                                                    ELSE answer.slept < n * Second
    BY DEF SleepIsExact
  <2>1. /\ request \in Request /\ answer \in Answers(request)
        /\ Route(request) = "submit" /\ Refusal(SubmitChecks(request)) = "none"
        /\ request.type.name = "sleep"
    BY ExchangeAssumption DEF Exchanged, Decided, IsSleep
  <2>2. PICK a \in Run("sleep", request.payload) : answer = Reply(a.code, a.slept, a.code # 200)
    BY <2>1 DEF Answers, SubmitAnswers
  <2>3. a \in SleepHandler(request.payload)
    BY <2>2 DEF Run, Registered
  <2>4. a.code = 200 /\ answer.slept = a.slept
    BY <2>2 DEF Reply
  <2>5. request.payload \in Payload
    BY <2>1 DEF Request
  <2>6. n \in 1..MaxInt /\ answer.slept = Timer(Duration(n))
    BY <2>3, <2>4, <2>5, SleepAnswer
  <2>7. n > 0
    BY <2>6, HandlersAssumption
  <2> QED
    BY <2>6, <2>7, SleepLength
<1> QED
  BY <1>1, ExchangedHolds, PTL

(* The queue changes what becomes of a payload only when it is absent and  *)
(* the task a print.                                                       *)
THEOREM QueuePayloadCorrect == Spec => []QueueKeepsPayload
<1>1. Exchanged => QueueKeepsPayload
  <2> SUFFICES ASSUME Exchanged, submitted PROVE QueueKeepsPayload
    BY DEF QueueKeepsPayload
  <2>1. request.payload \in Payload
    <3>1. request \in Request
      BY ExchangeAssumption DEF Exchanged
    <3> QED
      BY <3>1 DEF Request
  <2> QED
    BY <2>1, Requeued DEF QueueKeepsPayload
<1> QED
  BY <1>1, ExchangedHolds, PTL

=============================================================================
