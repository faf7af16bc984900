------------------------------ MODULE Requests ------------------------------
(***************************************************************************)
(* The decisions of the HTTP handlers (api) about a request: which of      *)
(* their checks refuses it, and which task a status path names.  Lengths   *)
(* and sizes are numbers of bytes; texts are only their lengths.           *)
(***************************************************************************)
EXTENDS Integers, Sequences, FiniteSetsExt

maxBodySize == 1048576
maxPayloadSize == 102400
maxTypeLen == 50

(* A body: what its first JSON value is, after how many bytes the decoder  *)
(* has seen the end of that value or the mistake in it, and its size.      *)
Body == [value : {"object", "null", "malformed", "mismatch"}, end : Nat, size : Nat]

(* The type a submission names; null and {} name none.                     *)
Type == [name : STRING, len : Nat]

(* A path is what strings.Split makes of r.URL.Path: "/tasks/a" has the    *)
(* parts "", "tasks" and "a".  The texts are decoded; escaped says that    *)
(* the slash before the part was sent as %2F.  A part "." or ".." was sent *)
(* with plain dots (a name with escaped ones is any other text).  A path   *)
(* begins with a plain slash.                                              *)
Part == [text : STRING, escaped : BOOLEAN]
Path == {path \in Seq(Part) :
            Len(path) > 1 /\ path[1].text = "" /\ ~path[1].escaped /\ ~path[2].escaped}

Texts(path) == [i \in DOMAIN path |-> path[i].text]

(* Variant: what submit.go:57 says, a larger body makes Decode fail.       *)
AnyTooLarge(b) == b.size > maxBodySize

(* Decode reads as far as the first value goes and no further: the error   *)
(* of MaxBytesReader counts only when that is past the limit.              *)
TooLarge(b) == b.end > maxBodySize /\ b.size > maxBodySize

Undecodable(b) == b.end > b.size \/ b.value \in {"malformed", "mismatch"}

Check(fails, message) == [fails |-> fails, message |-> message]

(* The first check that fails answers; 400 is the code of all of them.     *)
Refusal(checks) ==
    LET failed == {i \in DOMAIN checks : checks[i].fails}
    IN  IF failed = {} THEN "none" ELSE checks[Min(failed)].message

(* NewSubmitHandler.                                                       *)
SubmitChecks(r) ==
    <<Check(r.method # "POST", "method"),
      Check(TooLarge(r.body), "body too large"),
      Check(Undecodable(r.body), "invalid JSON"),
      Check(r.type.len = 0, "type required"),
      Check(r.type.len > maxTypeLen, "type too long"),
      Check(r.payload.size > maxPayloadSize, "payload too large")>>

(* Variant: strings.FieldsFunc, which drops every empty part.              *)
Fields(path) == SelectSeq(Texts(path), LAMBDA text : text # "")

(* Trimming the slashes drops the empty parts at both ends; splitting      *)
(* nothing gives one empty part.                                           *)
PathParts(path) ==
    LET names == Texts(path)
        filled == {i \in DOMAIN names : names[i] # ""}
    IN  IF filled = {} THEN <<"">> ELSE SubSeq(names, Min(filled), Max(filled))

(* NewTaskStatusHandler; parts that follow the ID are ignored.             *)
StatusChecks(r) ==
    LET parts == PathParts(r.path)
    IN  <<Check(r.method # "GET", "method"),
          Check(Len(parts) < 2 \/ parts[1] # "tasks", "invalid URL"),
          Check(Len(parts) >= 2 /\ parts[2] = "", "ID required")>>

TaskID(path) == PathParts(path)[2]

(* The part i lies between plain slashes: path.Clean would touch it.       *)
Plain(path, i) == ~path[i].escaped /\ (i < Len(path) => ~path[i + 1].escaped)

Unclean(path) ==
    \E i \in 2..Len(path) :
        /\ Plain(path, i)
        /\ path[i].text \in {".", ".."} \/ (path[i].text = "" /\ i < Len(path))

(* http.ServeMux of Go 1.22 and later with the patterns /submit, /health   *)
(* and /tasks/.  It looks at the escaped path, whose segments end at plain *)
(* slashes only, and sends a client that asks for an unclean path, or for  *)
(* /tasks, elsewhere.  The paths of a CONNECT are not cleaned.             *)
Route(r) ==
    LET names == Texts(r.path)
    IN  IF (r.method # "CONNECT" /\ Unclean(r.path)) \/ names = <<"", "tasks">> THEN "redirect"
        ELSE IF Len(names) > 2 /\ names[2] = "tasks" /\ ~r.path[3].escaped THEN "status"
        ELSE IF names = <<"", "submit">> THEN "submit"
        ELSE IF names = <<"", "health">> THEN "health"
        ELSE "notfound"
=============================================================================
