----------------------------- MODULE StaticFiles -----------------------------
(***************************************************************************)
(* static_handler(): from the path of a request to a response with the     *)
(* contents of a file, one action per system call, while other programs    *)
(* rewrite the files.  Also the response record and mnet_error(), with     *)
(* which this handler and all the others answer.                           *)
(*                                                                         *)
(* A resolved path is its sequence of characters, since the code compares  *)
(* characters.  What realpath() resolves a request to is a constant; a     *)
(* path that is too long for fs_path ends like one that is not there.      *)
(***************************************************************************)
EXTENDS Integers, Sequences

CONSTANTS
  Base,       \* what cfg->fs_path resolves to
  Real,       \* what each requested path resolves to, or Absent
  Absent,
  Kind,       \* of each resolved path: "file", "dir" or "locked"
  MaxSize,    \* bound: size of a file
  MaxWrites   \* bound: how often files are rewritten

VARIABLES
  pc,         \* where the worker is
  want,       \* the path requested
  place,      \* real
  measured,   \* file_size
  size,       \* of the files, on disk
  writes,
  resp,       \* mnet_response_t; of and filled say what is in the body
  served,     \* requests taken so far
  live,       \* allocations and open files
  misuse      \* history: something was freed that was not held

fileVars == <<want, place, measured>>
diskVars == <<size, writes>>
heapVars == <<live, misuse>>
staticVars == <<pc, want, place, measured, size, writes, resp, served, live, misuse>>

Paths == DOMAIN Kind
Body  == <<"body", served>>

(* What the bytes of a body are, if not those of a file.                   *)
Nowhere   == <<>>
FromText  == <<"text">>
FixedPage == <<"page">>
Garbage   == <<"garbage">>

RealPath == <<"real">>
BasePath == <<"base">>
Stream   == <<"fp">>

ASSUME FilesAssumption ==
  /\ Base \in Seq(STRING) /\ Base # <<>>
  /\ Paths \subseteq Seq(STRING)
  /\ \A name \in DOMAIN Real : Real[name] \in Paths \union {Absent}
  /\ {Nowhere, FromText, FixedPage, Garbage} \intersect Paths = {}
  /\ MaxSize \in Nat /\ MaxWrites \in Nat

FileInit ==
  /\ want = Absent /\ place = Absent /\ measured = 0
  /\ size = [p \in Paths |-> MaxSize] /\ writes = 0

----------------------------------------------------------------------------
(* Responses.                                                              *)

Zero == [status |-> 0, body |-> FALSE, len |-> 0, filled |-> 0,
         chunked |-> FALSE, good |-> TRUE, of |-> Nowhere]

(* A copy of n characters, n > 0 or not.                                   *)
Copy(status, n) == [Zero EXCEPT !.status = status, !.body = TRUE, !.len = n,
                                !.filled = n, !.of = FromText]

(* mnet_error(), mnet_status(): without memory, the status alone.          *)
Error(status, n) == {Copy(status, n), [Zero EXCEPT !.status = status]}

(* The handler returns r, having freed what it holds.                      *)
Return(r, freed) ==
  /\ resp' = r /\ pc' = "answer"
  /\ live' = (live \ freed) \union (IF r.body /\ ~r.chunked THEN {Body} ELSE {})
  /\ misuse' = (misuse \/ ~(freed \subseteq live))

Fails(status, freed) == \E r \in Error(status, 1) : Return(r, freed)

Take(resource) == live' = live \union {resource} /\ UNCHANGED misuse

----------------------------------------------------------------------------
(* static_handler().                                                       *)

ResolveFile ==
  /\ pc = "file"
  /\ IF Real[want] = Absent
     THEN Fails(404, {}) /\ UNCHANGED place
     ELSE /\ place' = Real[want] /\ pc' = "base" /\ Take(RealPath)
          /\ UNCHANGED resp
  /\ UNCHANGED <<want, measured, diskVars, served>>

ResolveBase ==
  /\ pc = "base"
  /\ \/ Fails(404, {RealPath})
     \/ pc' = "contain" /\ Take(BasePath) /\ UNCHANGED resp
  /\ UNCHANGED <<fileVars, diskVars, served>>

StartsWith(path, base) == Len(path) >= Len(base) /\ SubSeq(path, 1, Len(base)) = base

(* Fault: any path that begins like the root is taken to be in it.         *)
InsidePrefix(path, base) == StartsWith(path, base)

Inside(path, base) ==
  /\ StartsWith(path, base)
  /\ \/ Len(path) = Len(base)
     \/ path[Len(base) + 1] = "/"
     \/ base[Len(base)] = "/"

Contain ==
  /\ pc = "contain"
  /\ IF Inside(place, Base)
     THEN /\ pc' = "open" /\ live' = live \ {BasePath} /\ UNCHANGED <<misuse, resp>>
     ELSE Fails(403, {RealPath, BasePath})
  /\ UNCHANGED <<fileVars, diskVars, served>>

Open ==
  /\ pc = "open"
  /\ IF Kind[place] = "locked"
     THEN Fails(404, {RealPath})
     ELSE pc' = "measure" /\ Take(Stream) /\ UNCHANGED resp
  /\ UNCHANGED <<fileVars, diskVars, served>>

(* fseek() and ftell(); those of a directory report what they like.        *)
Measure ==
  /\ pc = "measure"
  /\ \/ Fails(404, {Stream, RealPath}) /\ UNCHANGED measured
     \/ /\ measured' \in IF Kind[place] = "dir" THEN 0 .. MaxSize ELSE {size[place]}
        /\ pc' = "read" /\ UNCHANGED <<resp, heapVars>>
  /\ UNCHANGED <<want, place, diskVars, served>>

(* Fault: the length is what was measured, not what was read.              *)
AnnouncedMeasured(total) == measured

Announced(total) == total

(* malloc() and fread().                                                   *)
ReadFile ==
  /\ pc = "read"
  /\ \/ Fails(500, {Stream, RealPath})
     \/ LET there == IF Kind[place] = "dir" THEN 0 ELSE size[place]
            total == IF there < measured THEN there ELSE measured
        IN Return([Copy(200, Announced(total)) EXCEPT !.filled = total, !.of = place],
                  {Stream, RealPath})
  /\ UNCHANGED <<fileVars, diskVars, served>>

(* Another program rewrites a file, at a moment when that can be noticed.  *)
Rewrite ==
  /\ writes < MaxWrites /\ writes' = writes + 1 /\ pc \in {"measure", "read"}
  /\ \E f \in Paths : \E n \in 0 .. MaxSize : size' = [size EXCEPT ![f] = n]
  /\ UNCHANGED <<pc, fileVars, resp, served, heapVars>>

StaticNext ==
  \/ ResolveFile \/ ResolveBase \/ Contain \/ Open \/ Measure \/ ReadFile
=============================================================================
