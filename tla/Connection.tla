----------------------------- MODULE Connection -----------------------------
(***************************************************************************)
(* One connection: mnet_handle_client() with parse_request() and           *)
(* read_full_body(), fed by a client over TCP.                             *)
(*                                                                         *)
(* The byte stream is a sequence of tokens: "h" a request line with its    *)
(* header fields, "x" more header bytes, "E" a blank line CRLF CRLF, "L" a *)
(* blank line LF LF, "b" any other body byte.  A token carries the number  *)
(* of the request it belongs to and its place in it.                       *)
(* Segmentation is arbitrary: the client sends any number of tokens at a   *)
(* time.  Buffer sizes and Content-Length count tokens.                    *)
(*                                                                         *)
(* Time is discrete.  It passes only while the server waits in poll(): the *)
(* server's own steps take no time.                                        *)
(***************************************************************************)
EXTENDS Integers, Sequences, FiniteSets

CONSTANTS
  Scripts,      \* the clients: sequences of requests, see Request
  BufferSize,   \* sizeof(buffer) - 1
  MaxBody,      \* app->max_body_size, resolved
  Timeout,      \* app->timeout_seconds, resolved
  KeepAlive     \* app->keep_alive_timeout, resolved

(* A request as the client means it: its blank line, its Content-Length    *)
(* (-1: no such field), its body, its padding, whether it says keep-alive, *)
(* what is wrong with it, whether send_response() can send the answer,     *)
(* whether the client sends it without waiting for the answers before it,  *)
(* and what may fail under the server: poll() or recv(), malloc().         *)
Faults == {"none", "line", "method", "duplicate", "encoding", "length", "fields"}
Request ==
  [sep : {"E", "L"}, cl : Int, pad : Nat, body : Seq({"b", "E", "L"}), ka : BOOLEAN,
   fault : Faults, sendable : BOOLEAN, eager : BOOLEAN, fails : SUBSET {"poll", "memory"}]

ASSUME ScriptsAssumption == Scripts \subseteq Seq(Request)
ASSUME BoundsAssumption ==
  /\ BufferSize \in Nat \ {0} /\ MaxBody \in Nat
  /\ Timeout \in Nat \ {0} /\ KeepAlive \in Nat \ {0}

VARIABLES
  script,    \* the requests this client makes
  toSend,    \* tokens the client has not sent yet
  wire,      \* tokens sent and not yet received
  eof,       \* the client closed its end
  pc,        \* where mnet_handle_client() is
  buf,       \* buffer[0 .. used)
  ka,        \* keep_alive
  left,      \* time to the current deadline
  elapsed,   \* history: time since the current request's deadline was set
  body,      \* body tokens read_full_body() has so far
  log        \* history: what was sent back, <<request, status>>

netVars == <<script, toSend, wire, eof>>
vars == <<script, toSend, wire, eof, pc, buf, ka, left, elapsed, body, log>>

Failures == UNION {script[i].fails : i \in 1 .. Len(script)}

Tok(t, i, at) == [t |-> t, i |-> i, at |-> at]

Kind(r, at) ==
  IF at = 1 THEN "h" ELSE IF at < r.pad + 2 THEN "x"
  ELSE IF at = r.pad + 2 THEN r.sep ELSE r.body[at - (r.pad + 2)]
Size(r) == r.pad + 2 + Len(r.body)
Message(r, i) == [at \in 1 .. Size(r) |-> Tok(Kind(r, at), i, at)]

(* What a client sends, up to its n-th request.                            *)
Stream(s) ==
  LET upTo[n \in Nat] == IF n = 0 THEN <<>> ELSE upTo[n - 1] \o Message(s[n], n)
  IN upTo

Init ==
  /\ script \in Scripts
  /\ toSend = Stream(script)[Len(script)]
  /\ wire = <<>> /\ eof = FALSE
  /\ pc = "top" /\ buf = <<>> /\ ka = FALSE
  /\ left = 0 /\ elapsed = 0 /\ body = <<>> /\ log = <<>>

----------------------------------------------------------------------------
(* Finding the end of the header block: the first CRLF CRLF anywhere, else *)
(* the first LF LF.                                                        *)

First(b, t) == CHOOSE k \in 1 .. Len(b) :
                 b[k].t = t /\ \A j \in 1 .. k - 1 : b[j].t # t
Has(b, t) == \E k \in 1 .. Len(b) : b[k].t = t
Drop(b, n) == SubSeq(b, n + 1, Len(b))

Complete(b)    == Has(b, "E") \/ Has(b, "L")
EndOfHeader(b) == IF Has(b, "E") THEN First(b, "E") ELSE First(b, "L")
Rest(b)        == Drop(b, EndOfHeader(b))

(* The requests whose fields lie in the header block.                      *)
Fields(b) == {script[b[k].i] :
                k \in {j \in 1 .. EndOfHeader(b) - 1 : b[j].t = "h"}}
Lengths(b) == {k \in 1 .. EndOfHeader(b) - 1 :
                 b[k].t = "h" /\ script[b[k].i].cl >= 0}
Some(b, fault) == \E r \in Fields(b) : r.fault = fault
ContentLength(b) ==
  IF Lengths(b) = {} THEN 0
  ELSE script[b[CHOOSE k \in Lengths(b) : TRUE].i].cl

KeepsAlive(b) == \E r \in Fields(b) : r.ka

(* What parse_request() makes of the buffer before it reads more: 0, or    *)
(* the status of the error, in the order the code tests.  No body and no   *)
(* padding looks like a request line: a buffer that starts in one is       *)
(* whatever sscanf makes of it, never a request.                           *)
Verdicts(b) ==
  IF b[1].t # "h" THEN {400, 405}
  ELSE IF script[b[1].i].fault = "line" THEN {400}
  ELSE IF script[b[1].i].fault = "method" THEN {405}
  ELSE IF Cardinality(Lengths(b)) > 1 \/ Some(b, "duplicate") THEN {400}
  ELSE IF Some(b, "encoding") THEN {501}
  ELSE IF Some(b, "length") THEN {400}
  ELSE IF ContentLength(b) > MaxBody THEN {413}
  ELSE {0}

(* The verdict of parse_headers(), after the body is in.                   *)
HeadersTooLarge(b) == Some(b, "fields")

----------------------------------------------------------------------------
(* mnet_handle_client().                                                   *)

Top ==
  /\ pc = "top"
  /\ left' = IF ka THEN KeepAlive ELSE Timeout
  /\ elapsed' = 0
  /\ pc' = IF Complete(buf) THEN "parse" ELSE "read"
  /\ UNCHANGED <<netVars, buf, ka, body, log>>

(* Fault: `sizeof(buffer) - 1` subtracted twice, or not at all.            *)
RoomTooSmall == BufferSize - 1 - Len(buf)
RoomTooLarge == BufferSize + 1 - Len(buf)

Room == BufferSize - Len(buf)
Taken(space) == IF Len(wire) < space THEN Len(wire) ELSE space

(* Fault: a timeout for each recv() instead of a deadline.                 *)
RecvRearms ==
  /\ pc = "read" /\ Room > 0 /\ left > 0 /\ wire # <<>>
  /\ LET n == Taken(Room)
         b == buf \o SubSeq(wire, 1, n)
     IN /\ buf' = b /\ wire' = Drop(wire, n)
        /\ pc' = IF Complete(b) THEN "parse" ELSE "read"
  /\ left' = IF ka THEN KeepAlive ELSE Timeout
  /\ UNCHANGED <<script, toSend, eof, ka, elapsed, body, log>>

Recv ==
  /\ pc = "read" /\ Room > 0 /\ left > 0 /\ wire # <<>>
  /\ LET n == Taken(Room)
         b == buf \o SubSeq(wire, 1, n)
     IN /\ buf' = b /\ wire' = Drop(wire, n)
        /\ pc' = IF Complete(b) THEN "parse" ELSE "read"
  /\ UNCHANGED <<script, toSend, eof, ka, left, elapsed, body, log>>

Send(i, status) == log' = Append(log, <<i, status>>)

(* The buffer is full without a blank line: 431 and close.                 *)
HeaderTooLarge ==
  /\ pc = "read" /\ Room = 0
  /\ Send(buf[1].i, 431) /\ pc' = "closed"
  /\ UNCHANGED <<netVars, buf, ka, left, elapsed, body>>

(* The deadline passes, or the peer closed, or the call failed: close      *)
(* without an answer.                                                      *)
PeerGone == (wire = <<>> /\ eof) \/ "poll" \in Failures

(* Fault: recv() returning 0 is not taken for the end of the stream.       *)
GiveUpOnlyLate ==
  /\ pc = "read" /\ Room > 0 /\ left = 0
  /\ pc' = "closed"
  /\ UNCHANGED <<netVars, buf, ka, left, elapsed, body, log>>

(* Fault: a hang-up is taken for the end of what there is to read.         *)
GiveUpAtHangUp ==
  /\ pc = "read" /\ Room > 0 /\ (left = 0 \/ eof)
  /\ pc' = "closed"
  /\ UNCHANGED <<netVars, buf, ka, left, elapsed, body, log>>

GiveUp ==
  /\ pc = "read" /\ Room > 0
  /\ left = 0 \/ PeerGone
  /\ pc' = "closed"
  /\ UNCHANGED <<netVars, buf, ka, left, elapsed, body, log>>

Reject ==
  /\ pc = "parse"
  /\ \E status \in Verdicts(buf) \ {0} : Send(buf[1].i, status)
  /\ pc' = "closed"
  /\ UNCHANGED <<netVars, buf, ka, left, elapsed, body>>

(* The body is there already, or what there is of it is copied and the     *)
(* rest awaited under a deadline of its own.                               *)
ParseOk ==
  /\ pc = "parse" /\ Verdicts(buf) = {0}
  /\ LET cl == ContentLength(buf)
         inBuffer == Len(Rest(buf)) >= cl
     IN /\ body' = IF inBuffer THEN SubSeq(Rest(buf), 1, cl) ELSE Rest(buf)
        /\ pc' = IF inBuffer THEN "parsed" ELSE "body"
        /\ left' = IF inBuffer THEN left ELSE IF ka THEN KeepAlive ELSE Timeout
  /\ UNCHANGED <<netVars, buf, ka, elapsed, log>>

(* Fault: recv() into full_body instead of full_body + total_received.     *)
BodyRecvOverwrites ==
  /\ pc = "body" /\ left > 0 /\ wire # <<>>
  /\ LET n == Taken(ContentLength(buf) - Len(body))
     IN /\ body' = SubSeq(wire, 1, n) \o body /\ wire' = Drop(wire, n)
        /\ pc' = IF Len(body) + n = ContentLength(buf) THEN "parsed" ELSE "body"
  /\ UNCHANGED <<script, toSend, eof, buf, ka, left, elapsed, log>>

BodyRecv ==
  /\ pc = "body" /\ left > 0 /\ wire # <<>>
  /\ LET n == Taken(ContentLength(buf) - Len(body))
     IN /\ body' = body \o SubSeq(wire, 1, n) /\ wire' = Drop(wire, n)
        /\ pc' = IF Len(body) + n = ContentLength(buf) THEN "parsed" ELSE "body"
  /\ UNCHANGED <<script, toSend, eof, buf, ka, left, elapsed, log>>

(* Answered as Payload Too Large, like the malloc() that fails below.      *)
BodyGiveUp ==
  /\ pc = "body"
  /\ left = 0 \/ PeerGone
  /\ Send(buf[1].i, 413) /\ pc' = "closed"
  /\ UNCHANGED <<netVars, buf, ka, left, elapsed, body>>

NoBodyMemory ==
  /\ pc = "parse" /\ Verdicts(buf) = {0} /\ "memory" \in Failures
  /\ Len(Rest(buf)) < ContentLength(buf)
  /\ Send(buf[1].i, 413) /\ pc' = "closed"
  /\ UNCHANGED <<netVars, buf, ka, left, elapsed, body>>

ParseHeaders ==
  /\ pc = "parsed" /\ ~HeadersTooLarge(buf)
  /\ pc' = "respond" /\ ka' = KeepsAlive(buf)
  /\ UNCHANGED <<netVars, buf, left, elapsed, body, log>>

RejectHeaders ==
  /\ pc = "parsed" /\ (HeadersTooLarge(buf) \/ "memory" \in Failures)
  /\ Send(buf[1].i, 431) /\ pc' = "closed"
  /\ UNCHANGED <<netVars, buf, ka, left, elapsed, body>>

(* What follows the header block is kept only if it holds a CRLF CRLF; the *)
(* body is not skipped.                                                    *)
NextBufferAlways(b) == Rest(b)     \* fault: kept whatever it holds

NextBuffer(b) ==
  IF Rest(b) # <<>> /\ Has(Rest(b), "E") THEN Rest(b) ELSE <<>>

Unsendable(i) == ~script[i].sendable \/ "memory" \in Failures

(* dispatch() and send_response(), which sends nothing when it cannot      *)
(* format the answer; then the loop condition.                             *)
Respond ==
  /\ pc = "respond"
  /\ \/ script[buf[1].i].sendable /\ Send(buf[1].i, 200)
     \/ Unsendable(buf[1].i) /\ log' = log
  /\ pc' = IF ka THEN "top" ELSE "closed"
  /\ buf' = IF ka THEN NextBuffer(buf) ELSE buf
  /\ body' = <<>>
  /\ UNCHANGED <<netVars, ka, left, elapsed>>

----------------------------------------------------------------------------
(* The client and the clock.                                               *)

Done == pc = "closed"

Allowed(i) == i <= Len(log) + 1 \/ script[i].eager

ClientSends ==
  /\ toSend # <<>> /\ ~eof
  /\ \E n \in 1 .. Len(toSend) :
       /\ \A k \in 1 .. n : Allowed(toSend[k].i)
       /\ wire' = wire \o SubSeq(toSend, 1, n) /\ toSend' = Drop(toSend, n)
  /\ UNCHANGED <<script, eof, pc, buf, ka, left, elapsed, body, log>>

ClientCloses ==
  /\ ~eof /\ eof' = TRUE
  /\ UNCHANGED <<script, toSend, wire, pc, buf, ka, left, elapsed, body, log>>

Polling == (pc = "read" /\ Room > 0) \/ pc = "body"

Tick ==
  /\ Polling /\ left > 0 /\ wire = <<>> /\ ~eof
  /\ left' = left - 1 /\ elapsed' = elapsed + 1
  /\ UNCHANGED <<netVars, pc, buf, ka, body, log>>

Server ==
  \/ Top \/ Recv \/ HeaderTooLarge \/ GiveUp \/ Reject \/ ParseOk
  \/ BodyRecv \/ BodyGiveUp \/ NoBodyMemory \/ ParseHeaders \/ RejectHeaders
  \/ Respond

Next == Server \/ ClientSends \/ ClientCloses \/ Tick

Spec == Init /\ [][Next]_vars

(* The worker runs and the clock moves; the client owes nothing.           *)
FairSpec == Spec /\ WF_vars(Server) /\ WF_vars(Tick)
----------------------------------------------------------------------------
(* Properties.                                                             *)

TypeOK ==
  /\ script \in Scripts /\ eof \in BOOLEAN /\ ka \in BOOLEAN
  /\ \A q \in {toSend, wire, buf, body} : \A k \in 1 .. Len(q) :
       q[k] \in [t : {"h", "x", "E", "L", "b"}, i : 1 .. Len(script),
                 at : Nat]
  /\ pc \in {"top", "read", "parse", "body", "parsed", "respond", "closed"}
  /\ Len(buf) <= BufferSize /\ Len(body) <= MaxBody
  /\ left \in Nat /\ elapsed \in Nat
  /\ \A n \in 1 .. Len(log) :
       log[n] \in (1 .. Len(script)) \X {200, 400, 405, 413, 431, 501}

(* The body is as long as the request says.                                *)
Framed(r) == r.cl = Len(r.body) \/ (r.cl = -1 /\ r.body = <<>>)

(* No CRLF CRLF in the body.                                               *)
Unblank(r) == \A k \in 1 .. Len(r.body) : r.body[k] # "E"

(* A request that keeps every rule the server sets, and one that is not    *)
(* taken for two.                                                          *)
Legal(r) ==
  /\ r.fault = "none" /\ r.sendable /\ Framed(r)
  /\ r.cl <= MaxBody /\ r.pad + 2 <= BufferSize
Good(r) == Legal(r) /\ Unblank(r)

(* Nothing fails under the server and the client waits for each answer.    *)
Patient == \A i \in 1 .. Len(script) : ~script[i].eager
Calm    == Failures = {} /\ Patient

(* Nothing is left of request i when it is answered: there was no body, or *)
(* nothing sent behind it makes the server keep the body in its buffer.    *)
Separate(i) ==
  /\ Framed(script[i])
  /\ script[i].body = <<>> \/ (Patient /\ Unblank(script[i]))

(* Answers come in the order of the requests, at most one for each, and    *)
(* nothing follows an error: what one request leaves in the buffer is      *)
(* never answered as another, unless there is more body than announced or  *)
(* a blank line behind the header block makes the code keep the body.      *)
(* mnet_handle_client()'s reuse of the buffer.                             *)
InOrder ==
  \A m, n \in 1 .. Len(log) :
    m < n => /\ log[m][1] <= log[n][1] /\ log[m][2] = 200
             /\ Separate(log[m][1]) => log[m][1] # log[n][1]

(* A request that keeps every rule is not refused, wherever its bytes were *)
(* cut into segments and whatever came before it on the connection, except *)
(* for a body that arrives too late (413).                                 *)
NotRefused ==
  \A n \in 1 .. Len(log) :
    Good(script[log[n][1]]) =>
      \/ log[n][2] = 200
      \/ log[n][2] = 413 /\ (left = 0 \/ eof)

(* That is so for a client that waits for each answer.                     *)
WellFormedServed == Calm => NotRefused

(* And also for one that sends its next request without waiting, which     *)
(* mnet_handle_client() looks for in its buffer.                           *)
PipelinedServed == Failures = {} => NotRefused

(* The handler sees the bytes the client sent as this request's body, the  *)
(* part read with the headers joined to the part read_full_body() read: of *)
(* a client that waits for its answers, and also if the body holds blank   *)
(* lines, where the header block ends with CRLF CRLF.                      *)
BodyIntact ==
  LET i == buf[1].i
      r == script[i]
  IN pc = "respond" /\ Patient /\ Legal(r) /\ (r.sep = "E" \/ Unblank(r)) =>
       body = Drop(Message(r, i), r.pad + 2)

Window == IF ka THEN KeepAlive ELSE Timeout

(* However slowly the bytes come, a request holds its worker for at most   *)
(* one timeout for the headers and one for the body.                       *)
RequestTimeBounded ==
  /\ pc = "read" => elapsed <= Window
  /\ pc \in {"parse", "body", "parsed"} => elapsed <= 2 * Window

Answered(n) == \E m \in 1 .. Len(log) : log[m][1] = n
Delivered(n) ==
  /\ \A k \in 1 .. Len(toSend) : toSend[k].i > n
  /\ left > 0 /\ ~Done

(* A request that keeps every rule, as those before it do, and has been    *)
(* sent in full before the deadline is answered: neither the deadline nor  *)
(* the client's close makes the server drop what it could still read.      *)
DeliveredIsAnswered ==
  \A n \in 1 .. Cardinality(UNION {DOMAIN s : s \in Scripts}) :
    (Calm /\ n <= Len(script) /\ Delivered(n) /\ \A m \in 1 .. n : Good(script[m]))
      ~> Answered(n)

(* The connection of a client with finitely many requests ends, even if    *)
(* the client stalls: the worker that serves it comes back.                *)
ConnectionEnds == <>Done
=============================================================================
