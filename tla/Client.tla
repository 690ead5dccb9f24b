------------------------------- MODULE Client -------------------------------
(***************************************************************************)
(* mnet_call() and mnet_call_async(): the URL, the addresses of its host,  *)
(* the request, and the response read until the server closes, in whatever *)
(* portions it arrives, with system calls and allocations failing.         *)
(*                                                                         *)
(* A URL is a sequence of tokens: a scheme, ":", "/", "?", "#", a number,  *)
(* other characters.  What its author means by it (host, port, path) is    *)
(* for the properties only.  A response is a sequence of tokens: "HTTP"    *)
(* and "code" for the first twelve bytes, "h" for those of the header,     *)
(* "blank" for an empty line, other bytes.                                 *)
(***************************************************************************)
EXTENDS Integers, Sequences, SequencesExt

CONSTANTS
  Urls,        \* records: text, and what is meant: host, port, path
  Answers,     \* records: status, tokens
  Addresses,   \* how many addresses getaddrinfo() returns at most
  HostSize, PathSize,   \* sizeof(host), sizeof(path)
  Chunk,       \* sizeof(buf) in mnet_read_response()
  RawStart,    \* 16384, the first size of raw
  MaxBody,     \* MNET_MAX_BODY_SIZE
  MaxSignals   \* bound: signals that interrupt recv() in a call

(* How a URL is written: a scheme or none, the host, after a colon a port, *)
(* and the path.  The port it means is the one given, or the scheme's; 0   *)
(* stands for one that is no number from 1 to 65535.                       *)
Schemes == {"http://", "https://"}
Ends    == {"/", "?", "#"}
Ports   == [d \in {"0", "80", "81", "65536"} |->
              CASE d = "0" -> 0 [] d = "80" -> 80 [] d = "81" -> 81 [] OTHER -> 65536]
Spelt(u, scheme, port) ==
  /\ u.text = scheme \o u.host \o port \o u.path
  /\ scheme # <<>> => Len(scheme) = 1 /\ scheme[1] \in Schemes
  /\ \A k \in 1 .. Len(u.host) : u.host[k] \notin Schemes \union Ends \union {":"}
  /\ port # <<>> => port[1] = ":"
  /\ \A k \in 1 .. Len(port) : port[k] \notin Ends
  /\ u.path # <<>> => u.path[1] \in Ends
  /\ u.port = IF Len(port) = 2 /\ port[2] \in {"80", "81"} THEN Ports[port[2]]
              ELSE IF Len(port) > 1 THEN 0
              ELSE IF scheme = <<"https://">> THEN 443 ELSE 80

ASSUME UrlsAssumption ==
  \A u \in Urls :
    /\ u.text \in Seq(STRING) /\ u.host \in Seq(STRING) /\ u.path \in Seq(STRING)
    /\ \E i, j \in 0 .. Len(u.text) :
         Spelt(u, SubSeq(u.text, 1, i), SubSeq(u.text, i + Len(u.host) + 1, j))
ASSUME AnswersAssumption ==
  \A a \in Answers : a.tokens \in Seq(STRING \ {"NULL"}) /\ a.status \in Nat
ASSUME SizesAssumption ==
  /\ Addresses \in Nat /\ HostSize \in Nat \ {0} /\ PathSize \in Nat \ {0}
  /\ Chunk \in Nat \ {0} /\ RawStart \in Nat \ {0} /\ MaxBody \in Nat /\ MaxSignals \in Nat

VARIABLES
  pc, url,
  asked,      \* host, port and path of the request
  addr,       \* addresses left to try
  answer,     \* what the server sends in this call
  at,         \* how much of it has been read
  raw, rawCap,
  err,        \* the last recv() failed
  signals,
  status, body,   \* what mnet_read_response() returns
  result,     \* what mnet_call() returns, or Null
  live        \* sockets and allocations held

connVars   == <<url, asked>>
readVars   == <<at, raw, rawCap, err, signals>>
resultVars == <<status, body, result>>
vars == <<pc, url, asked, addr, answer, at, raw, rawCap, err, signals, status, body,
          result, live>>

Null == <<"NULL">>

Init ==
  /\ pc = "call" /\ url \in Urls
  /\ asked = [host |-> <<>>, port |-> 0, path |-> <<>>] /\ addr = 0
  /\ answer \in Answers /\ at = 0 /\ raw = <<>> /\ rawCap = 0 /\ err = FALSE /\ signals = 0
  /\ status = 0 /\ body = Null /\ result = Null /\ live = {}

----------------------------------------------------------------------------
(* mnet_url_parse().                                                       *)

(* The first place from j on with one of these tokens, or the end.         *)
First(s, j, tokens) ==
  CHOOSE k \in j .. Len(s) + 1 :
    /\ k <= Len(s) => s[k] \in tokens
    /\ \A m \in j .. k - 1 : s[m] \notin tokens
Cut(s, bytes) == SubSeq(s, 1, IF Len(s) >= bytes THEN bytes - 1 ELSE Len(s))

(* Fault: the digits of the port must end the URL.                         *)
PortGivenAtEnd(s, from, to) ==
  /\ to = from + 1 /\ to = Len(s) + 1 /\ s[from] \in DOMAIN Ports
  /\ Ports[s[from]] > 0 /\ Ports[s[from]] < 65536

PortGiven(s, from, to) ==
  /\ to = from + 1 /\ s[from] \in DOMAIN Ports
  /\ Ports[s[from]] > 0 /\ Ports[s[from]] < 65536

(* The path is what is left of the URL, be it nothing.                     *)
Parse(s) ==
  LET start == IF s # <<>> /\ s[1] \in Schemes THEN 2 ELSE 1
      colon == First(s, start, Ends \union {":"})
      path  == IF colon <= Len(s) /\ s[colon] = ":" THEN First(s, colon + 1, Ends) ELSE colon
  IN [host |-> Cut(SubSeq(s, start, colon - 1), HostSize),
      port |-> IF path > colon /\ PortGiven(s, colon + 1, path) THEN Ports[s[colon + 1]] ELSE 80,
      path |-> Cut(SubSeq(s, path, Len(s)), PathSize)]

----------------------------------------------------------------------------
(* mnet_call().                                                            *)

Fail(held) == pc' = "return" /\ result' = Null /\ live' = live \ held

ParseUrl ==
  /\ pc = "call"
  /\ asked' = Parse(url.text)
  /\ IF asked'.host = <<>> THEN pc' = "return" ELSE pc' = "lookup"
  /\ result' = Null
  /\ UNCHANGED <<url, addr, answer, readVars, status, body, live>>

Lookup ==
  /\ pc = "lookup"
  /\ \/ Fail({}) /\ UNCHANGED addr
     \/ /\ addr' \in 1 .. Addresses /\ live' = live \union {"addrinfo"} /\ pc' = "connect"
        /\ UNCHANGED result
  /\ UNCHANGED <<connVars, answer, readVars, status, body>>

(* An address has no socket, or does not connect and its socket is closed. *)
NextAddress ==
  /\ pc = "connect" /\ addr > 1 /\ addr' = addr - 1
  /\ UNCHANGED <<pc, connVars, answer, readVars, resultVars, live>>

NoAddress ==
  /\ pc = "connect" /\ addr = 1 /\ Fail({"addrinfo"})
  /\ UNCHANGED <<connVars, addr, answer, readVars, status, body>>

Connect ==
  /\ pc = "connect"
  /\ live' = (live \ {"addrinfo"}) \union {"socket"} /\ pc' = "send"
  /\ UNCHANGED <<connVars, addr, answer, readVars, resultVars>>

Send ==
  /\ pc = "send"
  /\ \/ Fail({"socket"}) /\ UNCHANGED <<readVars, status, body>>
     \/ /\ pc' = "recv" /\ at' = 0 /\ raw' = <<>> /\ rawCap' = 0
        /\ err' = FALSE /\ signals' = 0 /\ status' = 0 /\ body' = Null
        /\ UNCHANGED <<result, live>>
  /\ UNCHANGED <<connVars, addr, answer>>

----------------------------------------------------------------------------
(* mnet_read_response().                                                   *)

Limit   == MaxBody + Chunk
Reading == pc = "recv" /\ Len(raw) < Limit

(* Doubled from RawStart until n bytes fit.                                *)
Doubled[e \in Nat] == IF e = 0 THEN RawStart ELSE 2 * Doubled[e - 1]
Sizes   == {Doubled[e] : e \in 0 .. Limit + Chunk}
Fits(n) == CHOOSE c \in Sizes : c >= n /\ \A d \in Sizes : d >= n => c <= d

(* Fault: room is made only once the buffer is full.                       *)
GrownLate(n) == IF Len(raw) >= rawCap THEN Fits(Len(raw) + n) ELSE rawCap

Grown(n) == IF Len(raw) + n > rawCap THEN Fits(Len(raw) + n) ELSE rawCap

Receive(n) ==
  /\ Reading /\ at + n <= Len(answer.tokens)
  /\ rawCap' = Grown(n) /\ live' = live \union {"raw"}
  /\ raw' = raw \o SubSeq(answer.tokens, at + 1, at + n) /\ at' = at + n /\ err' = FALSE
  /\ UNCHANGED <<pc, connVars, addr, answer, signals, resultVars>>

(* realloc() fails: what there was is freed.                               *)
CannotGrow(n) ==
  /\ Reading /\ at + n <= Len(answer.tokens) /\ Grown(n) # rawCap
  /\ Fail({"raw", "socket"})
  /\ UNCHANGED <<connVars, addr, answer, readVars, status, body>>

Interrupted ==
  /\ Reading /\ signals < MaxSignals /\ signals' = signals + 1 /\ err' = TRUE
  /\ UNCHANGED <<pc, connVars, addr, answer, at, raw, rawCap, resultVars, live>>

(* The server closes, wherever it has got to.                              *)
Closed ==
  /\ Reading /\ pc' = "strip" /\ err' = FALSE
  /\ UNCHANGED <<connVars, addr, answer, at, raw, rawCap, signals, resultVars, live>>

(* Fault: a time-out is taken for a signal, and recv() called again.       *)
TimedOutRetried ==
  /\ Reading /\ err' = TRUE
  /\ UNCHANGED <<pc, connVars, addr, answer, at, raw, rawCap, signals, resultVars, live>>

(* Thirty seconds without a byte, or a reset connection.                   *)
TimedOut ==
  /\ Reading /\ pc' = "strip" /\ err' = TRUE
  /\ UNCHANGED <<connVars, addr, answer, at, raw, rawCap, signals, resultVars, live>>

Enough ==
  /\ pc = "recv" /\ Len(raw) >= Limit /\ pc' = "strip"
  /\ UNCHANGED <<connVars, addr, answer, readVars, resultVars, live>>

NoResponse ==
  /\ pc = "strip" /\ (err \/ raw = <<>>) /\ Fail({"raw", "socket"})
  /\ UNCHANGED <<connVars, addr, answer, readVars, status, body>>

(* Fault: the body starts after the last empty line.                       *)
BodyOfLast(s) ==
  LET blanks == {k \in 1 .. Len(s) : s[k] = "blank"}
      after  == IF blanks = {} THEN Len(s)
                ELSE CHOOSE k \in blanks : \A m \in blanks : m <= k
  IN SubSeq(s, after + 1, Len(s))

(* After the first empty line; without one there is no body.               *)
BodyOf(s) == SubSeq(s, First(s, 1, {"blank"}) + 1, Len(s))

Bounded(s) == SubSeq(s, 1, IF Len(s) > MaxBody THEN MaxBody ELSE Len(s))

HasStatus(s) == Len(s) >= 2 /\ s[1] = "HTTP"

(* raw has no terminator: when the digits are the last bytes received,     *)
(* atoi() goes on with what lies behind them, and the number is longer or  *)
(* too large for an int.                                                   *)
StatusRead(s) ==
  IF ~HasStatus(s) THEN {0}
  ELSE {answer.status} \union (IF Len(s) = 2 THEN {10 * answer.status + 9, -1} ELSE {})

Strip ==
  /\ pc = "strip" /\ ~err /\ raw # <<>>
  /\ status' \in StatusRead(raw)
  /\ \/ Fail({"raw", "socket"}) /\ UNCHANGED body
     \/ /\ body' = Bounded(BodyOf(raw)) /\ pc' = "judge"
        /\ live' = (live \ {"raw", "socket"}) \union {"body"} /\ UNCHANGED result
  /\ UNCHANGED <<connVars, addr, answer, readVars>>

(* Fault: the body that came with an error status is forgotten.            *)
JudgeLeaks ==
  /\ pc = "judge"
  /\ IF status >= 400 THEN Fail({})
     ELSE pc' = "return" /\ result' = body /\ UNCHANGED live
  /\ UNCHANGED <<connVars, addr, answer, readVars, status, body>>

Judge ==
  /\ pc = "judge"
  /\ IF status >= 400 THEN Fail({"body"})
     ELSE pc' = "return" /\ result' = body /\ UNCHANGED live
  /\ UNCHANGED <<connVars, addr, answer, readVars, status, body>>

(* The caller frees the result; mnet_call_async() does, after the callback. *)
Free ==
  /\ pc = "return" /\ pc' = "free"
  /\ live' = IF result = Null THEN live ELSE live \ {"body"}
  /\ UNCHANGED <<connVars, addr, answer, readVars, resultVars>>

Own ==
  \/ ParseUrl \/ Lookup \/ NextAddress \/ NoAddress \/ Connect \/ Send
  \/ Enough \/ NoResponse \/ Strip \/ Judge \/ Free
Next ==
  \/ Own \/ (\E n \in 1 .. Chunk : Receive(n)) \/ (\E n \in 1 .. Chunk : CannotGrow(n))
  \/ Interrupted \/ Closed \/ TimedOut

(* The caller's thread runs, connect() comes to an end, and a recv() that  *)
(* nothing else ends is ended by SO_RCVTIMEO.  The server owes nothing.    *)
Spec == Init /\ [][Next]_vars /\ WF_vars(Own) /\ WF_vars(TimedOut)

----------------------------------------------------------------------------
(* Properties.                                                             *)

(* A URL that fits the buffers is asked for at its host, with its path if  *)
(* it has one, and, if it is one of plain HTTP whose port is not malformed,*)
(* at its port: one in front of a path, a query, a fragment or nothing is  *)
(* not missed.                                                             *)
FitsBuffers == Len(url.host) < HostSize /\ Len(url.path) < PathSize
AskedRight ==
  pc = "send" /\ FitsBuffers =>
    /\ asked.host = url.host
    /\ url.path # <<>> => asked.path = url.path
    /\ url.port # 0 /\ url.text[1] # "https://" => asked.port = url.port

(* The response buffer is never written past its end, whatever the sizes   *)
(* of the portions.                                                        *)
RawFits == Len(raw) <= rawCap /\ Len(raw) < Limit + Chunk

(* However a call ends, its socket, addresses and buffers are released and *)
(* only the body it returns is left; once that is freed, nothing.          *)
CallReleases ==
  /\ pc = "return" => live = (IF result = Null THEN {} ELSE {"body"})
  /\ pc = "free" => live = {}

Meant ==
  LET blank == SelectInSeq(answer.tokens, LAMBDA t : t = "blank")
  IN IF blank = 0 THEN <<>> ELSE SubSeq(answer.tokens, blank + 1, Len(answer.tokens))

(* What mnet_call() returns is the body the server sent, without a header  *)
(* line, from its first byte on and no longer than the limit; all of it if *)
(* everything arrived and the limit allows it.  A status line that arrived *)
(* with a byte behind it is not overlooked.                                *)
BodyReturned ==
  pc = "return" /\ result # Null =>
    /\ IsPrefix(result, Meant) /\ Len(result) <= MaxBody
    /\ HasStatus(raw) /\ Len(raw) > 2 => answer.status < 400
    /\ at = Len(answer.tokens) /\ Len(Meant) <= MaxBody => result = Meant

(* A call returns.                                                         *)
CallReturns == <>(pc = "free")
=============================================================================
