------------------------------ MODULE Exchange ------------------------------
(***************************************************************************)
(* From a handler's call of a response builder to what the client reads:   *)
(* builders, dispatch()'s fallbacks, send_response() and the fixed pages,  *)
(* mnet_response_free(), for the requests of one keep-alive connection.    *)
(*                                                                         *)
(* The client sends one request at a time and finds the end of a response  *)
(* as HTTP/1.1 says: by the request's method, Content-Length or chunks.    *)
(* The connection holds at most WireCap tokens: heads, chunk sizes, line   *)
(* ends, bytes of a body.  How requests are read is module Connection's.   *)
(***************************************************************************)
EXTENDS StaticFiles

CONSTANTS
  Scripts,   \* sequences of requests: head, ka, call
  WireCap    \* what the sockets' buffers hold

(* What a handler calls; a size is a strlen(), or -1 for a text of NULL.   *)
HandlerCall ==
  [fn : {"text", "welcome", "error", "chunked", "nobody", "missing", "file", "refuse"},
   status : Nat, size : Nat \union {-1}, name : DOMAIN Real, good : BOOLEAN]

ASSUME ScriptsAssumption ==
  \A s \in Scripts :
    /\ s \in Seq([head : BOOLEAN, ka : BOOLEAN, call : HandlerCall])
    /\ \A j \in 1 .. Len(s) : s[j].call.fn # "text" => s[j].call.size \in Nat
ASSUME WireAssumption == WireCap \in Nat \ {0}

VARIABLES
  script, sent,
  notFoundSet,   \* app->not_found_handler # NULL
  made,          \* history: the response made for each request
  out,           \* what the worker still has to send
  wire,
  rd, left,      \* where the client is in a response, bytes to come
  heard, got,    \* the response it is reading, those it has read
  closing        \* it was told "Connection: close"

serverVars == <<made, out>>
clientVars == <<sent, rd, left, heard, got, closing>>
vars == <<staticVars, script, sent, notFoundSet, made, out, wire, rd, left, heard, got,
          closing>>

Request == script[served]

Init ==
  /\ script \in Scripts /\ notFoundSet \in BOOLEAN
  /\ FileInit
  /\ pc = "wait" /\ resp = Zero /\ served = 0 /\ live = {} /\ misuse = FALSE
  /\ sent = 0 /\ made = <<>> /\ out = <<>> /\ wire = <<>>
  /\ rd = "idle" /\ left = 0
  /\ heard = [status |-> 0, bytes |-> <<>>] /\ got = <<>> /\ closing = FALSE

----------------------------------------------------------------------------
(* The handler.                                                            *)

(* mnet_text(), mnet_html(), mnet_json(), of NULL if n < 0.                *)
Text(n) == {Zero} \union (IF n < 0 THEN {} ELSE {Copy(200, n)})

(* What the calls may return.  "nobody" is the answer of mnet_jsonf() when *)
(* there is no memory for its "null", whose length it still gives; a path  *)
(* without a route is left.                                                *)
Built(call) ==
  CASE call.fn = "text"    -> Text(call.size)
    [] call.fn = "welcome" -> {Copy(200, 1)} \union Error(500, 1)
    [] call.fn = "error"   -> Error(call.status, call.size)
    [] call.fn = "chunked" -> {[Copy(call.status, call.size) EXCEPT
                                  !.chunked = TRUE, !.good = call.good]}
    [] call.fn = "nobody"  -> {[Zero EXCEPT !.status = 500, !.len = call.size]}
    [] OTHER               -> IF notFoundSet THEN Error(404, 1) ELSE {Zero}

Handle ==
  /\ pc = "handle" /\ Request.call.fn \notin {"file", "refuse"}
  /\ \E r \in Built(Request.call) : Return(r, {})
  /\ UNCHANGED <<fileVars, diskVars, served, script, notFoundSet, serverVars, wire, clientVars>>

HandleFile ==
  /\ pc = "handle" /\ Request.call.fn = "file"
  /\ pc' = "file" /\ want' = Request.call.name
  /\ UNCHANGED <<place, measured, diskVars, resp, served, heapVars, script, notFoundSet,
                 serverVars, wire, clientVars>>

ServeFile ==
  StaticNext /\ UNCHANGED <<script, notFoundSet, serverVars, wire, clientVars>>

OthersWrite ==
  Rewrite /\ UNCHANGED <<script, notFoundSet, serverVars, wire, clientVars>>

----------------------------------------------------------------------------
(* Sending.                                                                *)

HeadOf(r, keep) == <<[t |-> "head", status |-> r.status, chunked |-> r.chunked,
                    length |-> r.len, close |-> ~keep]>>
Bytes(r) == [k \in 1 .. r.len |->
               [t |-> "byte", of |-> IF k <= r.filled THEN r.of ELSE Garbage]]
Chunk(r) == IF r.body /\ r.len > 0
            THEN <<[t |-> "size", n |-> r.len]>> \o Bytes(r) \o <<[t |-> "crlf"]>>
            ELSE <<>>

(* send_not_found(), send_simple_error(), send_method_not_allowed().       *)
Page(status, keep) ==
  LET r == [Copy(status, 1) EXCEPT !.of = FixedPage] IN HeadOf(r, keep) \o Bytes(r)

(* Fault: the last chunk is left out when there is no other.               *)
SentNoLast(r, head) ==
  LET keep == Request.ka
  IN IF ~r.good THEN {<<>>}
     ELSE IF head THEN {HeadOf(r, keep)}
     ELSE IF r.chunked
          THEN {HeadOf(r, keep) \o (IF Chunk(r) = <<>> THEN <<>> ELSE Chunk(r) \o <<[t |-> "last"]>>)}
     ELSE IF r.body /\ r.len > 0 THEN {HeadOf(r, keep) \o Bytes(r), <<>>}
     ELSE {HeadOf(r, keep)}

(* What send_response() sends: nothing with a content type it refuses or   *)
(* without memory to put head and body together.                           *)
Sent(r, head) ==
  LET keep == Request.ka
  IN IF ~r.good THEN {<<>>}
     ELSE IF head THEN {HeadOf(r, keep)}
     ELSE IF r.chunked THEN {HeadOf(r, keep) \o Chunk(r) \o <<[t |-> "last"]>>}
     ELSE IF r.body /\ r.len > 0 THEN {HeadOf(r, keep) \o Bytes(r), <<>>}
     ELSE {HeadOf(r, keep)}

Fallback(r) == r.status = 0 /\ ~notFoundSet

Answer ==
  /\ pc = "answer" /\ pc' = "send"
  /\ out' \in IF Fallback(resp) THEN {Page(404, Request.ka)} ELSE Sent(resp, Request.head)
  /\ made' = Append(made, [r |-> resp, quiet |-> out' = <<>>])
  /\ UNCHANGED <<fileVars, diskVars, resp, served, heapVars, script, notFoundSet, wire, clientVars>>

(* A request that does not parse: the page, and the connection is over.    *)
Refuse ==
  /\ pc = "handle" /\ Request.call.fn = "refuse" /\ pc' = "send"
  /\ resp' = Zero
  /\ made' = Append(made, [r |-> [Copy(400, 1) EXCEPT !.body = FALSE, !.of = FixedPage],
                          quiet |-> FALSE])
  /\ out' = Page(400, FALSE)
  /\ UNCHANGED <<fileVars, diskVars, served, heapVars, script, notFoundSet, wire, clientVars>>

(* send() blocks while the connection is full; to a client that is gone it *)
(* fails, which nobody looks at.                                           *)
SendToken ==
  /\ pc = "send" /\ out # <<>>
  /\ IF rd = "gone" THEN UNCHANGED wire
                    ELSE Len(wire) < WireCap /\ wire' = Append(wire, Head(out))
  /\ out' = Tail(out)
  /\ UNCHANGED <<staticVars, script, notFoundSet, made, clientVars>>

(* Fault: chunked bodies are freed too.                                    *)
FreedAll(r) == IF r.body /\ ~Fallback(r) THEN {Body} ELSE {}

(* mnet_response_free(), not called after send_not_found().                *)
Freed(r) == IF r.body /\ ~r.chunked /\ ~Fallback(r) THEN {Body} ELSE {}

Finish ==
  /\ pc = "send" /\ out = <<>>
  /\ live' = live \ Freed(resp) /\ misuse' = (misuse \/ ~(Freed(resp) \subseteq live))
  /\ pc' = IF Request.ka /\ Request.call.fn # "refuse" THEN "wait" ELSE "closed"
  /\ UNCHANGED <<fileVars, diskVars, resp, served, script, notFoundSet, serverVars, wire,
                 clientVars>>

----------------------------------------------------------------------------
(* mnet_handle_client()'s loop.                                            *)

TakeRequest ==
  /\ pc = "wait" /\ served < sent
  /\ served' = served + 1 /\ pc' = "handle"
  /\ UNCHANGED <<fileVars, diskVars, resp, heapVars, script, notFoundSet, serverVars, wire,
                 clientVars>>

(* Fault: a connection kept alive waits for ever.                          *)
GiveUpFirstOnly ==
  /\ pc = "wait" /\ served = sent /\ (served = 0 \/ rd = "gone")
  /\ pc' = "closed"
  /\ UNCHANGED <<fileVars, diskVars, resp, served, heapVars, script, notFoundSet, serverVars,
                 wire, clientVars>>

(* The deadline passes, or the client has closed.                          *)
GiveUp ==
  /\ pc = "wait" /\ served = sent
  /\ pc' = "closed"
  /\ UNCHANGED <<fileVars, diskVars, resp, served, heapVars, script, notFoundSet, serverVars,
                 wire, clientVars>>

----------------------------------------------------------------------------
(* The client.                                                             *)

SendRequest ==
  /\ rd = "idle" /\ ~closing /\ sent < Len(script) /\ pc # "closed"
  /\ sent' = sent + 1 /\ rd' = "head"
  /\ UNCHANGED <<staticVars, script, notFoundSet, serverVars, wire, left, heard, got, closing>>

Expected == [head |-> {"head"}, body |-> {"byte"}, chunk |-> {"byte"},
             size |-> {"size", "last"}, crlf |-> {"crlf"}]

Done(r) == rd' = "idle" /\ got' = Append(got, r) /\ UNCHANGED left

ReadHead(h) ==
  LET r == [status |-> h.status, bytes |-> <<>>]
  IN /\ closing' = h.close
     /\ IF script[sent].head \/ (~h.chunked /\ h.length = 0)
        THEN Done(r) /\ UNCHANGED heard
        ELSE /\ heard' = r /\ left' = h.length /\ UNCHANGED got
             /\ rd' = IF h.chunked THEN "size" ELSE "body"

ReadByte(b) ==
  LET r == [heard EXCEPT !.bytes = Append(@, b.of)]
  IN /\ IF left > 1 THEN left' = left - 1 /\ UNCHANGED <<rd, got>>
        ELSE IF rd = "chunk" THEN rd' = "crlf" /\ UNCHANGED <<left, got>>
        ELSE Done(r)
     /\ heard' = r /\ UNCHANGED closing

ReadChunked(c) ==
  /\ \/ c.t = "size" /\ rd' = "chunk" /\ left' = c.n /\ UNCHANGED got
     \/ c.t = "crlf" /\ rd' = "size" /\ UNCHANGED <<left, got>>
     \/ c.t = "last" /\ Done(heard)
  /\ UNCHANGED <<heard, closing>>

Receive ==
  /\ wire # <<>> /\ rd \in DOMAIN Expected
  /\ wire' = Tail(wire)
  /\ LET token == Head(wire)
     IN IF token.t \notin Expected[rd]
        THEN rd' = "confused" /\ UNCHANGED <<left, heard, got, closing>>
        ELSE CASE token.t = "head" -> ReadHead(token)
               [] token.t = "byte" -> ReadByte(token)
               [] OTHER            -> ReadChunked(token)
  /\ UNCHANGED <<staticVars, script, notFoundSet, serverVars, sent>>

(* It has seen the end of the connection.                                  *)
SeeClose ==
  /\ pc = "closed" /\ wire = <<>> /\ rd \notin {"gone", "over", "confused"}
  /\ rd' = "over"
  /\ UNCHANGED <<staticVars, script, notFoundSet, serverVars, wire, sent, left, heard, got, closing>>

(* It goes away, also when it makes no sense of what it reads.             *)
Leave ==
  /\ rd \notin {"gone", "over"} /\ rd' = "gone" /\ wire' = <<>>
  /\ UNCHANGED <<staticVars, script, notFoundSet, serverVars, sent, left, heard, got, closing>>

Server == TakeRequest \/ GiveUp \/ Handle \/ HandleFile \/ ServeFile \/ Answer \/ Refuse
            \/ SendToken \/ Finish
Client == SendRequest \/ Receive \/ SeeClose \/ Leave
Next   == Server \/ Client \/ OthersWrite

(* A worker that can go on does; its deadline passes; the client reads     *)
(* what arrives, and gives up on what it cannot read.                      *)
Spec == Init /\ [][Next]_vars /\ WF_vars(Server)
             /\ WF_vars(Receive) /\ WF_vars(rd = "confused" /\ Leave)

(* The same worker, but a client that may stop reading.                    *)
StallSpec == Init /\ [][Next]_vars /\ WF_vars(Server)

----------------------------------------------------------------------------
(* Properties.                                                             *)

(* Answers after which a client is out of step: a page with a body to a    *)
(* HEAD request, and a length without a body.                              *)
Upset(j) ==
  LET r == made[j].r
  IN \/ script[j].head /\ Fallback(r)
     \/ ~r.body /\ r.len > 0 /\ r.of # FixedPage

(* What a client that reads all of the answer to request j has then.       *)
Meant(j) ==
  LET r == made[j].r
  IN IF Fallback(r) THEN [status |-> 404, bytes |-> <<FixedPage>>]
     ELSE [status |-> r.status,
           bytes  |-> IF script[j].head THEN <<>> ELSE [k \in 1 .. r.len |-> Bytes(r)[k].of]]

(* The client takes what the server sent for what it is: the answer it     *)
(* reads to its j-th request is the one its handler made, to the last      *)
(* byte, over any number of requests on the connection; and when the       *)
(* connection ends it has read every answer that was sent at all.          *)
AnswersInStep ==
  (\A j \in 1 .. Len(made) : ~Upset(j)) =>
    /\ rd # "confused"
    /\ \A j \in 1 .. Len(got) : got[j] = Meant(j)
    /\ rd = "over" => \A j \in 1 .. Len(made) : made[j].quiet \/ j <= Len(got)

(* The worker frees what builders and static_handler() allocated, never    *)
(* twice, before it waits again or closes; nothing is said of a body that  *)
(* came with status 0 and has the 404 page sent in its place.              *)
BodiesFreed ==
  /\ ~misuse
  /\ pc \in {"wait", "closed"} =>
       live \subseteq {<<"body", j>> : j \in {m \in 1 .. Len(made) :
                 made[m].r.body /\ ~made[m].r.chunked /\ Fallback(made[m].r)}}

(* The files below the root, by the components of their names.             *)
Below(path) ==
  \/ path = Base
  \/ \E n \in 1 .. Len(path) - 1 :
       /\ path[n + 1] = "/" \/ (path[n] = "/" /\ n = Len(Base))
       /\ SubSeq(path, 1, n) = Base

Heard == UNION {{got[j].bytes[k] : k \in 1 .. Len(got[j].bytes)} : j \in 1 .. Len(got)}

(* What static_handler() serves lies in the directory it was given.        *)
Contained == \A b \in Heard : b \in Paths => Below(b)

(* No byte reaches a client that the file never filled in, also when the   *)
(* file shrinks between ftell() and fread().                               *)
NoGarbage == Garbage \notin Heard

(* The worker gets rid of every connection.                                *)
WorkerFreed == <>(pc = "closed")
=============================================================================
