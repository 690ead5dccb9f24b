# A TLA+ verification of mnet

mnet is a small HTTP server library in C: a thread pool fed by one accept loop,
a connection handler with keep-alive, a router, request and response helpers and
a small HTTP client. This directory holds TLA+ models of these parts, the TLC
runs that check them on small instances, and TLAPS proofs for every instance.
Line numbers refer to `src/src/`. Only the POSIX build is modelled.

## 1. Inventory

| Component | Source | State | Operations | Hard because |
|---|---|---|---|---|
| Worker pool, accept loop | `mnet_server.c` 170-455, `mnet.c` | ring buffer, `shutting_down`, `active_connections`, `running`, descriptors | `mnet_run`, push, pop, worker, shutdown, `mnet_stop`, signal handler | threads, condition variables, stop at any moment, partial start-up |
| Connection | `mnet_server.c` 13-168, `mnet_parse.c` 186-347, 445-547 | request buffer, keep-alive flag, deadlines, body | read, parse, read body, answer, reuse buffer | arbitrary segmentation, pipelining, slow or vanishing clients |
| Router, dispatch | `mnet_router.c`, `mnet_dispatch.c`, `mnet_app.c` 12-138, 244-295 | route table, parameter values | register, match, find, dispatch, release | hand-written matcher, ownership across failed attempts, allocation failure |
| Request data | `mnet_parse.c` 11-182, 349-547, `mnet_request.c`, decoder in `mnet_response.c` 11-80 | header, query and cookie arrays | parse, decode in place, look up, free | caps, repeated fields, allocation failure |
| Responses | `mnet_response.c` 166-229, 805-860, `mnet_dispatch.c` 56-224, `mnet.c` 182-214 | a response, who owns its body | build, fall back, send, free | framing on a kept-alive connection, ownership, clients that do not read |
| Static files | `mnet_handlers.c` 142-225 | resolved paths, open file | resolve, contain, open, measure, read | containment, files that change meanwhile |
| JSON formatting | `mnet_response.c` 110-164, 232-803 | growing buffer, place in the format, arguments | scan, escape, format, append | boundaries, arguments that must stay in step, failing allocations |
| HTTP client | `mnet_client.c` | socket, growing response buffer | parse URL, connect, send, read, strip headers | early close, signals and time-outs, limits |
| Application object | `mnet_app.c` | configuration, `g_running_app` | create, set, destroy, run again | life cycle against signals |
| Welcome page, MIME table, logging | `mnet_handlers.c`, `mnet_log.c` | one handler pointer | format, print | - |

How they interact: the accept loop hands descriptors to workers through the
queue; a worker calls `mnet_handle_client()` for the life of a connection, which
calls `parse_request()`, `dispatch()` (router, then the handler) and
`send_response()`. Routes are fixed before `mnet_run()`. The only shared mutable
state is the pool's, under one mutex, and the volatile flag `running`.

What makes each part correct, in a line each: no connection is lost, served
twice or closed twice, and shutdown ends and cleans up, in every run of the app
(pool); one answer per request, in order, to the bytes the client sent, in
bounded time (connection); the first matching route gets the request with the
right parameters, and their memory is freed once (router); a handler sees all
the fields, cookies and parameters or the request is refused (request data); the
client reads exactly the response that was built, and the worker gets free
(responses); only files below the root are served, as far as they were read
(static files); the text is what the format means and within the buffer (JSON);
the caller gets the body that was sent and nothing else is left over (client).

## 2. Modules

| Module | What it is |
|---|---|
| `WorkerPool` | `mnet_run()` and the pool: start-up, accept loop, queue, workers, shutdown, stop requests |
| `ConnService` | abstract specification: a FIFO service for connections |
| `WorkerPoolProofs` | proofs about `WorkerPool`, among them that it implements `ConnService` |
| `Connection` | one connection: `mnet_handle_client()`, `parse_request()`, `read_full_body()`, a client and a clock |
| `ConnectionProofs` | the time bound; types, order of answers, bodies, and that good requests are served |
| `Router` | registration, `mnet_find_route()`, `mnet_route_match()`, `dispatch()`, release of parameters |
| `RouterProofs` | types, ownership of parameter values, the route found, the values under their names |
| `RequestExtras` | `parse_headers()`, `parse_cookies()`, `parse_query_string()`, URL decoding, look-ups, `free_extras()` |
| `RequestExtrasProofs` | ownership, completeness of the fields, the last Cookie field, the query decoded |
| `StaticFiles` | the response record, `mnet_error()` and `static_handler()`, one action per system call |
| `Exchange` | extends `StaticFiles`: handler, builders, `send_response()`, the connection and a client that reads |
| `ExchangeProofs` | ownership of bodies, containment, no garbage, framing of the answers |
| `JsonFormat` | `mnet_jsonfv()` and `mnet_json_escape()` |
| `JsonFormatProofs` | the buffer bound, what is freed, whole characters, what a format comes out as |
| `Client` | `mnet_call()`, `mnet_call_async()` |
| `ClientProofs` | buffer, release, the body returned, what is asked |
| `ListLemmas` | lemmas on numbers and sequences that the proofs share |
| `MC*` | instances for TLC |

Operators marked *Fault* in the modules are variants with one plausible mistake
(a dropped signal, an off-by-one, a missing free). They are not part of any
specification; each shows that some property notices the mistake.

### WorkerPool

One critical section of `pool->mutex` is one action; the code between two of
them, and each read of `running`, is an action of its own. So the check of
`max_connections` (`CheckLimit`), the increment (`CountIn`) and the push are
three actions. A condition variable is the set of threads blocked on it: `Push`
signals one, `Shutdown` wakes all, and a wait may end spuriously. `apc` is where
the accept thread is, `wpc[w]` where worker `w` is. Failure of listen, of the
allocation and of any `pthread_create()` is a choice. `StopRequest` is
`mnet_stop()` or a signal handled elsewhere; `SignalInAccept` is the handler
interrupting `accept()`. Descriptors are reused once closed, as the kernel does.
`Serve` stands for all of `mnet_handle_client()`, whose return the fairness of a
worker assumes; `ConnectionEnds` and `WorkerFreed` (below) check that.
`workers` is `app->workers`, which `SpawnFails` lowers for good; `SetWorkers` and
`RunAgain` let the same app be configured and run any number of times.

### ConnService and the refinement

`ConnService` says what a caller may rely on: a connection arrives, is turned
away or joins a queue of `Capacity`, leaves it in order, is served once. The
mapping reads the ring buffer as a sequence (`Queue`), the workers' descriptors
as a set and the accept loop's local as the door.

### Connection

The byte stream is a sequence of tokens: a request line with its fields, padding,
CRLF CRLF, LF LF, body bytes. That keeps what the code's `strstr()` searches can
tell apart. A token knows which request it belongs to, so properties can compare
what the server made of it. Clients are scripts of requests (`Kind` says what the
tokens of a request are, `Stream` puts the requests one behind the other); they
send any number of tokens at a time, wait for each answer before the next request or, for an
`eager` one, do not, and may close at any point. The status of a
refusal is computed in the order of the code's tests. Time passes only while the
server polls. `Failures` lets `poll()`/`recv()` or `malloc()` fail.
`200` in the log stands for whatever the handler answers.

What the properties need of a request is said in them, not in the choice of the
scripts. `Separate(i)`: nothing of request `i` is left in the buffer when it is
answered, because it has no body, or because the client waits and the body holds
no CRLF CRLF; only then does `InOrder` forbid a second answer to it. `BodyIntact`
is about clients that wait, with any body if the header block ends with
CRLF CRLF. These conditions came out of the proof: the first version of the
model had scripts in which no request follows a body unasked and no body has a
blank line, and held without them.

### Router

Patterns and paths are token sequences; the matcher's loop is one action per
turn (`Wildcard`, `Parameter`, `Literal`, `Mismatch`, `NoMemory`). Parameter
values are allocations with an identity, so that leaks and double frees show.
`Matches` and `Captured` define, segment by segment and without a loop, what a
pattern means; the loop is compared with them. That definition also records what
the code does with slashes: one after a last parameter is ignored, `*` needs a
non-empty rest, and a parameter is empty only in front of a slash.

### RequestExtras

One request after another goes through the code after the body has been read:
header lines into arrays, then the stored fields in order (a Cookie field
replaces the cookies of an earlier one), then the query. Every allocation has a
name, so a leak, a double free or an overwritten pointer shows. The decoder works
in place, one character per step, as the code does, and is compared with a
recursive definition (`Decoding`). Header lines are classified by what the code
can tell apart: no colon, bad name, too long, a field.

### StaticFiles and Exchange

`Exchange` follows a response from the builder's call to the client's last byte.
A response is status, whether there is a body, its length, how much of it is
initialised and where the bytes come from; so a byte from outside the root or
from uninitialised memory can be recognised when the client reads it. The client
finds the end of a response as HTTP/1.1 says and therefore notices a framing
mistake in the response *after* it. `send()` is one action per token and blocks
while the connection holds `WireCap` of them. `static_handler()` is one action
per system call, and another program may rewrite files in between. How requests
are read is left to `Connection`; here a request is one step.

### JsonFormat

A format is a sequence of tokens. One action is one turn of the scanner's loop,
one escaped byte, or one growth of the buffer. The scanner's classification
(`Class`, `Refused`) follows the order of the code's tests. Calls are built from
parts (a directive with its argument, or a text) whose meaning is known
independently of the scanner; `FormatRight` compares the two. `WellFormed` is the
grammar of the parts that are allowed, `Forbidden` what must be refused, and
`Spelled` says that a call is its parts side by side; `MCJsonFormat` states it of
every call of the run. An argument of the
wrong type, a specifier `snprintf()` does not know, or an integer specifier whose
normal form is longer than `nspec` leads to the state `undefined`; `SpecSize` is
the size of both arrays, `spec` and `nspec`.

### Client

`mnet_url_parse()` is an operator, compared with what a URL means: its host, its
path, and as the port the one given, 0 if that is no port, or the default of its
scheme (443 for `https://`). Connecting, sending and reading are actions that may
fail one by one. The server sends a prefix of its response in portions of any
size and then closes, resets, stalls, or a signal arrives. `atoi()` reads the
status from a buffer without terminator; when the status is the last thing
received, what it reads there is a choice (`StatusRead`).

## 3. Runs

| Run | Instance | Shows |
|---|---|---|
| `PoolUnlimited` | 1 or 2 workers, 2 slots, 4 descriptors, no limit, fair threads | `TypeOK`, `PoolSized`, `Accounting`, `SoleOwner`, `CleanReturn`, `ShutdownCompletes`, `AcceptedIsClosed` |
| `PoolLimited` | 1 or 2 workers, limit 2, 3 descriptors, fair threads | `ConnectionLimit` across two critical sections, `NoLostWakeup`, `StopReturnsWhenBusy`, `ImplementsService` |
| `ConnAll` | 50 scripts of 3 well-formed requests; every kind of refusal; bodies with blank lines; clients that do not wait, also behind a body; failing `poll()` and `malloc()` | `TypeOK`, `InOrder`, `WellFormedServed`, `BodyIntact`, `RequestTimeBounded`, `DeliveredIsAnswered`, `ConnectionEnds` |
| `Router` | up to 2 GET, HEAD and static routes, 13 paths of up to 3 segments, any allocation fails | `TypeOK`, `RoutedRight`, `ParamFound`, `ParamsOwned` |
| `RequestExtras` | 9 header blocks and 24 queries around caps of 3 and 2, any allocation fails, request after request | `ExtrasOwned`, `HeadersComplete`, `LastCookieWins`, `QueryDecoded` |
| `Exchange` | 3 requests, the first with any of 18 handler calls, GET or HEAD; 5 files; a connection of 2 tokens | `AnswersInStep`, `BodiesFreed`, `Contained`, `NoGarbage`, `WorkerFreed` |
| `JsonFormat` | formats of up to 3 directives, output and value buffers of 2 and 6 bytes, specifiers of up to 8, any allocation fails | `BufferBound`, `FormatRight`, `WholeCharacters`, `AllFreed` |
| `Client` | 14 URLs, 8 responses, portions of 1 to 3 tokens, a body limit of 4 | `AskedRight`, `RawFits`, `CallReleases`, `BodyReturned`, `CallReturns` |

Four runs end in a counterexample that a reader of the code would want to know;
each checks a sentence of the repository and PROJECT.json quotes it:

| Run | What TLC shows |
|---|---|
| `PoolStopIdle` | `mnet_stop()` alone does not end `mnet_run()`: `accept()` stays blocked until a client comes |
| `ConnPipelined` | half of a pipelined request is dropped, its rest refused |
| `RouterTooMany` | more parameters than slots are counted and freed |
| `ExchangeStalled` | a client that stays and does not read keeps its worker in `send()`, although `mnet_set_timeout()` is documented as a read/write timeout |

The models reproduce smaller surprises that no run is devoted to.

Pool and connection:

* A stop before `running = 1` is overwritten (`Begin`).
* A request body that holds a CRLF CRLF is kept and answered as a request of its
  own (`NextBuffer`): the code skips the header block, not the body. The same
  happens to a body with another request right behind it. `InOrder` allows both
  (`Separate`).
* With LF LF after the headers, body bytes up to a CRLF CRLF are parsed as
  fields (`EndOfHeader`), although `mnet_parse.c` 483 means to "confine header
  parsing to headers only".
* The body has a deadline of its own (`ParseOk`), although `mnet_server.c` 19
  speaks of "an absolute deadline for the entire request"; the bound that does
  hold, two timeouts, is `RequestTimeBounded`.

Router and request data:

* A pattern such as `/:x.:y` has two names and one value: registration ends a
  name at `.`, the matcher does not (`Names`, `Parameter`). `ParamFound`
  is checked for patterns without dots.
* Running out of memory in a match is taken for a mismatch (`NoMemory`).
* A malformed escape is kept in a path parameter (`Decode`), although
  `docs/security.md` 81 says that parameters "that fail to decode are reported as
  empty". `ParamFound` says nothing of such a segment.
* A query name or value over the limit does not have its request refused, as
  `docs/security.md` 42 says; the request is served with no query at all
  (`PairFails`, whose result `parse_request()` ignores).
* A header block with exactly `MNET_MAX_HEADERS` fields is refused if any line
  follows, also one that would not be stored (`OverLimit`).

Responses:

* The 404 page sent for a HEAD request has a body (`Page`), although
  `docs/api.md` 275 says "`HEAD` requests return headers with no body".
  `AnswersInStep` leaves connections with such an answer out (`Upset`).
* A handler's status 0 becomes a 404 page, not the 500 of the comment at
  `mnet_response.c` 815, and a body that came with it leaks (`Finish`), although
  `docs/api.md` 110 says the server frees it. `BodiesFreed` leaves that body out.
* A response whose content type is refused, or that cannot be put together for
  lack of memory, is not sent at all; the client waits for the deadline (`Sent`).
* Without memory for its "null", `mnet_jsonf()` announces four bytes and sends
  none.

JSON:

* A specifier of 64 characters or more is passed over without reading its
  argument (`PassOver`), although `mnet_response.c` 587 "keeps every argument
  consumed through va_arg exactly once". `FormatRight` is about
  shorter ones.
* An integer specifier of 62 or 63 characters without a length modifier fits
  `spec` (64 bytes), but not, with "ll" put in, `nspec` (676-686), which is
  overrun. The model goes to `undefined` (`NormalFits`); the run holds such
  specifiers and `FormatRight` is about shorter ones (`Passable`).
* `%2s` in front of a word with a conversion letter in it, and `%-*d`, pass the
  scanner, which looks at the first conversion letter, and reach `snprintf()`,
  although the comment at `mnet_response.c` 518 says they are rejected (the tests
  at `test_security.c` 91 and 104 have nothing behind the `s` and the `*` first).
  Such formats are not `Spelled`, and `FormatRight` is not about them.
* Only a width that comes first is limited: `%-9000d` is not (`TooWide`).
* A string cut just in front of a non-ASCII character is dropped whole (`Cut`).
* When the copy of a cut string cannot be allocated the escape buffer leaks
  (`StringFails`, the exception in `AllFreed`).
* A negative `char` given to `%c` comes out as `\uffff`; the model takes
  characters that are not negative.

Client:

* A response that ends early is returned as if complete, and an error answer cut
  within its first twelve bytes as an empty success (`Closed`, `HasStatus`).
* A body over the limit is returned cut to it (`Bounded`), although
  `docs/features.md` 347 says it is "rejected with `NULL`". `BodyReturned` requires
  neither.
* A chunked response is returned with its framing; a fragment is sent with the
  path.
* An `https://` URL is asked in the clear at port 80, and a URL without a path
  asks for the empty path, `GET  HTTP/1.1`, although `mnet_client.c` 370 lists
  `https://example.com` and `example.com` as supported. `AskedRight` says nothing of
  the port of the one and the path of the other.
* A port that is none (`:81x`, `:65536`) becomes 80 and is not refused
  (`PortGiven`); a host or path longer than its buffer is cut (`Cut`).
* A response that ends with the status itself may be taken for another status
  (`StatusRead`).
* The limit and the time-out of `mnet_call()` are constants: the setters that
  `docs/features.md` 338 and 350 name do not reach it.

**Bounds.** Two workers suffice for every order of two waiters; two slots let
the queue be empty, full and wrapped around. With a limit there is a descriptor
more than it admits, so one is refused; without, the accept loop can wait for a
slot while a worker holds a connection. Descriptors are reused in every run, and
so is the app. `BufferSize` is 5 tokens: requests of 2 to 5 header tokens fit,
one of 6 does not; bodies are shorter and longer than what is left of the buffer.
The timeout is 2 ticks and the keep-alive timeout 1, so they differ. Three
segments let a parameter be first, middle and last. `MaxRoutes` bounds the table;
`InitialCapacity` is 1, so it is allocated and then grows. `MaxHeaders` 3 and
`MaxQuery` 2 are reached, and exceeded by a line or a pair. `WireCap` 2 is less
than any response, so every answer blocks; three requests let a framing mistake
in one show in the next and a connection end by each of the three ways.
`MaxWrites` 1 lets a file change between measuring and reading. `InitialCap` 2
makes every call of `mnet_jsonf()` grow its buffer, `StackSize` and `MaxWidth`
lie between the widths used, and `SpecSize` 8 is short enough for specifiers that
fit `spec` and not `nspec`. `RawStart`, `Chunk` and `MaxBody` are so small that
the response buffer grows twice and the limit is passed within a portion;
`MaxSignals` bounds the interruptions of `recv()`.

**Fairness.** `FairSpec` of `WorkerPool` assumes that runnable threads run, and
nothing of `accept()`, because no client need connect; `StopReturnsWhenBusy`
adds that it keeps returning as a hypothesis of its own. In `Connection` the
server thread and the clock make progress; the client owes nothing. In
`Exchange` a worker that can go on does, its deadline passes, and the client
reads what arrives or leaves; `StallSpec` takes the client's part away. In
`Client` the calling thread runs and `SO_RCVTIMEO` ends a `recv()` that nothing
else ends (the code sets it, 282-293); the server owes nothing.
No liveness is claimed of `Router`, `RequestExtras` and `JsonFormat`.
Deadlock is not checked where a run of the model ends: a closed connection, a
call that returned.

## 4. Proofs

Every theorem holds for all values of the constants that satisfy the named
assumptions of its module: sizes are numbers, buffers are not empty, and scripts,
URLs, answers, calls, patterns and files have the shape the code can be given.
TLC evaluates the assumptions in every run, and each inductive invariant below
was model-checked on its run's instance before it was proved.

**Pool** (`SocksAssumption`, `WorkersAssumption`, `LimitAssumption`).
`WorkerPoolProofs` proves the inductive invariant `IInv` and from it
`TypeCorrect`, `AccountingHolds`, `NoLostWakeupHolds`, `PushWaits`,
`PoolSizedHolds`, `DrainHolds` and `SingleNeverRefusesHolds`. `Accounting` alone
is not inductive: that the counter is right depends on how many workers sit at
each place, and `NoLostWakeup` needs to know that a worker blocks only on an
empty queue and that every push wakes one. `IInv` adds which workers were
started, how many `app->workers` promises, and what `shutting_down` implies; all
of it over any number of runs of the app. `OInv` adds who owns which descriptor:
the queue holds distinct open descriptors, disjoint from the workers' and the
accept loop's. From it follow `SoleOwnerHolds`, `ConnectionLimitHolds`,
`CleanReturnHolds` and `Refinement`: every step is a step of `ConnService` or a
stutter. The arithmetic of the ring buffer is in lemmas about `%`.

**Connection** (`ScriptsAssumption`, `BoundsAssumption`). `TimeInv` gives
`RequestTimeBoundedHolds`: time gone plus time left is one timeout while headers
are read, at most two while a body is. `TypeHolds`, `InOrderHolds`,
`WellFormedServedHolds` and `BodyIntactHolds` rest on one picture. `T` is all the
client will ever send. What is received, on the wire and not yet sent are three
consecutive pieces of it (`NetInv`). The buffer is a piece of what is received,
starting at some place `a` with every answered request behind it (`BufInv`), and
the body is another (`BodyInv`). The answers climb (`LogInv`), so a client that
waits has sent nothing behind the request at hand. Then the first blank line the
code finds is the one the client meant (`HeaderEnd`), the length it reads is that
of the body, and what `NextBuffer` keeps or drops leaves `a` at the start of a
request, unless the request cannot be told from the next (`Fresh`). `ServedInv`
adds that no refusal applies to a good request. Where requests lie in the stream
(`Laid`, `Places`, `TokenIs`) is proved by induction on their number.

**Router** (`RouterAssumption`). `TInv` gives `TypeHolds`: the matcher's places
stay inside pattern and path and the table inside its capacity. `PInv` ties the
values stored so far to the captures to the left of the place in the pattern and
gives `ParamsOwnedHolds`. That theorem has the hypothesis `FewParams`, no pattern
has more parameters than slots: without it the statement is false, as the run
`RouterTooMany` shows.

`RoutedRightHolds` compares the matcher's loop, which walks pattern and path
character by character, with `Matches`, which cuts both into segments. Its loop
invariant `Progress` says which segment both places are in, that all segments
before it agree, and that the two places are as far into it or just past it; when
the loop ends, one way or the other, `Progress` decides `Matches`. `RInv` adds
which routes the search has passed over, for the request's method and then for
GET. The hypothesis `WellShapedRoutes` is that a `:` starts a segment and a `*` is
the last one, as everywhere in the docs and examples; the meaning of other
patterns is nothing but what the loop does. `ParamFoundHolds` adds that names and
values are counted alike, for the segments whose escapes decode. `Names`, which scans the pattern at registration, lists
the name of every mark in order (`NamesLineUp`, by induction over the places of
the pattern from the right), and `VInv` says that the slots filled so far hold
what `Captured` says of the marks passed so far. It needs `FewParams` and
`ClearNames`: two parameters of one pattern have different names, none of which
holds a `.` or is one the library generates. `MCRouter` states that the patterns
of the runs satisfy both shapes, so TLC checks that the hypotheses are not empty.

**Request data** (`ExtrasAssumption`, `RequestsAssumption`). `OwnInv` says for
every place which allocations are live and which array owns them
(`ExtrasOwnedHolds`); `HeaderInv` that the fields stored are those of the lines
read so far (`HeadersCompleteHolds`); `CookieInv` that the cookies are those of
the last Cookie field among the fields looked at, as far as it has been read
(`LastCookieWinsHolds`). `QueryInv` gives `QueryDecodedHolds`: the parameters
stored are the first pieces of the query, and inside the decoder, what is written
followed by the decoding of what is left to read is the decoding of the whole
piece, or both are broken. The proof showed that the token which stood for a text
that does not decode could also occur in a request; it is now a lone `%`, which
no decoding returns.

**Responses and files** (`FilesAssumption`, `ScriptsAssumption`,
`WireAssumption`). `PlaceInv` and `OwnInv` say where the code is and who owns the
body (`BodiesFreedHolds`, which says nothing of a body that came with status 0: the
code leaks it); `FileInv` that an open file is below the root and that
no more is initialised than was read, and `CleanInv` that the same is true of
everything on the wire (`ContainedHolds`, `NoGarbageHolds`). `StepInv` splits what
was sent into what the client has read, response by response, and what is on the
wire, and says that the client's idea of where it is agrees with the sender's
(`AnswersInStepHolds`).

**JSON** (`CallsAssumption`, `SizesAssumption`). `JInv` bounds what is in the
buffer at each place of the scanner and says which buffers are live:
`BufferBoundHolds` (the output and the escape buffer; `nspec` is not among them),
`AllFreedHolds`, `WholeCharactersHolds`. `FormatRightHolds` has the hypothesis
`CallsSpelled`, every call is `Spelled`; formats the scanner and `snprintf()` read
differently, such as those listed in section 3, are neither `WellFormed` nor
`Forbidden` and so outside it. `FormatRight` itself is about parts that are
`Passable`: they fit `spec`, and integers in their normal form `nspec`; without
the second condition it is false. Its invariant `FInv` says that some
number `j` of parts has been read, all of them allowed, that the places in format
and arguments are where part `j` ends, and that the buffer holds what the parts so
far stand for, except that inside an escape what is written and what is left to
escape make up the last of them. For each kind of part one lemma says what the
scanner takes it for (`SeesNumber`, `SeesForbidden`, ...) and one what the code
makes of it (`MeaningNumber`, ...). The proof showed that `Meaning` had two cases
that overlapped, for a string "nan"; they are now exclusive.

**Client** (`UrlsAssumption`, `AnswersAssumption`, `SizesAssumption`). `CInv` gives
`RawFitsHolds`, `CallReleasesHolds`, `BodyReturnedHolds` and `AskedRightHolds`: what
is in the response buffer is a prefix of the answer, and the buffer's size is one
of `RawStart` doubled some number of times and not smaller than what it holds.
`AskedRight` compares the parser with how the URL was spelt (`Spelt`), piece by
piece: the host, the path if there is one, and the port of plain HTTP.
`BodyReturned` promises all of a
body only within the limit, and a status of 400 or more is noticed if a byte
followed it.

Induction over numbers and sequences is done without the library's induction
rules, which the provers cannot instantiate: a statement about all `n` holds
because a smallest counterexample (`Least` in `ListLemmas`) contradicts the step
before it, and recursive functions over numbers are unfolded with
`NatInductiveDef`. A recursive function over sequences (`Decoding`) or over places
counted downwards is unfolded with `WFInductiveDef` for an order that is shown to
be well-founded first.

Only model-checked is liveness (`ShutdownCompletes`, `AcceptedIsClosed`, `StopReturnsWhenBusy`,
`DeliveredIsAnswered`, `ConnectionEnds`, `WorkerFreed`, `CallReturns`): TLAPS does
neither fairness nor ENABLED. Every safety invariant and the refinement are proved.

## 5. Not modelled

* Short `send()`s: `mnet_send()` (`mnet.c` 182-214) is one `send()` whose result
  nobody looks at, so a short one would cut the response; in the model all of it
  goes out, token by token. One that fails is ignored, as in the code.
* NUL bytes in a request, which end the code's `strstr()` searches early.
* Negative timeouts; the constants are the resolved values.
* `mnet_destroy()`, and the signal handler's `g_running_app` that outlives it
  (`mnet_server.c` 170): a write to freed memory that is plain from the source.
* The other setters of the application object, which store a number that is a
  constant here.
* A middleware is a handler that may answer first; only its answer is modelled.
* Between `realpath()` and `fopen()` (`mnet_handlers.c` 158-186) a path may be
  replaced; in the model only the contents of files change.
* What `snprintf()` makes of a number beyond digits, padding and "nan".
* Calls with NULL arguments that return at once, except for the format.
* Logging, the text of the welcome page, the MIME table, socket options, Windows.

## 6. Plan

1. Done: `WorkerPool` with its refinement, `Connection`, `Router`,
   `RequestExtras`, `StaticFiles`, `Exchange`, `JsonFormat`, `Client`, and proofs
   of all their safety properties.
2. Left: `mnet_destroy()` and the signal handler that outlives it, which needs the
   application object as a component of its own.
