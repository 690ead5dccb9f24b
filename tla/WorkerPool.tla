----------------------------- MODULE WorkerPool -----------------------------
(***************************************************************************)
(* mnet_run(): start-up, the accept loop, the bounded connection queue and *)
(* the worker threads of src/src/mnet_server.c, in any number of runs of   *)
(* the same app.                                                           *)
(*                                                                         *)
(* Every field the threads share (the ring buffer, shutting_down,          *)
(* active_connections) is read and written under pool->mutex, so one       *)
(* critical section is one action; code between two critical sections, and *)
(* every read of the volatile flag running, is an action of its own.       *)
(* A condition variable is the set of the threads blocked on it: signal    *)
(* moves one of them back to its re-check, broadcast all of them, and a    *)
(* wait may also end spuriously.                                           *)
(*                                                                         *)
(* Socks are descriptors, not connections: a closed descriptor is handed   *)
(* out again by a later accept(), so the model never runs out of clients   *)
(* and a descriptor that is kept or closed once too often can hit another  *)
(* client's connection.                                                    *)
(***************************************************************************)
EXTENDS Integers, FiniteSets

CONSTANTS
  Socks,            \* client descriptors accept() can return
  NoSock,           \* MNET_INVALID_SOCKET, and uninitialised storage
  NumWorkers,       \* the most workers mnet_set_workers() lets through
  MaxConnections,   \* app->max_connections, 0 = no limit
  DefaultCapacity   \* stands for the 128 slots used when there is no limit

ASSUME SocksAssumption == IsFiniteSet(Socks) /\ NoSock \notin Socks
ASSUME WorkersAssumption == NumWorkers \in Nat \ {0}
ASSUME LimitAssumption ==
  MaxConnections \in Nat /\ DefaultCapacity \in Nat \ {0}

Capacity == IF MaxConnections > 0 THEN MaxConnections ELSE DefaultCapacity
Workers  == 1 .. NumWorkers
Slots    == 0 .. Capacity - 1

VARIABLES
  apc,          \* where the thread that called mnet_run() is
  client,       \* its local variable client
  running,      \* app->running
  shuttingDown, \* pool.shutting_down
  active,       \* app->active_connections
  slots, head, count,   \* pool.slots, pool.head, pool.count
  threads,      \* pool.thread_count
  workers,      \* app->workers
  pooled,       \* mnet_run() has taken the branch with the pool
  wpc, wsock,   \* where each worker is, and its local variable client
  open,         \* descriptors of accepted connections not yet closed
  stopAsked     \* history: a stop was requested during this mnet_run()

queueVars == <<slots, head, count>>
flagVars  == <<running, stopAsked>>
wrkVars   == <<wpc, wsock>>
poolVars  == <<threads, workers, pooled>>
vars == <<apc, client, running, shuttingDown, active, slots, head, count,
          threads, workers, pooled, wpc, wsock, open, stopAsked>>

APC == {"listen", "begin", "alloc", "spawn", "loop", "accept", "check",
        "refuse", "count", "push", "pushWait", "undo", "drop", "serve",
        "close", "dec", "shutdown", "join", "drain", "done"}
WPC == {"off", "pop", "wait", "serve", "close", "dec", "exited"}

(* The indices stay inside the slot array and count within its capacity.   *)
TypeOK ==
  /\ apc \in APC /\ client \in Socks \cup {NoSock}
  /\ running \in BOOLEAN /\ shuttingDown \in BOOLEAN /\ stopAsked \in BOOLEAN
  /\ active \in Int
  /\ slots \in [Slots -> Socks \cup {NoSock}]
  /\ head \in Slots /\ count \in 0 .. Capacity
  /\ threads \in 0 .. NumWorkers
  /\ workers \in 0 .. NumWorkers /\ pooled \in BOOLEAN
  /\ wpc \in [Workers -> WPC] /\ wsock \in [Workers -> Socks \cup {NoSock}]
  /\ open \subseteq Socks

(* mnet_run() entered with a valid app, with the workers that              *)
(* mnet_set_workers() left it; the handlers for SIGINT and SIGTERM are     *)
(* installed and g_running_app points at the app.                          *)
Init ==
  /\ apc = "listen" /\ client = NoSock
  /\ running = FALSE /\ shuttingDown = FALSE /\ active = 0
  /\ slots = [i \in Slots |-> NoSock] /\ head = 0 /\ count = 0
  /\ threads = 0 /\ workers \in Workers /\ pooled = FALSE
  /\ wpc = [w \in Workers |-> "off"] /\ wsock = [w \in Workers |-> NoSock]
  /\ open = {} /\ stopAsked = FALSE

Blocked == {w \in Workers : wpc[w] = "wait"}   \* waiting on not_empty
Queue   == [i \in 1 .. count |-> slots[(head + i - 1) % Capacity]]
Queued  == {Queue[i] : i \in 1 .. count}

----------------------------------------------------------------------------
(* Forms that several steps share: the mnet_run() thread or a worker only  *)
(* moves on; the mnet_run() thread moves on and closes its client, or adds *)
(* to active_connections.                                                  *)

Move(from, to) ==
  /\ apc = from /\ apc' = to
  /\ UNCHANGED <<client, flagVars, shuttingDown, active, queueVars, poolVars,
                 wrkVars, open>>

CloseClient(from, to) ==
  /\ apc = from /\ apc' = to
  /\ open' = open \ {client} /\ client' = NoSock
  /\ UNCHANGED <<flagVars, shuttingDown, active, queueVars, poolVars, wrkVars>>

AddActive(from, to, d) ==
  /\ apc = from /\ apc' = to
  /\ active' = active + d
  /\ UNCHANGED <<client, flagVars, shuttingDown, queueVars, poolVars, wrkVars,
                 open>>

WMove(w, from, to) ==
  /\ wpc[w] = from /\ wpc' = [wpc EXCEPT ![w] = to]
  /\ UNCHANGED <<apc, client, flagVars, shuttingDown, active, queueVars,
                 poolVars, wsock, open>>

----------------------------------------------------------------------------
(* Start-up.  Listening, allocation and thread creation may each fail.     *)

Listen == Move("listen", "begin") \/ Move("listen", "done")

Begin ==
  /\ apc = "begin" /\ apc' = IF workers > 1 THEN "alloc" ELSE "loop"
  /\ running' = TRUE /\ active' = 0 /\ pooled' = (workers > 1)
  /\ UNCHANGED <<client, shuttingDown, queueVars, threads, workers, wrkVars,
                 open, stopAsked>>

Alloc == Move("alloc", "spawn") \/ Move("alloc", "done")

SpawnOk ==
  /\ apc = "spawn"
  /\ apc' = IF threads + 1 = workers THEN "loop" ELSE "spawn"
  /\ threads' = threads + 1
  /\ wpc' = [wpc EXCEPT ![threads + 1] = "pop"]
  /\ UNCHANGED <<client, flagVars, shuttingDown, active, queueVars, workers,
                 pooled, wsock, open>>

(* Fault: app->workers still promises threads that do not exist. *)
SpawnFailsForgets == Move("spawn", IF threads = 0 THEN "shutdown" ELSE "loop")

(* Serve with the workers that did start, or give up through               *)
(* mnet_pool_shutdown() when there is none.  app->workers is lowered for   *)
(* good.                                                                   *)
SpawnFails ==
  /\ apc = "spawn" /\ apc' = IF threads = 0 THEN "shutdown" ELSE "loop"
  /\ workers' = threads
  /\ UNCHANGED <<client, flagVars, shuttingDown, active, queueVars, threads,
                 pooled, wrkVars, open>>

----------------------------------------------------------------------------
(* The accept loop.                                                        *)

LoopExit == IF pooled THEN "shutdown" ELSE "done"

(* Fault: the loop does not look at running. *)
TestRunningIgnored == Move("loop", "accept")

TestRunning == Move("loop", IF running THEN "accept" ELSE LoopExit)

Accept(s) ==
  /\ apc = "accept" /\ apc' = "check"
  /\ s \notin open
  /\ client' = s /\ open' = open \cup {s}
  /\ UNCHANGED <<flagVars, shuttingDown, active, queueVars, poolVars, wrkVars>>

(* accept() fails: EINTR goes round the loop, anything else (no descriptor *)
(* left, for one) stops the server.                                        *)
AcceptInterrupted == Move("accept", "loop")
AcceptFails       == Move("accept", LoopExit)

(* Fault: one connection too many passes the limit. *)
CheckLimitOffByOne ==
  Move("check", IF MaxConnections > 0 /\ active > MaxConnections
                THEN "refuse" ELSE "count")

CheckLimit ==
  Move("check", IF MaxConnections > 0 /\ active >= MaxConnections
                THEN "refuse" ELSE "count")

Refuse == CloseClient("refuse", "loop")     \* after a 503

CountIn == AddActive("count", IF pooled THEN "push" ELSE "serve", 1)

----------------------------------------------------------------------------
(* mnet_pool_push() and its caller's error path.                           *)

Full == count = Capacity

(* One worker blocked on not_empty, if there is one, goes back to its test. *)
SignalNotEmpty ==
  IF Blocked = {} THEN wpc' = wpc
                  ELSE \E w \in Blocked : wpc' = [wpc EXCEPT ![w] = "pop"]

PushInto(slot) ==
  /\ apc = "push" /\ apc' = "loop"
  /\ ~Full /\ ~shuttingDown
  /\ slots' = [slots EXCEPT ![slot] = client] /\ client' = NoSock
  /\ count' = count + 1
  /\ UNCHANGED <<flagVars, shuttingDown, active, head, poolVars, wsock, open>>

(* Faults: stored one slot too far; not_empty not signalled. *)
PushOffByOne == PushInto((head + count + 1) % Capacity) /\ SignalNotEmpty
PushSilently == PushInto((head + count) % Capacity) /\ wpc' = wpc

Push == PushInto((head + count) % Capacity) /\ SignalNotEmpty

PushWait ==
  Full /\ ~shuttingDown /\ running /\ Move("push", "pushWait")

PushWakesSpuriously == Move("pushWait", "push")

PushStopped ==
  /\ apc = "push" /\ apc' = "undo"
  /\ ~shuttingDown => Full /\ ~running
  /\ shuttingDown' = TRUE
  /\ UNCHANGED <<client, flagVars, active, queueVars, poolVars, wrkVars, open>>

(* Fault: the counter is not lowered when the push is refused. *)
UndoCountForgotten == Move("undo", "drop")

UndoCount == AddActive("undo", "drop", -1)

(* Fault: the refused connection is not closed. *)
DropLeaks == Move("drop", "shutdown")

Drop == CloseClient("drop", "shutdown")

----------------------------------------------------------------------------
(* Single-threaded mode: the accept loop serves the connection itself.     *)

SingleServe == Move("serve", "close")

SingleClose == CloseClient("close", "dec")

SingleDec == AddActive("dec", "loop", -1)

----------------------------------------------------------------------------
(* mnet_pool_pop() and mnet_worker_main().                                 *)

PopWait(w) == count = 0 /\ ~shuttingDown /\ WMove(w, "pop", "wait")

PopWakesSpuriously(w) == WMove(w, "wait", "pop")

PopExit(w) == count = 0 /\ shuttingDown /\ WMove(w, "pop", "exited")

SignalNotFull == apc' = IF apc = "pushWait" THEN "push" ELSE apc

PopThenHead(w, h) ==
  /\ wpc[w] = "pop" /\ wpc' = [wpc EXCEPT ![w] = "serve"]
  /\ count > 0 /\ count' = count - 1
  /\ wsock' = [wsock EXCEPT ![w] = slots[head]]
  /\ head' = h
  /\ UNCHANGED <<client, flagVars, shuttingDown, active, slots, poolVars, open>>

(* Fault: the head index does not wrap. *)
PopNoWrap(w) == PopThenHead(w, head + 1) /\ SignalNotFull

Pop(w) == PopThenHead(w, (head + 1) % Capacity) /\ SignalNotFull

Serve(w) == WMove(w, "serve", "close")      \* mnet_handle_client() returns

Close(w) ==
  /\ wpc[w] = "close" /\ wpc' = [wpc EXCEPT ![w] = "dec"]
  /\ open' = open \ {wsock[w]}
  /\ wsock' = [wsock EXCEPT ![w] = NoSock]
  /\ UNCHANGED <<apc, client, flagVars, shuttingDown, active, queueVars,
                 poolVars>>

CountOut(w) ==
  /\ wpc[w] = "dec" /\ wpc' = [wpc EXCEPT ![w] = "pop"]
  /\ active' = active - 1
  /\ UNCHANGED <<apc, client, flagVars, shuttingDown, queueVars, poolVars,
                 wsock, open>>

----------------------------------------------------------------------------
(* mnet_pool_shutdown().                                                   *)

(* Fault: the blocked workers are not woken. *)
ShutdownSilently ==
  /\ apc = "shutdown" /\ apc' = "join"
  /\ shuttingDown' = TRUE
  /\ UNCHANGED <<client, flagVars, active, queueVars, poolVars, wrkVars, open>>

Shutdown ==
  /\ apc = "shutdown" /\ apc' = "join"
  /\ shuttingDown' = TRUE
  /\ wpc' = [w \in Workers |-> IF w \in Blocked THEN "pop" ELSE wpc[w]]
  /\ UNCHANGED <<client, flagVars, active, queueVars, poolVars, wsock, open>>

(* Fault: the workers are not joined. *)
JoinSkipped == Move("join", "drain")

Join == (\A w \in 1 .. threads : wpc[w] = "exited") /\ Move("join", "drain")

(* With every worker joined no other thread is left: close what is still   *)
(* queued and return.                                                      *)
Return ==
  /\ apc = "drain" /\ apc' = "done"
  /\ open' = open \ Queued
  /\ head' = (head + count) % Capacity /\ count' = 0
  /\ UNCHANGED <<client, flagVars, shuttingDown, active, slots, poolVars,
                 wrkVars>>

----------------------------------------------------------------------------
(* Between two runs: mnet_set_workers(), and mnet_run() once more with the *)
(* same app and a new pool.                                                *)

SetWorkers(n) ==
  /\ apc = "done" /\ workers' = n
  /\ UNCHANGED <<apc, client, flagVars, shuttingDown, active, queueVars,
                 threads, pooled, wrkVars, open>>

RunAgain ==
  /\ apc = "done" /\ apc' = "listen"
  /\ shuttingDown' = FALSE /\ stopAsked' = FALSE
  /\ slots' = [i \in Slots |-> NoSock] /\ head' = 0
  /\ threads' = 0 /\ pooled' = FALSE /\ wpc' = [w \in Workers |-> "off"]
  /\ UNCHANGED <<client, running, active, count, workers, wsock, open>>

----------------------------------------------------------------------------
(* Stop requests: mnet_stop() from any thread, or sig_handler() on a       *)
(* thread that is not blocked in accept().  Only a handler that runs while *)
(* the accept thread is inside accept() also makes accept() return EINTR;  *)
(* one that runs after the test of running and before accept() does not.   *)

StopRequest ==
  /\ running' = FALSE /\ stopAsked' = TRUE
  /\ UNCHANGED <<apc, client, shuttingDown, active, queueVars, poolVars,
                 wrkVars, open>>

SignalInAccept ==
  /\ apc = "accept" /\ apc' = "loop"
  /\ running' = FALSE /\ stopAsked' = TRUE
  /\ UNCHANGED <<client, shuttingDown, active, queueVars, poolVars, wrkVars,
                 open>>

----------------------------------------------------------------------------
AcceptStep == (\E s \in Socks : Accept(s)) \/ AcceptInterrupted \/ AcceptFails

(* Every step of the mnet_run() thread that does not wait for the outside. *)
AcceptorStep ==
  \/ Listen \/ Begin \/ Alloc \/ SpawnOk \/ SpawnFails
  \/ TestRunning \/ CheckLimit \/ Refuse \/ CountIn
  \/ Push \/ PushWait \/ PushStopped \/ UndoCount \/ Drop
  \/ SingleServe \/ SingleClose \/ SingleDec
  \/ Shutdown \/ Join \/ Return

WorkerStep(w) ==
  PopWait(w) \/ PopExit(w) \/ Pop(w) \/ Serve(w) \/ Close(w) \/ CountOut(w)

Next ==
  \/ AcceptStep \/ AcceptorStep \/ PushWakesSpuriously
  \/ \E w \in Workers : WorkerStep(w) \/ PopWakesSpuriously(w)
  \/ StopRequest \/ SignalInAccept
  \/ RunAgain \/ \E n \in Workers : SetWorkers(n)

Spec == Init /\ [][Next]_vars

(* Threads keep running, and mnet_handle_client() returns.  Nothing is     *)
(* assumed of accept(): no client need ever connect.                       *)
Fairness == WF_vars(AcceptorStep) /\ \A w \in Workers : WF_vars(WorkerStep(w))
FairSpec == Spec /\ Fairness

----------------------------------------------------------------------------
(* Who holds a connection, and who is counted in active_connections.       *)

Busy    == {w \in Workers : wpc[w] \in {"serve", "close"}}
Counted == {w \in Workers : wpc[w] \in {"serve", "close", "dec"}}
Ready   == {w \in Workers : wpc[w] = "pop"}

AcceptorHolds == apc \in {"check", "refuse", "count", "push", "pushWait",
                          "undo", "drop", "serve", "close"}
AcceptorCounted == apc \in {"push", "pushWait", "undo", "serve", "close", "dec"}
One(b) == IF b THEN 1 ELSE 0

(* active_connections counts exactly the connections that were admitted    *)
(* and not yet given up, whichever thread has them: queued, in a worker's  *)
(* hands until its decrement, or between increment and push.               *)
Accounting ==
  active = count + Cardinality(Counted) + One(AcceptorCounted)

(* Every open descriptor has exactly one owner, and every owner an open    *)
(* descriptor: no connection is leaked, served twice, or closed twice (the *)
(* second close could hit a descriptor accept() has handed out again).     *)
SoleOwner ==
  /\ open = Queued \cup {wsock[w] : w \in Busy}
            \cup (IF AcceptorHolds THEN {client} ELSE {})
  /\ Cardinality(open) = count + Cardinality(Busy) + One(AcceptorHolds)

(* max_connections holds although the limit is checked in one critical     *)
(* section and the counter raised in another: never more than that many    *)
(* connections are open, one being refused aside.  Without a limit the     *)
(* queue, the workers and the accept loop bound them.                      *)
ConnectionLimit ==
  Cardinality(open) - One(apc \in {"check", "refuse"})
    <= IF MaxConnections > 0 THEN MaxConnections
       ELSE Capacity + threads + One(AcceptorHolds)

(* A blocked worker never sleeps on work: each queued connection has an    *)
(* awake worker on its way to the queue.                                   *)
NoLostWakeup == Blocked # {} => count <= Cardinality(Ready)

(* The accept loop waits for room only while there is none, and never when *)
(* max_connections is set, because the queue then has a slot for every     *)
(* admitted connection.                                                    *)
PushWaitsOnlyWhenFull == apc = "pushWait" => Full /\ MaxConnections = 0

(* In single-threaded mode the accept loop is serving whenever a connection *)
(* is counted, so the 503 branch of that loop is never taken.              *)
SingleNeverRefuses == ~pooled => apc # "refuse"

(* While mnet_run() accepts connections there is somebody to serve them:   *)
(* the pool has a worker, and as many as app->workers says, also when only *)
(* some threads could be started, now or in an earlier run of the app; and *)
(* with no pool there are none to speak of.                                *)
Serving == {"loop", "accept", "check", "refuse", "count", "push", "pushWait",
            "undo", "drop", "serve", "close", "dec"}
PoolSized ==
  apc \in Serving => IF pooled THEN threads = workers /\ threads > 0
                               ELSE threads = 0 /\ workers <= 1

(* Shutdown loses nobody: the workers empty the queue before they exit, so *)
(* the draining loop of mnet_pool_shutdown() has nothing left to close.    *)
DrainFindsNothing == apc = "drain" => count = 0

(* Whatever way mnet_run() returns, every accepted connection is closed,   *)
(* active_connections is back to 0 and no started worker is left.          *)
CleanReturn ==
  apc = "done" => /\ open = {} /\ active = 0
                  /\ \A w \in Workers : wpc[w] \in {"off", "exited"}

(* Once mnet_pool_shutdown() is entered mnet_run() returns.                *)
ShutdownCompletes == (apc = "shutdown") ~> (apc = "done")

(* Every accepted connection is closed in the end, also when a stop comes  *)
(* while it is queued or the accept loop waits for a slot.                 *)
AcceptedIsClosed == \A s \in Socks : (s \in open) ~> (s \notin open)

(* A stop request made once the server is up (running was set) makes       *)
(* mnet_run() return.                                                      *)
StopReturns ==
  (stopAsked /\ ~running /\ apc \notin {"listen", "begin"}) ~> (apc = "done")

(* Once the server is up a stop makes mnet_run() return as long as clients *)
(* keep connecting, so that accept() keeps returning.                      *)
StopReturnsWhenBusy == WF_vars(AcceptStep) => StopReturns

----------------------------------------------------------------------------
(* The refinement mapping: the ring buffer as a sequence, the workers'     *)
(* descriptors as a set.                                                   *)
Service == INSTANCE ConnService WITH
  door      <- client,
  queue     <- Queue,
  inService <- {wsock[w] : w \in Workers} \ {NoSock}

(* The thread pool implements the abstract connection service: the ring    *)
(* buffer is a FIFO queue, no queued connection is dropped or overtaken,   *)
(* no descriptor is reused while some thread still has it.                 *)
ImplementsService == Service!SSpec
=============================================================================
