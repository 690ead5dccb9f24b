-------------------------- MODULE WorkerPoolProofs --------------------------
(***************************************************************************)
(* Proofs, for any number of workers, any limit and any queue capacity, of *)
(* the safety properties of WorkerPool: first those that do not look       *)
(* inside the ring buffer, then those about what is in it, and that the    *)
(* pool implements ConnService.                                            *)
(***************************************************************************)
EXTENDS WorkerPool, FiniteSetTheorems, SequenceTheorems, TLAPS

(* Where mnet_run() is says which workers exist and what they may be doing. *)
Startup == {"listen", "begin", "alloc"}
Leaving == {"undo", "drop", "shutdown", "join", "drain", "done"}

Phases ==
  /\ \A w \in Workers : wpc[w] = "off" <=> w > threads
  /\ apc \in Startup => threads = 0
  /\ apc \in {"listen", "begin"} => ~pooled
  /\ apc = "alloc" => 0 < workers
  /\ apc = "spawn" => threads < workers
  /\ threads = 0 => count = 0
  /\ (pooled /\ threads = 0) => apc \in Startup \cup
                          {"spawn", "shutdown", "join", "drain", "done"}
  /\ ~pooled => threads = 0 /\ apc \in
       {"listen", "begin", "loop", "accept", "check", "refuse", "count",
        "serve", "close", "dec", "done"}
  /\ pooled => apc \notin {"serve", "close", "dec"}
  /\ shuttingDown => apc \in Leaving
  /\ apc \in {"join", "drain"} => shuttingDown
  /\ \A w \in Workers : wpc[w] = "exited" => shuttingDown /\ count = 0
  /\ apc \in {"drain", "done"} =>
       \A w \in Workers : wpc[w] \in {"off", "exited"}
  /\ apc = "done" => count = 0
  /\ PoolSized

(* What the limit check leaves behind on the way to the queue.             *)
Limits ==
  /\ MaxConnections > 0 => active <= MaxConnections
  /\ (MaxConnections > 0 /\ apc = "count") => active < MaxConnections
  /\ apc = "pushWait" => Full
  /\ SingleNeverRefuses

IInv == TypeOK /\ Phases /\ Accounting /\ Limits /\ NoLostWakeup

----------------------------------------------------------------------------
LEMMA CapacityType == Capacity \in Nat /\ Capacity > 0
BY LimitAssumption DEF Capacity

LEMMA TypeInit == Init => TypeOK
<1> SUFFICES ASSUME Init PROVE TypeOK
  OBVIOUS
<1>1. /\ apc \in APC /\ client \in Socks \cup {NoSock}
      /\ active \in Int /\ open \subseteq Socks
  BY DEF Init, APC
<1>2. /\ running \in BOOLEAN /\ shuttingDown \in BOOLEAN
      /\ stopAsked \in BOOLEAN /\ pooled \in BOOLEAN
  BY DEF Init
<1>3. /\ head \in Slots /\ count \in 0 .. Capacity
      /\ threads \in 0 .. NumWorkers /\ workers \in 0 .. NumWorkers
  BY CapacityType, WorkersAssumption DEF Init, Slots, Workers
<1>4. slots \in [Slots -> Socks \cup {NoSock}]
  BY DEF Init
<1>5. wpc \in [Workers -> WPC] /\ wsock \in [Workers -> Socks \cup {NoSock}]
  BY DEF Init, WPC
<1> QED
  BY <1>1, <1>2, <1>3, <1>4, <1>5 DEF TypeOK

LEMMA TypeStep == TypeOK /\ Phases /\ [Next]_vars => TypeOK'
<1> SUFFICES ASSUME TypeOK, Phases, [Next]_vars
             PROVE  TypeOK'
  OBVIOUS
<1>1. CASE Listen
  BY <1>1, CapacityType, WorkersAssumption
  DEF Listen, Move, poolVars, flagVars, queueVars, wrkVars, TypeOK, Slots,
      APC, WPC, Workers
<1>2. CASE Begin
  BY <1>2, CapacityType, WorkersAssumption
  DEF Begin, poolVars, queueVars, wrkVars, TypeOK, Slots, APC, WPC, Workers
<1>3. CASE Alloc
  BY <1>3, CapacityType, WorkersAssumption
  DEF Alloc, Move, poolVars, flagVars, queueVars, wrkVars, TypeOK, Slots, APC,
      WPC, Workers
<1>4. CASE SpawnOk
  BY <1>4, CapacityType, WorkersAssumption
  DEF SpawnOk, poolVars, flagVars, queueVars, TypeOK, Slots, APC, WPC,
      Workers, Phases
<1>5. CASE SpawnFails
  BY <1>5, CapacityType, WorkersAssumption
  DEF SpawnFails, Move, poolVars, flagVars, queueVars, wrkVars, TypeOK, Slots,
      APC, WPC, Workers
<1>6. CASE TestRunning
  BY <1>6, CapacityType, WorkersAssumption
  DEF TestRunning, Move, LoopExit, poolVars, flagVars, queueVars, wrkVars,
      TypeOK, Slots, APC, WPC, Workers
<1>7. CASE AcceptInterrupted
  BY <1>7, CapacityType, WorkersAssumption
  DEF AcceptInterrupted, Move, poolVars, flagVars, queueVars, wrkVars, TypeOK,
      Slots, APC, WPC, Workers
<1>8. CASE AcceptFails
  BY <1>8, CapacityType, WorkersAssumption
  DEF AcceptFails, Move, LoopExit, poolVars, flagVars, queueVars, wrkVars,
      TypeOK, Slots, APC, WPC, Workers
<1>9. CASE CheckLimit
  BY <1>9, CapacityType, WorkersAssumption
  DEF CheckLimit, Move, poolVars, flagVars, queueVars, wrkVars, TypeOK, Slots,
      APC, WPC, Workers
<1>10. CASE Refuse
  BY <1>10, CapacityType, WorkersAssumption
  DEF Refuse, CloseClient, poolVars, flagVars, queueVars, wrkVars, TypeOK,
      Slots, APC, WPC, Workers
<1>11. CASE CountIn
  BY <1>11, CapacityType, WorkersAssumption
  DEF CountIn, AddActive, poolVars, flagVars, queueVars, wrkVars, TypeOK,
      Slots, APC, WPC, Workers
<1>12. CASE Push
  BY <1>12, CapacityType, WorkersAssumption
  DEF Push, PushInto, SignalNotEmpty, Full, poolVars, flagVars, TypeOK, Slots,
      APC, WPC, Workers
<1>13. CASE PushWait
  BY <1>13, CapacityType, WorkersAssumption
  DEF PushWait, Move, Full, poolVars, flagVars, queueVars, wrkVars, TypeOK,
      Slots, APC, WPC, Workers
<1>14. CASE PushStopped
  BY <1>14, CapacityType, WorkersAssumption
  DEF PushStopped, Full, poolVars, flagVars, queueVars, wrkVars, TypeOK,
      Slots, APC, WPC, Workers
<1>15. CASE PushWakesSpuriously
  BY <1>15, CapacityType, WorkersAssumption
  DEF PushWakesSpuriously, Move, poolVars, flagVars, queueVars, wrkVars,
      TypeOK, Slots, APC, WPC, Workers
<1>16. CASE UndoCount
  BY <1>16, CapacityType, WorkersAssumption
  DEF UndoCount, AddActive, poolVars, flagVars, queueVars, wrkVars, TypeOK,
      Slots, APC, WPC, Workers
<1>17. CASE Drop
  BY <1>17, CapacityType, WorkersAssumption
  DEF Drop, CloseClient, poolVars, flagVars, queueVars, wrkVars, TypeOK,
      Slots, APC, WPC, Workers
<1>18. CASE SingleServe
  BY <1>18, CapacityType, WorkersAssumption
  DEF SingleServe, Move, poolVars, flagVars, queueVars, wrkVars, TypeOK,
      Slots, APC, WPC, Workers
<1>19. CASE SingleClose
  BY <1>19, CapacityType, WorkersAssumption
  DEF SingleClose, CloseClient, poolVars, flagVars, queueVars, wrkVars,
      TypeOK, Slots, APC, WPC, Workers
<1>20. CASE SingleDec
  BY <1>20, CapacityType, WorkersAssumption
  DEF SingleDec, AddActive, poolVars, flagVars, queueVars, wrkVars, TypeOK,
      Slots, APC, WPC, Workers
<1>21. CASE Shutdown
  BY <1>21, CapacityType, WorkersAssumption
  DEF Shutdown, poolVars, flagVars, queueVars, TypeOK, Slots, APC, WPC, Workers
<1>22. CASE Join
  BY <1>22, CapacityType, WorkersAssumption
  DEF Join, Move, poolVars, flagVars, queueVars, wrkVars, TypeOK, Slots, APC,
      WPC, Workers
<1>23. CASE Return
  BY <1>23, CapacityType, WorkersAssumption
  DEF Return, poolVars, flagVars, wrkVars, TypeOK, Slots, APC, WPC, Workers
<1>24. CASE StopRequest
  BY <1>24, CapacityType, WorkersAssumption
  DEF StopRequest, poolVars, queueVars, wrkVars, TypeOK, Slots, APC, WPC,
      Workers
<1>25. CASE SignalInAccept
  BY <1>25, CapacityType, WorkersAssumption
  DEF SignalInAccept, poolVars, queueVars, wrkVars, TypeOK, Slots, APC, WPC,
      Workers
<1>26. ASSUME NEW s \in Socks, Accept(s) PROVE TypeOK'
  BY <1>26, CapacityType, WorkersAssumption
  DEF Accept, poolVars, flagVars, queueVars, wrkVars, TypeOK, Slots, APC, WPC,
      Workers
<1>27. ASSUME NEW w \in Workers, PopWait(w) PROVE TypeOK'
  BY <1>27, CapacityType, WorkersAssumption
  DEF PopWait, WMove, poolVars, flagVars, queueVars, TypeOK, Slots, APC, WPC,
      Workers
<1>28. ASSUME NEW w \in Workers, PopExit(w) PROVE TypeOK'
  BY <1>28, CapacityType, WorkersAssumption
  DEF PopExit, WMove, poolVars, flagVars, queueVars, TypeOK, Slots, APC, WPC,
      Workers
<1>29. ASSUME NEW w \in Workers, Pop(w) PROVE TypeOK'
  BY <1>29, CapacityType, WorkersAssumption
  DEF Pop, PopThenHead, SignalNotFull, poolVars, flagVars, TypeOK, Slots, WPC,
      Workers, APC
<1>30. ASSUME NEW w \in Workers, PopWakesSpuriously(w) PROVE TypeOK'
  BY <1>30, CapacityType, WorkersAssumption
  DEF PopWakesSpuriously, WMove, poolVars, flagVars, queueVars, TypeOK, Slots,
      APC, WPC, Workers
<1>31. ASSUME NEW w \in Workers, Serve(w) PROVE TypeOK'
  BY <1>31, CapacityType, WorkersAssumption
  DEF Serve, WMove, poolVars, flagVars, queueVars, TypeOK, Slots, APC, WPC,
      Workers
<1>32. ASSUME NEW w \in Workers, Close(w) PROVE TypeOK'
  BY <1>32, CapacityType, WorkersAssumption
  DEF Close, poolVars, flagVars, queueVars, TypeOK, Slots, APC, WPC, Workers
<1>33. ASSUME NEW w \in Workers, CountOut(w) PROVE TypeOK'
  BY <1>33, CapacityType, WorkersAssumption
  DEF CountOut, poolVars, flagVars, queueVars, TypeOK, Slots, APC, WPC, Workers
<1>34. CASE RunAgain
  <2>1. slots' \in [Slots -> Socks \cup {NoSock}]
    BY <1>34 DEF RunAgain
  <2>2. wpc' \in [Workers -> WPC]
    BY <1>34 DEF RunAgain, WPC
  <2>3. head' \in Slots /\ threads' \in 0 .. NumWorkers
    BY <1>34, CapacityType, WorkersAssumption DEF RunAgain, Slots
  <2>4. /\ shuttingDown' \in BOOLEAN /\ stopAsked' \in BOOLEAN
        /\ pooled' \in BOOLEAN
    BY <1>34 DEF RunAgain
  <2> QED
    BY <1>34, <2>1, <2>2, <2>3, <2>4 DEF RunAgain, TypeOK, APC
<1>35. ASSUME NEW n \in Workers, SetWorkers(n) PROVE TypeOK'
  BY <1>35, CapacityType, WorkersAssumption
  DEF SetWorkers, flagVars, queueVars, wrkVars, TypeOK, Slots, APC, WPC,
      Workers
<1>36. CASE UNCHANGED vars
  BY <1>36 DEF vars, TypeOK
<1> QED
  BY <1>1, <1>2, <1>3, <1>4, <1>5, <1>6, <1>7, <1>8, <1>9, <1>10, <1>11, <1>12,
      <1>13, <1>14, <1>15, <1>16, <1>17, <1>18, <1>19, <1>20, <1>21, <1>22,
      <1>23, <1>24, <1>25, <1>26, <1>27, <1>28, <1>29, <1>30, <1>31, <1>32,
      <1>33, <1>34, <1>35, <1>36
  DEF Next, AcceptStep, AcceptorStep, WorkerStep

LEMMA PhasesInit == Init => Phases
<1> SUFFICES ASSUME Init PROVE Phases
  OBVIOUS
<1>1. ~pooled /\ ~shuttingDown
  BY DEF Init
<1>2. apc = "listen" /\ threads = 0 /\ count = 0
  BY DEF Init
<1>3. \A w \in Workers : wpc[w] = "off" /\ w > 0
  BY WorkersAssumption DEF Init, Workers
<1> QED
  BY <1>1, <1>2, <1>3 DEF Phases, PoolSized, Serving, Startup

LEMMA PhasesStep == TypeOK /\ Phases /\ [Next]_vars => Phases'
<1> SUFFICES ASSUME TypeOK, Phases, [Next]_vars
             PROVE  Phases'
  OBVIOUS
<1>1. CASE Listen
  BY <1>1, CapacityType, WorkersAssumption
  DEF Listen, Move, poolVars, flagVars, queueVars, wrkVars, TypeOK, Phases,
      PoolSized, Serving, Startup, Leaving, Workers, APC, WPC
<1>2. CASE Begin
  <2>1. /\ threads' = threads /\ threads = 0 /\ count' = count
        /\ wpc' = wpc /\ shuttingDown' = shuttingDown
        /\ workers' = workers
    BY <1>2 DEF Begin, queueVars, wrkVars, Phases, Startup
  <2>2. ~shuttingDown
    BY <1>2 DEF Begin, Phases, Leaving
  <2>3. CASE workers > 1
    <3>1. apc' = "alloc" /\ pooled'
      BY <1>2, <2>3 DEF Begin
    <3> QED
      BY <2>1, <2>2, <2>3, <3>1
      DEF TypeOK, Phases, PoolSized, Serving, Startup
  <2>4. CASE ~(workers > 1)
    <3>1. apc' = "loop" /\ ~pooled'
      BY <1>2, <2>4, Zenon DEF Begin
    <3>2. workers <= 1
      BY <2>4, WorkersAssumption DEF TypeOK
    <3> QED
      BY <2>1, <2>2, <3>1, <3>2
      DEF TypeOK, Phases, PoolSized, Serving, Startup
  <2> QED
    BY <2>3, <2>4
<1>3. CASE Alloc
  BY <1>3, CapacityType, WorkersAssumption
  DEF Alloc, Move, poolVars, flagVars, queueVars, wrkVars, TypeOK, Phases,
      PoolSized, Serving, Startup, Leaving, Workers, APC, WPC
<1>4. CASE SpawnOk
  BY <1>4, CapacityType, WorkersAssumption
  DEF SpawnOk, poolVars, flagVars, queueVars, TypeOK, Phases, PoolSized,
      Serving, Startup, Leaving, Workers, APC, WPC
<1>5. CASE SpawnFails
  BY <1>5, CapacityType, WorkersAssumption
  DEF SpawnFails, Move, poolVars, flagVars, queueVars, wrkVars, TypeOK,
      Phases, PoolSized, Serving, Startup, Leaving, Workers, APC, WPC
<1>6. CASE TestRunning
  BY <1>6, CapacityType, WorkersAssumption
  DEF TestRunning, Move, LoopExit, poolVars, flagVars, queueVars, wrkVars,
      TypeOK, Phases, PoolSized, Serving, Startup, Leaving, Workers, APC, WPC
<1>7. CASE AcceptInterrupted
  BY <1>7, CapacityType, WorkersAssumption
  DEF AcceptInterrupted, Move, poolVars, flagVars, queueVars, wrkVars, TypeOK,
      Phases, PoolSized, Serving, Startup, Leaving, Workers, APC, WPC
<1>8. CASE AcceptFails
  BY <1>8, CapacityType, WorkersAssumption
  DEF AcceptFails, Move, LoopExit, poolVars, flagVars, queueVars, wrkVars,
      TypeOK, Phases, PoolSized, Serving, Startup, Leaving, Workers, APC, WPC
<1>9. CASE CheckLimit
  BY <1>9, CapacityType, WorkersAssumption
  DEF CheckLimit, Move, poolVars, flagVars, queueVars, wrkVars, TypeOK,
      Phases, PoolSized, Serving, Startup, Leaving, Workers, APC, WPC
<1>10. CASE Refuse
  BY <1>10, CapacityType, WorkersAssumption
  DEF Refuse, CloseClient, poolVars, flagVars, queueVars, wrkVars, TypeOK,
      Phases, PoolSized, Serving, Startup, Leaving, Workers, APC, WPC
<1>11. CASE CountIn
  BY <1>11, CapacityType, WorkersAssumption
  DEF CountIn, AddActive, poolVars, flagVars, queueVars, wrkVars, TypeOK,
      Phases, PoolSized, Serving, Startup, Leaving, Workers, APC, WPC
<1>12. CASE Push
  BY <1>12, CapacityType, WorkersAssumption
  DEF Push, PushInto, SignalNotEmpty, Full, poolVars, flagVars, TypeOK,
      Phases, PoolSized, Serving, Startup, Leaving, Workers, APC, WPC, Blocked
<1>13. CASE PushWait
  BY <1>13, CapacityType, WorkersAssumption
  DEF PushWait, Move, Full, poolVars, flagVars, queueVars, wrkVars, TypeOK,
      Phases, PoolSized, Serving, Startup, Leaving, Workers, APC, WPC
<1>14. CASE PushStopped
  BY <1>14, CapacityType, WorkersAssumption
  DEF PushStopped, Full, poolVars, flagVars, queueVars, wrkVars, TypeOK,
      Phases, PoolSized, Serving, Startup, Leaving, Workers, APC, WPC
<1>15. CASE PushWakesSpuriously
  BY <1>15, CapacityType, WorkersAssumption
  DEF PushWakesSpuriously, Move, poolVars, flagVars, queueVars, wrkVars,
      TypeOK, Phases, PoolSized, Serving, Startup, Leaving, Workers, APC, WPC
<1>16. CASE UndoCount
  BY <1>16, CapacityType, WorkersAssumption
  DEF UndoCount, AddActive, poolVars, flagVars, queueVars, wrkVars, TypeOK,
      Phases, PoolSized, Serving, Startup, Leaving, Workers, APC, WPC
<1>17. CASE Drop
  BY <1>17, CapacityType, WorkersAssumption
  DEF Drop, CloseClient, poolVars, flagVars, queueVars, wrkVars, TypeOK,
      Phases, PoolSized, Serving, Startup, Leaving, Workers, APC, WPC
<1>18. CASE SingleServe
  BY <1>18, CapacityType, WorkersAssumption
  DEF SingleServe, Move, poolVars, flagVars, queueVars, wrkVars, TypeOK,
      Phases, PoolSized, Serving, Startup, Leaving, Workers, APC, WPC
<1>19. CASE SingleClose
  BY <1>19, CapacityType, WorkersAssumption
  DEF SingleClose, CloseClient, poolVars, flagVars, queueVars, wrkVars,
      TypeOK, Phases, PoolSized, Serving, Startup, Leaving, Workers, APC, WPC
<1>20. CASE SingleDec
  BY <1>20, CapacityType, WorkersAssumption
  DEF SingleDec, AddActive, poolVars, flagVars, queueVars, wrkVars, TypeOK,
      Phases, PoolSized, Serving, Startup, Leaving, Workers, APC, WPC
<1>21. CASE Shutdown
  BY <1>21, CapacityType, WorkersAssumption
  DEF Shutdown, poolVars, flagVars, queueVars, TypeOK, Phases, PoolSized,
      Serving, Startup, Leaving, Workers, APC, WPC, Blocked
<1>22. CASE Join
  BY <1>22, CapacityType, WorkersAssumption
  DEF Join, Move, poolVars, flagVars, queueVars, wrkVars, TypeOK, Phases,
      PoolSized, Serving, Startup, Leaving, Workers, APC, WPC
<1>23. CASE Return
  BY <1>23, CapacityType, WorkersAssumption
  DEF Return, poolVars, flagVars, wrkVars, TypeOK, Phases, PoolSized, Serving,
      Startup, Leaving, Workers, APC, WPC
<1>24. CASE StopRequest
  BY <1>24, CapacityType, WorkersAssumption
  DEF StopRequest, poolVars, queueVars, wrkVars, TypeOK, Phases, PoolSized,
      Serving, Startup, Leaving, Workers, APC, WPC
<1>25. CASE SignalInAccept
  BY <1>25, CapacityType, WorkersAssumption
  DEF SignalInAccept, poolVars, queueVars, wrkVars, TypeOK, Phases, PoolSized,
      Serving, Startup, Leaving, Workers, APC, WPC
<1>26. ASSUME NEW s \in Socks, Accept(s) PROVE Phases'
  BY <1>26, CapacityType, WorkersAssumption
  DEF Accept, poolVars, flagVars, queueVars, wrkVars, TypeOK, Phases,
      PoolSized, Serving, Startup, Leaving, Workers, APC, WPC
<1>27. ASSUME NEW w \in Workers, PopWait(w) PROVE Phases'
  BY <1>27, CapacityType, WorkersAssumption
  DEF PopWait, WMove, poolVars, flagVars, queueVars, TypeOK, Phases,
      PoolSized, Serving, Startup, Leaving, Workers, APC, WPC
<1>28. ASSUME NEW w \in Workers, PopExit(w) PROVE Phases'
  BY <1>28, CapacityType, WorkersAssumption
  DEF PopExit, WMove, poolVars, flagVars, queueVars, TypeOK, Phases,
      PoolSized, Serving, Startup, Leaving, Workers, APC, WPC
<1>29. ASSUME NEW w \in Workers, Pop(w) PROVE Phases'
  BY <1>29, CapacityType, WorkersAssumption
  DEF Pop, PopThenHead, SignalNotFull, poolVars, flagVars, TypeOK, Phases,
      PoolSized, Serving, Startup, Leaving, Workers, APC, WPC
<1>30. ASSUME NEW w \in Workers, PopWakesSpuriously(w) PROVE Phases'
  BY <1>30, CapacityType, WorkersAssumption
  DEF PopWakesSpuriously, WMove, poolVars, flagVars, queueVars, TypeOK,
      Phases, PoolSized, Serving, Startup, Leaving, Workers, APC, WPC
<1>31. ASSUME NEW w \in Workers, Serve(w) PROVE Phases'
  BY <1>31, CapacityType, WorkersAssumption
  DEF Serve, WMove, poolVars, flagVars, queueVars, TypeOK, Phases, PoolSized,
      Serving, Startup, Leaving, Workers, APC, WPC
<1>32. ASSUME NEW w \in Workers, Close(w) PROVE Phases'
  BY <1>32, CapacityType, WorkersAssumption
  DEF Close, poolVars, flagVars, queueVars, TypeOK, Phases, PoolSized,
      Serving, Startup, Leaving, Workers, APC, WPC
<1>33. ASSUME NEW w \in Workers, CountOut(w) PROVE Phases'
  BY <1>33, CapacityType, WorkersAssumption
  DEF CountOut, poolVars, flagVars, queueVars, TypeOK, Phases, PoolSized,
      Serving, Startup, Leaving, Workers, APC, WPC
<1>34. CASE RunAgain
  BY <1>34, CapacityType, WorkersAssumption
  DEF RunAgain, TypeOK, Phases, PoolSized, Serving, Startup, Leaving, Workers,
      APC, WPC
<1>35. ASSUME NEW n \in Workers, SetWorkers(n) PROVE Phases'
  BY <1>35, CapacityType, WorkersAssumption
  DEF SetWorkers, flagVars, queueVars, wrkVars, TypeOK, Phases, PoolSized,
      Serving, Startup, Leaving, Workers, APC, WPC
<1>36. CASE UNCHANGED vars
  BY <1>36 DEF vars, Phases, PoolSized, Serving, Startup, Leaving
<1> QED
  BY <1>1, <1>2, <1>3, <1>4, <1>5, <1>6, <1>7, <1>8, <1>9, <1>10, <1>11, <1>12,
      <1>13, <1>14, <1>15, <1>16, <1>17, <1>18, <1>19, <1>20, <1>21, <1>22,
      <1>23, <1>24, <1>25, <1>26, <1>27, <1>28, <1>29, <1>30, <1>31, <1>32,
      <1>33, <1>34, <1>35, <1>36
  DEF Next, AcceptStep, AcceptorStep, WorkerStep

LEMMA WorkersFinite == IsFiniteSet(Workers)
BY WorkersAssumption, FS_Interval DEF Workers

LEMMA CountedFinite == IsFiniteSet(Counted) /\ Cardinality(Counted) \in Nat
BY WorkersFinite, FS_Subset, FS_CardinalityType DEF Counted

(* No worker exits with a connection still queued, so none is left.        *)
LEMMA DrainEmpty == TypeOK /\ Phases => DrainFindsNothing
BY WorkersAssumption
DEF TypeOK, Phases, Startup, Workers, DrainFindsNothing

LEMMA AccountingInit == Init => Accounting
<1> SUFFICES ASSUME Init PROVE Accounting
  OBVIOUS
<1>1. Counted = {}
  BY DEF Init, Counted
<1> QED
  BY <1>1, FS_EmptySet DEF Init, Accounting, AcceptorCounted, One

LEMMA AccountingStep ==
  TypeOK /\ Phases /\ Accounting /\ [Next]_vars => Accounting'
<1> SUFFICES ASSUME TypeOK, Phases, Accounting, [Next]_vars
             PROVE  Accounting'
  OBVIOUS
<1>a. Cardinality(Counted) \in Nat
  BY CountedFinite
<1>b. wpc' = wpc => Counted' = Counted
  BY DEF Counted
<1>1. CASE Listen
  BY <1>1, <1>a, <1>b
  DEF Listen, Move, poolVars, flagVars, queueVars, wrkVars, TypeOK, Phases,
      Startup, Accounting, AcceptorCounted, One
<1>2. CASE Begin
  <2>1. Counted = {}
    BY <1>2, WorkersAssumption
    DEF Begin, Counted, Phases, Startup, TypeOK, Workers
  <2>2. count = 0
    BY <1>2 DEF Begin, Phases, Startup
  <2>3. active' = 0 /\ count' = 0 /\ Counted' = {}
    BY <1>2, <1>b, <2>1, <2>2 DEF Begin, queueVars, wrkVars
  <2>4. apc' \in {"alloc", "loop"}
    BY <1>2 DEF Begin
  <2> QED
    BY <2>3, <2>4, FS_EmptySet DEF Accounting, AcceptorCounted, One
<1>3. CASE Alloc
  BY <1>3, <1>a, <1>b
  DEF Alloc, Move, poolVars, flagVars, queueVars, wrkVars, TypeOK, Phases,
      Startup, Accounting, AcceptorCounted, One
<1>4. CASE SpawnOk
  <2>1. Counted' = Counted
    BY <1>4, WorkersAssumption
    DEF SpawnOk, poolVars, flagVars, queueVars, Counted, TypeOK, Workers, WPC,
        Phases
  <2> QED
    BY <1>4, <1>a, <2>1
    DEF SpawnOk, poolVars, flagVars, queueVars, TypeOK, Phases, Startup,
        Accounting, AcceptorCounted, One
<1>5. CASE SpawnFails
  BY <1>5, <1>a, <1>b
  DEF SpawnFails, Move, poolVars, flagVars, queueVars, wrkVars, TypeOK,
      Phases, Startup, Accounting, AcceptorCounted, One
<1>6. CASE TestRunning
  BY <1>6, <1>a, <1>b
  DEF TestRunning, Move, LoopExit, poolVars, flagVars, queueVars, wrkVars,
      TypeOK, Phases, Startup, Accounting, AcceptorCounted, One
<1>7. CASE AcceptInterrupted
  BY <1>7, <1>a, <1>b
  DEF AcceptInterrupted, Move, poolVars, flagVars, queueVars, wrkVars, TypeOK,
      Phases, Startup, Accounting, AcceptorCounted, One
<1>8. CASE AcceptFails
  BY <1>8, <1>a, <1>b
  DEF AcceptFails, Move, LoopExit, poolVars, flagVars, queueVars, wrkVars,
      TypeOK, Phases, Startup, Accounting, AcceptorCounted, One
<1>9. CASE CheckLimit
  BY <1>9, <1>a, <1>b
  DEF CheckLimit, Move, poolVars, flagVars, queueVars, wrkVars, TypeOK,
      Phases, Startup, Accounting, AcceptorCounted, One
<1>10. CASE Refuse
  BY <1>10, <1>a, <1>b
  DEF Refuse, CloseClient, poolVars, flagVars, queueVars, wrkVars, TypeOK,
      Phases, Startup, Accounting, AcceptorCounted, One
<1>11. CASE CountIn
  BY <1>11, <1>a, <1>b
  DEF CountIn, AddActive, poolVars, flagVars, queueVars, wrkVars, TypeOK,
      Phases, Startup, Accounting, AcceptorCounted, One
<1>12. CASE Push
  <2>1. Counted' = Counted
    BY <1>12, WorkersAssumption DEF Push, PushInto, SignalNotEmpty, Full,
        poolVars, flagVars, Counted, TypeOK, Workers, WPC, Phases, Blocked
  <2> QED
    BY <1>12, <1>a, <2>1
    DEF Push, PushInto, SignalNotEmpty, Full, poolVars, flagVars, TypeOK,
        Phases, Startup, Accounting, AcceptorCounted, One
<1>13. CASE PushWait
  BY <1>13, <1>a, <1>b
  DEF PushWait, Move, Full, poolVars, flagVars, queueVars, wrkVars, TypeOK,
      Phases, Startup, Accounting, AcceptorCounted, One
<1>14. CASE PushStopped
  BY <1>14, <1>a, <1>b
  DEF PushStopped, Full, poolVars, flagVars, queueVars, wrkVars, TypeOK,
      Phases, Startup, Accounting, AcceptorCounted, One
<1>15. CASE PushWakesSpuriously
  BY <1>15, <1>a, <1>b
  DEF PushWakesSpuriously, Move, poolVars, flagVars, queueVars, wrkVars,
      TypeOK, Phases, Startup, Accounting, AcceptorCounted, One
<1>16. CASE UndoCount
  BY <1>16, <1>a, <1>b
  DEF UndoCount, AddActive, poolVars, flagVars, queueVars, wrkVars, TypeOK,
      Phases, Startup, Accounting, AcceptorCounted, One
<1>17. CASE Drop
  BY <1>17, <1>a, <1>b
  DEF Drop, CloseClient, poolVars, flagVars, queueVars, wrkVars, TypeOK,
      Phases, Startup, Accounting, AcceptorCounted, One
<1>18. CASE SingleServe
  BY <1>18, <1>a, <1>b
  DEF SingleServe, Move, poolVars, flagVars, queueVars, wrkVars, TypeOK,
      Phases, Startup, Accounting, AcceptorCounted, One
<1>19. CASE SingleClose
  BY <1>19, <1>a, <1>b
  DEF SingleClose, CloseClient, poolVars, flagVars, queueVars, wrkVars,
      TypeOK, Phases, Startup, Accounting, AcceptorCounted, One
<1>20. CASE SingleDec
  BY <1>20, <1>a, <1>b
  DEF SingleDec, AddActive, poolVars, flagVars, queueVars, wrkVars, TypeOK,
      Phases, Startup, Accounting, AcceptorCounted, One
<1>21. CASE Shutdown
  <2>1. Counted' = Counted
    BY <1>21, WorkersAssumption
    DEF Shutdown, poolVars, flagVars, queueVars, Counted, TypeOK, Workers,
        WPC, Phases, Blocked
  <2> QED
    BY <1>21, <1>a, <2>1
    DEF Shutdown, poolVars, flagVars, queueVars, TypeOK, Phases, Startup,
        Accounting, AcceptorCounted, One
<1>22. CASE Join
  BY <1>22, <1>a, <1>b
  DEF Join, Move, poolVars, flagVars, queueVars, wrkVars, TypeOK, Phases,
      Startup, Accounting, AcceptorCounted, One
<1>23. CASE Return
  <2>1. count = 0
    BY <1>23, DrainEmpty DEF Return, DrainFindsNothing
  <2> QED
    BY <1>23, <1>a, <1>b, <2>1
    DEF Return, poolVars, flagVars, wrkVars, TypeOK, Phases, Startup,
        Accounting, AcceptorCounted, One
<1>24. CASE StopRequest
  BY <1>24, <1>a, <1>b
  DEF StopRequest, poolVars, queueVars, wrkVars, TypeOK, Phases, Startup,
      Accounting, AcceptorCounted, One
<1>25. CASE SignalInAccept
  BY <1>25, <1>a, <1>b
  DEF SignalInAccept, poolVars, queueVars, wrkVars, TypeOK, Phases, Startup,
      Accounting, AcceptorCounted, One
<1>26. ASSUME NEW s \in Socks, Accept(s) PROVE Accounting'
  BY <1>26, <1>a, <1>b
  DEF Accept, poolVars, flagVars, queueVars, wrkVars, TypeOK, Phases, Startup,
      Accounting, AcceptorCounted, One
<1>27. ASSUME NEW w \in Workers, PopWait(w) PROVE Accounting'
  <2>1. Counted' = Counted
    BY <1>27, WorkersAssumption
    DEF PopWait, WMove, poolVars, flagVars, queueVars, Counted, TypeOK,
        Workers, WPC, Phases
  <2> QED
    BY <1>27, <1>a, <2>1
    DEF PopWait, WMove, poolVars, flagVars, queueVars, TypeOK, Phases,
        Startup, Accounting, AcceptorCounted, One
<1>28. ASSUME NEW w \in Workers, PopExit(w) PROVE Accounting'
  <2>1. Counted' = Counted
    BY <1>28, WorkersAssumption
    DEF PopExit, WMove, poolVars, flagVars, queueVars, Counted, TypeOK,
        Workers, WPC, Phases
  <2> QED
    BY <1>28, <1>a, <2>1
    DEF PopExit, WMove, poolVars, flagVars, queueVars, TypeOK, Phases,
        Startup, Accounting, AcceptorCounted, One
<1>29. ASSUME NEW w \in Workers, Pop(w) PROVE Accounting'
  <2>1. Counted' = Counted \cup {w} /\ w \notin Counted
    BY <1>29
    DEF Pop, PopThenHead, SignalNotFull, poolVars, flagVars, Counted, TypeOK,
        WPC
  <2>2. Cardinality(Counted') = Cardinality(Counted) + 1
    BY <2>1, CountedFinite, FS_AddElement
  <2> QED
    BY <1>29, <1>a, <2>2
    DEF Pop, PopThenHead, SignalNotFull, poolVars, flagVars, TypeOK, Phases,
        Startup, Accounting, AcceptorCounted, One
<1>30. ASSUME NEW w \in Workers, PopWakesSpuriously(w) PROVE Accounting'
  <2>1. Counted' = Counted
    BY <1>30, WorkersAssumption
    DEF PopWakesSpuriously, WMove, poolVars, flagVars, queueVars, Counted,
        TypeOK, Workers, WPC, Phases
  <2> QED
    BY <1>30, <1>a, <2>1
    DEF PopWakesSpuriously, WMove, poolVars, flagVars, queueVars, TypeOK,
        Phases, Startup, Accounting, AcceptorCounted, One
<1>31. ASSUME NEW w \in Workers, Serve(w) PROVE Accounting'
  <2>1. Counted' = Counted
    BY <1>31, WorkersAssumption
    DEF Serve, WMove, poolVars, flagVars, queueVars, Counted, TypeOK, Workers,
        WPC, Phases
  <2> QED
    BY <1>31, <1>a, <2>1
    DEF Serve, WMove, poolVars, flagVars, queueVars, TypeOK, Phases, Startup,
        Accounting, AcceptorCounted, One
<1>32. ASSUME NEW w \in Workers, Close(w) PROVE Accounting'
  <2>1. Counted' = Counted
    BY <1>32, WorkersAssumption
    DEF Close, poolVars, flagVars, queueVars, Counted, TypeOK, Workers, WPC,
        Phases
  <2> QED
    BY <1>32, <1>a, <2>1
    DEF Close, poolVars, flagVars, queueVars, TypeOK, Phases, Startup,
        Accounting, AcceptorCounted, One
<1>33. ASSUME NEW w \in Workers, CountOut(w) PROVE Accounting'
  <2>1. Counted' = Counted \ {w} /\ w \in Counted
    BY <1>33 DEF CountOut, poolVars, flagVars, queueVars, Counted, TypeOK, WPC
  <2>2. Cardinality(Counted') = Cardinality(Counted) - 1
    BY <2>1, CountedFinite, FS_RemoveElement
  <2> QED
    BY <1>33, <1>a, <2>2
    DEF CountOut, poolVars, flagVars, queueVars, TypeOK, Phases, Startup,
        Accounting, AcceptorCounted, One
<1>34. CASE RunAgain
  <2>1. Counted = {} /\ Counted' = {}
    BY <1>34 DEF RunAgain, Phases, Counted
  <2> QED
    BY <1>34, <2>1 DEF RunAgain, Accounting, AcceptorCounted, One
<1>35. ASSUME NEW n \in Workers, SetWorkers(n) PROVE Accounting'
  BY <1>35, <1>a, <1>b
  DEF SetWorkers, flagVars, queueVars, wrkVars, Accounting, AcceptorCounted,
      One
<1>36. CASE UNCHANGED vars
  BY <1>b, <1>36 DEF vars, Accounting, AcceptorCounted, One
<1> QED
  BY <1>1, <1>2, <1>3, <1>4, <1>5, <1>6, <1>7, <1>8, <1>9, <1>10, <1>11, <1>12,
      <1>13, <1>14, <1>15, <1>16, <1>17, <1>18, <1>19, <1>20, <1>21, <1>22,
      <1>23, <1>24, <1>25, <1>26, <1>27, <1>28, <1>29, <1>30, <1>31, <1>32,
      <1>33, <1>34, <1>35, <1>36
  DEF Next, AcceptStep, AcceptorStep, WorkerStep

(* The limit is tested in one critical section and active raised in        *)
(* another, but only the accept loop raises it.                            *)
LEMMA LimitsInit == Init => Limits
BY LimitAssumption DEF Init, Limits, SingleNeverRefuses

LEMMA LimitsStep ==
  TypeOK /\ Phases /\ Accounting /\ Limits /\ [Next]_vars => Limits'
<1> SUFFICES ASSUME TypeOK, Phases, Accounting, Limits, [Next]_vars
             PROVE  Limits'
  OBVIOUS
<1>1. CASE Listen
  BY <1>1, LimitAssumption, CapacityType
  DEF Listen, Move, poolVars, flagVars, queueVars, wrkVars, TypeOK, Limits,
      SingleNeverRefuses, Full
<1>2. CASE Begin
  BY <1>2, LimitAssumption, CapacityType
  DEF Begin, poolVars, queueVars, wrkVars, TypeOK, Limits, SingleNeverRefuses,
      Full, Phases, Startup
<1>3. CASE Alloc
  BY <1>3, LimitAssumption, CapacityType
  DEF Alloc, Move, poolVars, flagVars, queueVars, wrkVars, TypeOK, Limits,
      SingleNeverRefuses, Full
<1>4. CASE SpawnOk
  BY <1>4, LimitAssumption, CapacityType
  DEF SpawnOk, poolVars, flagVars, queueVars, TypeOK, Limits,
      SingleNeverRefuses, Full
<1>5. CASE SpawnFails
  BY <1>5, LimitAssumption, CapacityType
  DEF SpawnFails, Move, poolVars, flagVars, queueVars, wrkVars, TypeOK, Limits,
      SingleNeverRefuses, Full
<1>6. CASE TestRunning
  BY <1>6, LimitAssumption, CapacityType
  DEF TestRunning, Move, LoopExit, poolVars, flagVars, queueVars, wrkVars,
      TypeOK, Limits, SingleNeverRefuses, Full
<1>7. CASE AcceptInterrupted
  BY <1>7, LimitAssumption, CapacityType
  DEF AcceptInterrupted, Move, poolVars, flagVars, queueVars, wrkVars, TypeOK,
      Limits, SingleNeverRefuses, Full
<1>8. CASE AcceptFails
  BY <1>8, LimitAssumption, CapacityType
  DEF AcceptFails, Move, LoopExit, poolVars, flagVars, queueVars, wrkVars,
      TypeOK, Limits, SingleNeverRefuses, Full
<1>9. CASE CheckLimit
  <2>1. ~pooled => active = 0
    <3>1. ~pooled => Counted = {}
      BY WorkersAssumption DEF Phases, TypeOK, Counted, Workers
    <3>2. ~pooled => count = 0
      BY DEF Phases
    <3> QED
      BY <1>9, <3>1, <3>2, FS_EmptySet
      DEF CheckLimit, Move, Accounting, AcceptorCounted, One
  <2> QED
    BY <1>9, <2>1, LimitAssumption
    DEF CheckLimit, Move, poolVars, flagVars, queueVars, wrkVars, TypeOK,
        Limits, SingleNeverRefuses, Full
<1>10. CASE Refuse
  BY <1>10, LimitAssumption, CapacityType
  DEF Refuse, CloseClient, poolVars, flagVars, queueVars, wrkVars, TypeOK,
      Limits, SingleNeverRefuses, Full
<1>11. CASE CountIn
  BY <1>11, LimitAssumption, CapacityType
  DEF CountIn, AddActive, poolVars, flagVars, queueVars, wrkVars, TypeOK,
      Limits, SingleNeverRefuses, Full
<1>12. CASE Push
  BY <1>12, LimitAssumption, CapacityType
  DEF Push, PushInto, SignalNotEmpty, Full, poolVars, flagVars, TypeOK, Limits,
      SingleNeverRefuses
<1>13. CASE PushWait
  BY <1>13, LimitAssumption, CapacityType
  DEF PushWait, Move, Full, poolVars, flagVars, queueVars, wrkVars, TypeOK,
      Limits, SingleNeverRefuses
<1>14. CASE PushStopped
  BY <1>14, LimitAssumption, CapacityType
  DEF PushStopped, Full, poolVars, flagVars, queueVars, wrkVars, TypeOK,
      Limits, SingleNeverRefuses
<1>15. CASE PushWakesSpuriously
  BY <1>15, LimitAssumption, CapacityType
  DEF PushWakesSpuriously, Move, poolVars, flagVars, queueVars, wrkVars,
      TypeOK, Limits, SingleNeverRefuses, Full
<1>16. CASE UndoCount
  BY <1>16, LimitAssumption, CapacityType
  DEF UndoCount, AddActive, poolVars, flagVars, queueVars, wrkVars, TypeOK,
      Limits, SingleNeverRefuses, Full
<1>17. CASE Drop
  BY <1>17, LimitAssumption, CapacityType
  DEF Drop, CloseClient, poolVars, flagVars, queueVars, wrkVars, TypeOK,
      Limits, SingleNeverRefuses, Full
<1>18. CASE SingleServe
  BY <1>18, LimitAssumption, CapacityType
  DEF SingleServe, Move, poolVars, flagVars, queueVars, wrkVars, TypeOK,
      Limits, SingleNeverRefuses, Full
<1>19. CASE SingleClose
  BY <1>19, LimitAssumption, CapacityType
  DEF SingleClose, CloseClient, poolVars, flagVars, queueVars, wrkVars,
      TypeOK, Limits, SingleNeverRefuses, Full
<1>20. CASE SingleDec
  BY <1>20, LimitAssumption, CapacityType
  DEF SingleDec, AddActive, poolVars, flagVars, queueVars, wrkVars, TypeOK,
      Limits, SingleNeverRefuses, Full
<1>21. CASE Shutdown
  BY <1>21, LimitAssumption, CapacityType
  DEF Shutdown, poolVars, flagVars, queueVars, TypeOK, Limits,
      SingleNeverRefuses, Full
<1>22. CASE Join
  BY <1>22, LimitAssumption, CapacityType
  DEF Join, Move, poolVars, flagVars, queueVars, wrkVars, TypeOK, Limits,
      SingleNeverRefuses, Full
<1>23. CASE Return
  BY <1>23, LimitAssumption, CapacityType
  DEF Return, poolVars, flagVars, wrkVars, TypeOK, Limits, SingleNeverRefuses,
      Full
<1>24. CASE StopRequest
  BY <1>24, LimitAssumption, CapacityType
  DEF StopRequest, poolVars, queueVars, wrkVars, TypeOK, Limits,
      SingleNeverRefuses, Full
<1>25. CASE SignalInAccept
  BY <1>25, LimitAssumption, CapacityType
  DEF SignalInAccept, poolVars, queueVars, wrkVars, TypeOK, Limits,
      SingleNeverRefuses, Full
<1>26. ASSUME NEW s \in Socks, Accept(s) PROVE Limits'
  BY <1>26, LimitAssumption, CapacityType
  DEF Accept, poolVars, flagVars, queueVars, wrkVars, TypeOK, Limits,
      SingleNeverRefuses, Full
<1>27. ASSUME NEW w \in Workers, PopWait(w) PROVE Limits'
  BY <1>27, LimitAssumption, CapacityType
  DEF PopWait, WMove, poolVars, flagVars, queueVars, TypeOK, Limits,
      SingleNeverRefuses, Full
<1>28. ASSUME NEW w \in Workers, PopExit(w) PROVE Limits'
  BY <1>28, LimitAssumption, CapacityType
  DEF PopExit, WMove, poolVars, flagVars, queueVars, TypeOK, Limits,
      SingleNeverRefuses, Full
<1>29. ASSUME NEW w \in Workers, Pop(w) PROVE Limits'
  BY <1>29, LimitAssumption, CapacityType
  DEF Pop, PopThenHead, SignalNotFull, poolVars, flagVars, TypeOK, Limits,
      SingleNeverRefuses, Full
<1>30. ASSUME NEW w \in Workers, PopWakesSpuriously(w) PROVE Limits'
  BY <1>30, LimitAssumption, CapacityType
  DEF PopWakesSpuriously, WMove, poolVars, flagVars, queueVars, TypeOK, Limits,
      SingleNeverRefuses, Full
<1>31. ASSUME NEW w \in Workers, Serve(w) PROVE Limits'
  BY <1>31, LimitAssumption, CapacityType
  DEF Serve, WMove, poolVars, flagVars, queueVars, TypeOK, Limits,
      SingleNeverRefuses, Full
<1>32. ASSUME NEW w \in Workers, Close(w) PROVE Limits'
  BY <1>32, LimitAssumption, CapacityType
  DEF Close, poolVars, flagVars, queueVars, TypeOK, Limits,
      SingleNeverRefuses, Full
<1>33. ASSUME NEW w \in Workers, CountOut(w) PROVE Limits'
  BY <1>33, LimitAssumption, CapacityType
  DEF CountOut, poolVars, flagVars, queueVars, TypeOK, Limits,
      SingleNeverRefuses, Full
<1>34. CASE RunAgain
  BY <1>34, LimitAssumption, CapacityType
  DEF RunAgain, TypeOK, Limits, SingleNeverRefuses, Full
<1>35. ASSUME NEW n \in Workers, SetWorkers(n) PROVE Limits'
  BY <1>35, LimitAssumption, CapacityType
  DEF SetWorkers, flagVars, queueVars, wrkVars, TypeOK, Limits,
      SingleNeverRefuses, Full
<1>36. CASE UNCHANGED vars
  BY <1>36 DEF vars, Limits, SingleNeverRefuses, Full
<1> QED
  BY <1>1, <1>2, <1>3, <1>4, <1>5, <1>6, <1>7, <1>8, <1>9, <1>10, <1>11, <1>12,
      <1>13, <1>14, <1>15, <1>16, <1>17, <1>18, <1>19, <1>20, <1>21, <1>22,
      <1>23, <1>24, <1>25, <1>26, <1>27, <1>28, <1>29, <1>30, <1>31, <1>32,
      <1>33, <1>34, <1>35, <1>36
  DEF Next, AcceptStep, AcceptorStep, WorkerStep

LEMMA ReadyFinite ==
  /\ IsFiniteSet(Ready) /\ Cardinality(Ready) \in Nat
  /\ IsFiniteSet(Ready') /\ Cardinality(Ready') \in Nat
BY WorkersFinite, FS_Subset, FS_CardinalityType DEF Ready

LEMMA WakeupInit == Init => NoLostWakeup
BY DEF Init, NoLostWakeup, Blocked

LEMMA WakeupStep ==
  TypeOK /\ Phases /\ NoLostWakeup /\ [Next]_vars => NoLostWakeup'
<1> SUFFICES ASSUME TypeOK, Phases, NoLostWakeup, [Next]_vars
             PROVE  NoLostWakeup'
  OBVIOUS
<1>a. /\ IsFiniteSet(Ready) /\ Cardinality(Ready) \in Nat
      /\ IsFiniteSet(Ready') /\ Cardinality(Ready') \in Nat
  BY ReadyFinite
<1>b. wpc' = wpc => Ready' = Ready /\ Blocked' = Blocked
  BY DEF Ready, Blocked
<1>1. CASE Listen
  BY <1>1, <1>a, <1>b DEF Listen, Move, poolVars, flagVars, queueVars, wrkVars,
      NoLostWakeup, TypeOK
<1>2. CASE Begin
  BY <1>2, <1>a, <1>b
  DEF Begin, poolVars, queueVars, wrkVars, NoLostWakeup, TypeOK
<1>3. CASE Alloc
  BY <1>3, <1>a, <1>b DEF Alloc, Move, poolVars, flagVars, queueVars, wrkVars,
      NoLostWakeup, TypeOK
<1>4. CASE SpawnOk
  <2>1. Ready' = Ready \cup {threads + 1} /\ threads + 1 \notin Ready /\
      Blocked' = Blocked
    BY <1>4, WorkersAssumption
    DEF SpawnOk, poolVars, flagVars, queueVars, Ready, Blocked, TypeOK,
        Workers, Phases
  <2>2. Cardinality(Ready') = Cardinality(Ready) + 1
    BY <2>1, <1>a, FS_AddElement
  <2> QED
    BY <1>4, <1>a, <2>1, <2>2
    DEF SpawnOk, poolVars, flagVars, queueVars, NoLostWakeup, TypeOK
<1>5. CASE SpawnFails
  BY <1>5, <1>a, <1>b
  DEF SpawnFails, Move, poolVars, flagVars, queueVars, wrkVars, NoLostWakeup,
      TypeOK
<1>6. CASE TestRunning
  BY <1>6, <1>a, <1>b
  DEF TestRunning, Move, LoopExit, poolVars, flagVars, queueVars, wrkVars,
      NoLostWakeup, TypeOK
<1>7. CASE AcceptInterrupted
  BY <1>7, <1>a, <1>b
  DEF AcceptInterrupted, Move, poolVars, flagVars, queueVars, wrkVars,
      NoLostWakeup, TypeOK
<1>8. CASE AcceptFails
  BY <1>8, <1>a, <1>b
  DEF AcceptFails, Move, LoopExit, poolVars, flagVars, queueVars, wrkVars,
      NoLostWakeup, TypeOK
<1>9. CASE CheckLimit
  BY <1>9, <1>a, <1>b
  DEF CheckLimit, Move, poolVars, flagVars, queueVars, wrkVars, NoLostWakeup,
      TypeOK
<1>10. CASE Refuse
  BY <1>10, <1>a, <1>b
  DEF Refuse, CloseClient, poolVars, flagVars, queueVars, wrkVars,
      NoLostWakeup, TypeOK
<1>11. CASE CountIn
  BY <1>11, <1>a, <1>b
  DEF CountIn, AddActive, poolVars, flagVars, queueVars, wrkVars,
      NoLostWakeup, TypeOK
<1>12. CASE Push
  <2>1. count' = count + 1 /\ count \in Nat
    BY <1>12 DEF Push, PushInto, TypeOK
  <2>2. CASE Blocked = {}
    <3>1. Blocked' = {}
      BY <1>12, <2>2 DEF Push, SignalNotEmpty, Blocked
    <3> QED
      BY <3>1 DEF NoLostWakeup
  <2>3. CASE Blocked # {}
    <3>1. PICK w \in Blocked : wpc' = [wpc EXCEPT ![w] = "pop"]
      BY <1>12, <2>3 DEF Push, SignalNotEmpty
    <3>2. Ready' = Ready \cup {w} /\ w \notin Ready
      BY <3>1 DEF Ready, Blocked, TypeOK
    <3>3. Cardinality(Ready') = Cardinality(Ready) + 1
      BY <3>2, <1>a, FS_AddElement
    <3> QED
      BY <2>1, <2>3, <3>3, <1>a DEF NoLostWakeup
  <2> QED
    BY <2>2, <2>3
<1>13. CASE PushWait
  BY <1>13, <1>a, <1>b
  DEF PushWait, Move, Full, poolVars, flagVars, queueVars, wrkVars,
      NoLostWakeup, TypeOK
<1>14. CASE PushStopped
  BY <1>14, <1>a, <1>b
  DEF PushStopped, Full, poolVars, flagVars, queueVars, wrkVars, NoLostWakeup,
      TypeOK
<1>15. CASE PushWakesSpuriously
  BY <1>15, <1>a, <1>b
  DEF PushWakesSpuriously, Move, poolVars, flagVars, queueVars, wrkVars,
      NoLostWakeup, TypeOK
<1>16. CASE UndoCount
  BY <1>16, <1>a, <1>b
  DEF UndoCount, AddActive, poolVars, flagVars, queueVars, wrkVars,
      NoLostWakeup, TypeOK
<1>17. CASE Drop
  BY <1>17, <1>a, <1>b
  DEF Drop, CloseClient, poolVars, flagVars, queueVars, wrkVars, NoLostWakeup,
      TypeOK
<1>18. CASE SingleServe
  BY <1>18, <1>a, <1>b
  DEF SingleServe, Move, poolVars, flagVars, queueVars, wrkVars, NoLostWakeup,
      TypeOK
<1>19. CASE SingleClose
  BY <1>19, <1>a, <1>b
  DEF SingleClose, CloseClient, poolVars, flagVars, queueVars, wrkVars,
      NoLostWakeup, TypeOK
<1>20. CASE SingleDec
  BY <1>20, <1>a, <1>b
  DEF SingleDec, AddActive, poolVars, flagVars, queueVars, wrkVars,
      NoLostWakeup, TypeOK
<1>21. CASE Shutdown
  <2>1. Blocked' = {}
    BY <1>21 DEF Shutdown, Blocked, TypeOK
  <2> QED
    BY <2>1 DEF NoLostWakeup
<1>22. CASE Join
  BY <1>22, <1>a, <1>b DEF Join, Move, poolVars, flagVars, queueVars, wrkVars,
      NoLostWakeup, TypeOK
<1>23. CASE Return
  BY <1>23, <1>a, <1>b
  DEF Return, poolVars, flagVars, wrkVars, NoLostWakeup, TypeOK
<1>24. CASE StopRequest
  BY <1>24, <1>a, <1>b
  DEF StopRequest, poolVars, queueVars, wrkVars, NoLostWakeup, TypeOK
<1>25. CASE SignalInAccept
  BY <1>25, <1>a, <1>b
  DEF SignalInAccept, poolVars, queueVars, wrkVars, NoLostWakeup, TypeOK
<1>26. ASSUME NEW s \in Socks, Accept(s) PROVE NoLostWakeup'
  BY <1>26, <1>a, <1>b
  DEF Accept, poolVars, flagVars, queueVars, wrkVars, NoLostWakeup, TypeOK
<1>27. ASSUME NEW w \in Workers, PopWait(w) PROVE NoLostWakeup'
  BY <1>27, <1>a
  DEF PopWait, WMove, poolVars, flagVars, queueVars, NoLostWakeup, TypeOK
<1>28. ASSUME NEW w \in Workers, PopExit(w) PROVE NoLostWakeup'
  <2>1. Blocked' = Blocked /\ count' = 0
    BY <1>28 DEF PopExit, WMove, poolVars, flagVars, queueVars, Blocked, TypeOK
  <2> QED
    BY <1>a, <2>1 DEF NoLostWakeup
<1>29. ASSUME NEW w \in Workers, Pop(w) PROVE NoLostWakeup'
  <2>1. Ready' = Ready \ {w} /\ w \in Ready /\ Blocked' = Blocked
    BY <1>29, WorkersAssumption
    DEF Pop, PopThenHead, SignalNotFull, poolVars, flagVars, Ready, Blocked,
        TypeOK, Workers
  <2>2. Cardinality(Ready') = Cardinality(Ready) - 1
    BY <2>1, <1>a, FS_RemoveElement
  <2> QED
    BY <1>29, <1>a, <2>1, <2>2
    DEF Pop, PopThenHead, SignalNotFull, poolVars, flagVars, NoLostWakeup,
        TypeOK
<1>30. ASSUME NEW w \in Workers, PopWakesSpuriously(w) PROVE NoLostWakeup'
  <2>1. Ready' = Ready \cup {w} /\ w \notin Ready /\ Blocked # {}
    BY <1>30, WorkersAssumption
    DEF PopWakesSpuriously, WMove, poolVars, flagVars, queueVars, Ready,
        Blocked, TypeOK, Workers
  <2>2. Cardinality(Ready') = Cardinality(Ready) + 1
    BY <2>1, <1>a, FS_AddElement
  <2> QED
    BY <1>30, <1>a, <2>1, <2>2
    DEF PopWakesSpuriously, WMove, poolVars, flagVars, queueVars,
        NoLostWakeup, TypeOK
<1>31. ASSUME NEW w \in Workers, Serve(w) PROVE NoLostWakeup'
  <2>1. Ready' = Ready /\ Blocked' = Blocked
    BY <1>31
    DEF Serve, WMove, poolVars, flagVars, queueVars, Ready, Blocked, TypeOK
  <2> QED
    BY <1>31, <1>a, <2>1
    DEF Serve, WMove, poolVars, flagVars, queueVars, NoLostWakeup, TypeOK
<1>32. ASSUME NEW w \in Workers, Close(w) PROVE NoLostWakeup'
  <2>1. Ready' = Ready /\ Blocked' = Blocked
    BY <1>32 DEF Close, poolVars, flagVars, queueVars, Ready, Blocked, TypeOK
  <2> QED
    BY <1>32, <1>a, <2>1
    DEF Close, poolVars, flagVars, queueVars, NoLostWakeup, TypeOK
<1>33. ASSUME NEW w \in Workers, CountOut(w) PROVE NoLostWakeup'
  <2>1. Ready' = Ready \cup {w} /\ w \notin Ready /\ Blocked' = Blocked
    BY <1>33, WorkersAssumption
    DEF CountOut, poolVars, flagVars, queueVars, Ready, Blocked, TypeOK,
        Workers
  <2>2. Cardinality(Ready') = Cardinality(Ready) + 1
    BY <2>1, <1>a, FS_AddElement
  <2> QED
    BY <1>33, <1>a, <2>1, <2>2
    DEF CountOut, poolVars, flagVars, queueVars, NoLostWakeup, TypeOK
<1>34. CASE RunAgain
  <2>1. Blocked' = {}
    BY <1>34 DEF RunAgain, Blocked
  <2> QED
    BY <2>1 DEF NoLostWakeup
<1>35. ASSUME NEW n \in Workers, SetWorkers(n) PROVE NoLostWakeup'
  BY <1>35, <1>a, <1>b DEF SetWorkers, flagVars, queueVars, wrkVars,
      NoLostWakeup, TypeOK
<1>36. CASE UNCHANGED vars
  BY <1>b, <1>36 DEF vars, NoLostWakeup
<1> QED
  BY <1>1, <1>2, <1>3, <1>4, <1>5, <1>6, <1>7, <1>8, <1>9, <1>10, <1>11, <1>12,
      <1>13, <1>14, <1>15, <1>16, <1>17, <1>18, <1>19, <1>20, <1>21, <1>22,
      <1>23, <1>24, <1>25, <1>26, <1>27, <1>28, <1>29, <1>30, <1>31, <1>32,
      <1>33, <1>34, <1>35, <1>36
  DEF Next, AcceptStep, AcceptorStep, WorkerStep

----------------------------------------------------------------------------
(* IInv is inductive: start-up and shutdown phases, the counter, the limit *)
(* and the wake-ups hold each other up.                                    *)
THEOREM Inductive == Spec => []IInv
<1>1. Init => IInv
  BY TypeInit, PhasesInit, AccountingInit, LimitsInit, WakeupInit DEF IInv
<1>2. IInv /\ [Next]_vars => IInv'
  BY TypeStep, PhasesStep, AccountingStep, LimitsStep, WakeupStep DEF IInv
<1> QED
  BY <1>1, <1>2, PTL DEF Spec

(* Every variable keeps its type; in particular the ring buffer's indices  *)
(* stay inside the slot array and count within its capacity.               *)
THEOREM TypeCorrect == Spec => []TypeOK
<1>1. IInv => TypeOK
  BY DEF IInv
<1> QED
  BY <1>1, Inductive, PTL

(* active_connections never drifts: it is the number of admitted           *)
(* connections not yet given up, whatever the threads interleave.          *)
THEOREM AccountingHolds == Spec => []Accounting
<1>1. IInv => Accounting
  BY DEF IInv
<1> QED
  BY <1>1, Inductive, PTL

(* No worker sleeps while a connection waits that no awake worker is       *)
(* coming for: pthread_cond_signal in mnet_pool_push() is enough.          *)
THEOREM NoLostWakeupHolds == Spec => []NoLostWakeup
<1>1. IInv => NoLostWakeup
  BY DEF IInv
<1> QED
  BY <1>1, Inductive, PTL

(* The accept loop blocks in mnet_pool_push() only on a full queue, and    *)
(* never when max_connections is set.                                      *)
THEOREM PushWaits == Spec => []PushWaitsOnlyWhenFull
<1>1. IInv => PushWaitsOnlyWhenFull
  <2> SUFFICES ASSUME IInv, apc = "pushWait" PROVE Full /\ MaxConnections = 0
    BY DEF PushWaitsOnlyWhenFull
  <2>1. Full
    BY DEF IInv, Limits
  <2>2. active = count + Cardinality(Counted) + 1
    BY DEF IInv, Accounting, AcceptorCounted, One
  <2>3. MaxConnections > 0 => active <= MaxConnections /\ count = MaxConnections
    BY <2>1 DEF IInv, Limits, Full, Capacity
  <2> QED
    BY <2>1, <2>2, <2>3, CountedFinite, LimitAssumption DEF IInv, TypeOK
<1> QED
  BY <1>1, Inductive, PTL

(* The workers leave nothing for the draining loop of mnet_pool_shutdown(). *)
THEOREM DrainHolds == Spec => []DrainFindsNothing
<1>1. IInv => DrainFindsNothing
  BY DrainEmpty DEF IInv
<1> QED
  BY <1>1, Inductive, PTL

(* The accept loop never runs without somebody to serve its connections,   *)
(* however many threads could be started in this run or an earlier one.    *)
THEOREM PoolSizedHolds == Spec => []PoolSized
<1>1. IInv => PoolSized
  BY DEF IInv, Phases
<1> QED
  BY <1>1, Inductive, PTL

(* The 503 branch of the single-threaded loop is dead code.                *)
THEOREM SingleNeverRefusesHolds == Spec => []SingleNeverRefuses
<1>1. IInv => SingleNeverRefuses
  BY DEF IInv, Limits
<1> QED
  BY <1>1, Inductive, PTL

----------------------------------------------------------------------------
(* What the ring buffer holds: every descriptor has one owner,             *)
(* max_connections bounds the open ones, and the pool implements           *)
(* ConnService.                                                            *)

(* Descriptors have one owner each.                                        *)
Own ==
  /\ client # NoSock <=> AcceptorHolds
  /\ client # NoSock => client \in open
  /\ \A w \in Workers : wsock[w] # NoSock <=> w \in Busy
  /\ \A w \in Workers :
       wsock[w] # NoSock => wsock[w] \in open /\ wsock[w] # client
  /\ \A v, w \in Workers : v # w /\ wsock[v] # NoSock => wsock[v] # wsock[w]
  /\ \A i \in 1 .. count : /\ Queue[i] \in open /\ Queue[i] # client
                           /\ \A w \in Workers : Queue[i] # wsock[w]
  /\ \A i, j \in 1 .. count : i # j => Queue[i] # Queue[j]
  /\ \A s \in open : \/ s = client
                     \/ \E w \in Workers : s = wsock[w]
                     \/ \E i \in 1 .. count : s = Queue[i]

LEMMA ModSmall ==
  ASSUME NEW n \in Nat, NEW c \in Nat \ {0}, n < c PROVE n % c = n
OBVIOUS

LEMMA ModWrap ==
  ASSUME NEW n \in Nat, NEW c \in Nat \ {0}, c <= n, n < c + c
  PROVE  n % c = n - c
OBVIOUS

(* Distinct offsets below the capacity are distinct slots.                 *)
LEMMA SlotInjective ==
  ASSUME NEW h \in Slots, NEW a \in 0 .. Capacity - 1,
         NEW b \in 0 .. Capacity - 1, a # b
  PROVE  /\ (h + a) % Capacity # (h + b) % Capacity
         /\ (h + a) % Capacity \in Slots
<1>1. Capacity \in Nat \ {0}
  BY CapacityType
<1>2. /\ h + a \in Nat /\ h + a < Capacity + Capacity
      /\ h + b \in Nat /\ h + b < Capacity + Capacity
  BY <1>1 DEF Slots
<1>3. /\ h + a < Capacity => (h + a) % Capacity = h + a
      /\ h + b < Capacity => (h + b) % Capacity = h + b
  BY <1>1, <1>2, ModSmall
<1>4. /\ Capacity <= h + a => (h + a) % Capacity = (h + a) - Capacity
      /\ Capacity <= h + b => (h + b) % Capacity = (h + b) - Capacity
  <2>1. CASE Capacity <= h + a
    BY <1>1, <1>2, <2>1, ModWrap
  <2> QED
    BY <1>1, <1>2, ModWrap
<1>5. /\ h \in Nat /\ h < Capacity /\ a \in Nat /\ a < Capacity
      /\ b \in Nat /\ b < Capacity
  BY <1>1 DEF Slots
<1>6. (h + a) % Capacity \in Slots
  BY <1>1, <1>2 DEF Slots
<1> DEFINE ra == (h + a) % Capacity  rb == (h + b) % Capacity
<1> HIDE DEF ra, rb
<1>7. /\ h + a < Capacity => ra = h + a
      /\ h + b < Capacity => rb = h + b
      /\ Capacity <= h + a => ra = h + a - Capacity
      /\ Capacity <= h + b => rb = h + b - Capacity
  BY <1>1, <1>3, <1>4, <1>5 DEF ra, rb
<1>8. ra # rb
  BY <1>1, <1>5, <1>7
<1> QED
  BY <1>6, <1>8 DEF ra, rb

(* Advancing the head by one shifts every offset by one.                   *)
LEMMA SlotShift ==
  ASSUME NEW h \in Slots, NEW a \in 0 .. Capacity - 1, a + 1 < Capacity
  PROVE  (((h + 1) % Capacity) + a) % Capacity = (h + a + 1) % Capacity
<1>1. Capacity \in Nat \ {0} /\ h \in Nat /\ h < Capacity /\ a \in Nat
  BY CapacityType DEF Slots
<1>2. CASE h + 1 < Capacity
  <2>1. (h + 1) % Capacity = h + 1
    BY <1>1, <1>2, ModSmall
  <2>2. h + 1 + a = h + a + 1
    BY <1>1
  <2> QED
    BY <2>1, <2>2
<1>3. CASE h + 1 = Capacity
  <2>1. (h + 1) % Capacity = 0
    BY <1>1, <1>3, ModWrap
  <2>2. (0 + a) % Capacity = a
    BY <1>1, ModSmall
  <2>3. /\ h + a + 1 \in Nat /\ Capacity <= h + a + 1
        /\ h + a + 1 < Capacity + Capacity
    BY <1>1, <1>3
  <2>4. (h + a + 1) % Capacity = (h + a + 1) - Capacity
    BY <2>3, <1>1, ModWrap
  <2>5. (h + a + 1) - Capacity = a /\ 0 + a = a
    BY <1>1, <1>3
  <2> QED
    BY <2>1, <2>2, <2>4, <2>5
<1> QED
  BY <1>1, <1>2, <1>3

LEMMA QueueSame == UNCHANGED queueVars => Queue' = Queue
BY DEF poolVars, queueVars, Queue

QueueSeq == Queue \in Seq(Socks \cup {NoSock}) /\ Len(Queue) = count

LEMMA QueueType == TypeOK => QueueSeq
<1> SUFFICES ASSUME TypeOK PROVE QueueSeq
  OBVIOUS
<1>1. \A i \in 1 .. count :
        slots[(head + i - 1) % Capacity] \in Socks \cup {NoSock}
  BY CapacityType DEF TypeOK, Slots
<1> QED
  BY <1>1 DEF Queue, TypeOK, QueueSeq

LEMMA QueueTypeNext == TypeOK' => QueueSeq'
BY QueueType, PTL

LEMMA PushQueue ==
  ASSUME TypeOK, TypeOK', Push
  PROVE  Queue' = Append(Queue, client)
<1>1. count \in Nat /\ count < Capacity /\ count' = count + 1 /\ head' = head
  BY CapacityType DEF TypeOK, Push, PushInto, Full
<1>2. \A i \in 1 .. count : slots'[(head + i - 1) % Capacity]
                          = slots[(head + i - 1) % Capacity]
  <2> TAKE i \in 1 .. count
  <2>1. /\ (head + count) % Capacity # (head + (i - 1)) % Capacity
        /\ (head + (i - 1)) % Capacity \in Slots
    BY <1>1, CapacityType, SlotInjective DEF TypeOK
  <2>2. head + i - 1 = head + (i - 1)
    BY CapacityType DEF TypeOK, Slots
  <2> QED
    BY <2>1, <2>2 DEF TypeOK, Push, PushInto
<1>3. slots'[(head + (count + 1) - 1) % Capacity] = client
  BY <1>1, CapacityType DEF TypeOK, Push, PushInto, Slots
<1>4. Queue' = [i \in 1 .. count + 1 |-> slots'[(head + i - 1) % Capacity]]
  BY <1>1 DEF Queue
<1>5. \A i \in 1 .. count + 1 :
        Queue'[i] = IF i <= count THEN Queue[i] ELSE client
  BY <1>1, <1>2, <1>3, <1>4 DEF Queue
<1>6. Queue' \in Seq(Socks \cup {NoSock}) /\ Len(Queue') = count + 1
  BY <1>1, QueueTypeNext DEF QueueSeq
<1>7. /\ Append(Queue, client) \in Seq(Socks \cup {NoSock})
      /\ Len(Append(Queue, client)) = count + 1
      /\ \A i \in 1 .. count + 1 : Append(Queue, client)[i]
                              = IF i <= count THEN Queue[i] ELSE client
  BY <1>1, QueueType, AppendProperties DEF TypeOK, QueueSeq
<1> QED
  BY <1>5, <1>6, <1>7, SeqEqual

LEMMA PopQueue ==
  ASSUME TypeOK, TypeOK', NEW w \in Workers, Pop(w)
  PROVE  /\ Queue # <<>> /\ Queue' = Tail(Queue) /\ wsock'[w] = Head(Queue)
         /\ \A i \in 1 .. count' : Queue'[i] = Queue[i + 1]
<1>1. /\ count \in Nat \ {0} /\ count <= Capacity /\ count' = count - 1
      /\ head' = (head + 1) % Capacity /\ slots' = slots
  BY CapacityType DEF TypeOK, Pop, PopThenHead
<1>2. \A i \in 1 .. count - 1 : slots[(head' + i - 1) % Capacity]
                              = slots[(head + (i + 1) - 1) % Capacity]
  <2> TAKE i \in 1 .. count - 1
  <2>1. i - 1 \in 0 .. Capacity - 1 /\ (i - 1) + 1 < Capacity
    BY <1>1, CapacityType
  <2>2. (((head + 1) % Capacity) + (i - 1)) % Capacity
          = (head + (i - 1) + 1) % Capacity
    BY <2>1, SlotShift DEF TypeOK
  <2>3. /\ head' + i - 1 = ((head + 1) % Capacity) + (i - 1)
        /\ head + (i + 1) - 1 = head + (i - 1) + 1
    BY <1>1, CapacityType DEF TypeOK, Slots
  <2> QED
    BY <2>2, <2>3
<1>3. slots[(head + 1 - 1) % Capacity] = slots[head]
  <2>1. head \in Nat /\ head < Capacity /\ head + 1 - 1 = head
    BY CapacityType DEF TypeOK, Slots
  <2>2. head % Capacity = head
    BY <2>1, CapacityType, ModSmall
  <2> QED
    BY <2>1, <2>2
<1>4. Queue' = [i \in 1 .. count - 1 |-> slots[(head' + i - 1) % Capacity]]
  BY <1>1 DEF Queue
<1>5. \A i \in 1 .. count - 1 : Queue'[i] = Queue[i + 1]
  BY <1>1, <1>2, <1>4 DEF Queue
<1>6. wsock'[w] = Queue[1]
  BY <1>1, <1>3 DEF Queue, Pop, PopThenHead, TypeOK
<1>7. /\ Queue \in Seq(Socks \cup {NoSock}) /\ Len(Queue) = count
      /\ Queue' \in Seq(Socks \cup {NoSock}) /\ Len(Queue') = count - 1
  BY <1>1, QueueType, QueueTypeNext DEF QueueSeq
<1>8. Queue # <<>> /\ Head(Queue) = Queue[1]
  BY <1>1, <1>7
<1>9. /\ Tail(Queue) \in Seq(Socks \cup {NoSock})
      /\ Len(Tail(Queue)) = count - 1
      /\ \A i \in 1 .. count - 1 : Tail(Queue)[i] = Queue[i + 1]
  BY <1>7, <1>8, HeadTailProperties
<1>10. Queue' = Tail(Queue)
  BY <1>5, <1>7, <1>9, SeqEqual
<1> QED
  BY <1>1, <1>5, <1>6, <1>8, <1>10

----------------------------------------------------------------------------
LEMMA OwnInit == Init => Own
BY DEF Init, Own, AcceptorHolds, Busy

LEMMA OwnStep ==
  TypeOK /\ TypeOK' /\ Phases /\ Own /\ [Next]_vars => Own'
<1> SUFFICES ASSUME TypeOK, TypeOK', Phases, Own, [Next]_vars
             PROVE  Own'
  OBVIOUS
<1>a. UNCHANGED queueVars => Queue' = Queue
  BY QueueSame
<1>b. NoSock \notin open
  BY SocksAssumption DEF TypeOK

<1>1. CASE Listen
  BY <1>1, <1>a, <1>b, WorkersAssumption
  DEF Listen, Move, poolVars, flagVars, queueVars, wrkVars, Own,
      AcceptorHolds, Busy, TypeOK
<1>2. CASE Begin
  BY <1>2, <1>a, <1>b, WorkersAssumption
  DEF Begin, poolVars, queueVars, wrkVars, Own, AcceptorHolds, Busy, TypeOK
<1>3. CASE Alloc
  BY <1>3, <1>a, <1>b, WorkersAssumption
  DEF Alloc, Move, poolVars, flagVars, queueVars, wrkVars, Own, AcceptorHolds,
      Busy, TypeOK
<1>4. CASE SpawnOk
  BY <1>4, <1>a, <1>b, WorkersAssumption
  DEF SpawnOk, poolVars, flagVars, queueVars, Own, AcceptorHolds, Busy,
      TypeOK, Phases, Workers
<1>5. CASE SpawnFails
  BY <1>5, <1>a, <1>b, WorkersAssumption
  DEF SpawnFails, Move, poolVars, flagVars, queueVars, wrkVars, Own,
      AcceptorHolds, Busy, TypeOK
<1>6. CASE TestRunning
  BY <1>6, <1>a, <1>b, WorkersAssumption
  DEF TestRunning, Move, LoopExit, poolVars, flagVars, queueVars, wrkVars, Own,
      AcceptorHolds, Busy, TypeOK
<1>7. CASE AcceptInterrupted
  BY <1>7, <1>a, <1>b, WorkersAssumption
  DEF AcceptInterrupted, Move, poolVars, flagVars, queueVars, wrkVars, Own,
      AcceptorHolds, Busy, TypeOK
<1>8. CASE AcceptFails
  BY <1>8, <1>a, <1>b, WorkersAssumption
  DEF AcceptFails, Move, LoopExit, poolVars, flagVars, queueVars, wrkVars, Own,
      AcceptorHolds, Busy, TypeOK
<1>9. CASE CheckLimit
  BY <1>9, <1>a, <1>b, WorkersAssumption
  DEF CheckLimit, Move, poolVars, flagVars, queueVars, wrkVars, Own,
      AcceptorHolds, Busy, TypeOK
<1>10. CASE Refuse
  BY <1>10, <1>a, <1>b, WorkersAssumption
  DEF Refuse, CloseClient, poolVars, flagVars, queueVars, wrkVars, Own,
      AcceptorHolds, Busy, TypeOK
<1>11. CASE CountIn
  BY <1>11, <1>a, <1>b, WorkersAssumption
  DEF CountIn, AddActive, poolVars, flagVars, queueVars, wrkVars, Own,
      AcceptorHolds, Busy, TypeOK
<1>12. CASE Push
  <2>1. /\ count \in Nat /\ count' = count + 1
        /\ \A i \in 1 .. count : Queue'[i] = Queue[i]
        /\ Queue'[count + 1] = client
    <3>1. Queue' = Append(Queue, client) /\ count' = count + 1
      BY <1>12, PushQueue DEF Push, PushInto
    <3>2. client \in Socks \cup {NoSock} /\ count \in Nat
      BY CapacityType DEF TypeOK
    <3>3. Queue \in Seq(Socks \cup {NoSock}) /\ Len(Queue) = count
      BY QueueType DEF QueueSeq
    <3> QED
      BY <3>1, <3>2, <3>3, AppendProperties
  <2>2. \A w \in Workers : w \in Busy' <=> w \in Busy
    BY <1>12
    DEF Push, PushInto, SignalNotEmpty, Full, poolVars, flagVars, Busy,
        Blocked, TypeOK
  <2>3. /\ wsock' = wsock /\ open' = open /\ client' = NoSock
        /\ client # NoSock /\ ~AcceptorHolds'
    BY <1>12 DEF Push, PushInto, Own, AcceptorHolds
  <2>4. \A s \in open : s # NoSock
    BY SocksAssumption DEF TypeOK
  <2> HIDE DEF Busy, AcceptorHolds, Queue
  <2> QED
    BY <2>1, <2>2, <2>3, <2>4 DEF Own
<1>13. CASE PushWait
  BY <1>13, <1>a, <1>b, WorkersAssumption
  DEF PushWait, Move, Full, poolVars, flagVars, queueVars, wrkVars, Own,
      AcceptorHolds, Busy, TypeOK
<1>14. CASE PushStopped
  BY <1>14, <1>a, <1>b, WorkersAssumption
  DEF PushStopped, Full, poolVars, flagVars, queueVars, wrkVars, Own,
      AcceptorHolds, Busy, TypeOK
<1>15. CASE PushWakesSpuriously
  BY <1>15, <1>a, <1>b, WorkersAssumption
  DEF PushWakesSpuriously, Move, poolVars, flagVars, queueVars, wrkVars, Own,
      AcceptorHolds, Busy, TypeOK
<1>16. CASE UndoCount
  BY <1>16, <1>a, <1>b, WorkersAssumption
  DEF UndoCount, AddActive, poolVars, flagVars, queueVars, wrkVars, Own,
      AcceptorHolds, Busy, TypeOK
<1>17. CASE Drop
  BY <1>17, <1>a, <1>b, WorkersAssumption
  DEF Drop, CloseClient, poolVars, flagVars, queueVars, wrkVars, Own,
      AcceptorHolds, Busy, TypeOK
<1>18. CASE SingleServe
  BY <1>18, <1>a, <1>b, WorkersAssumption
  DEF SingleServe, Move, poolVars, flagVars, queueVars, wrkVars, Own,
      AcceptorHolds, Busy, TypeOK
<1>19. CASE SingleClose
  BY <1>19, <1>a, <1>b, WorkersAssumption
  DEF SingleClose, CloseClient, poolVars, flagVars, queueVars, wrkVars, Own,
      AcceptorHolds, Busy, TypeOK
<1>20. CASE SingleDec
  BY <1>20, <1>a, <1>b, WorkersAssumption
  DEF SingleDec, AddActive, poolVars, flagVars, queueVars, wrkVars, Own,
      AcceptorHolds, Busy, TypeOK
<1>21. CASE Shutdown
  BY <1>21, <1>a, <1>b, WorkersAssumption
  DEF Shutdown, poolVars, flagVars, queueVars, Own, AcceptorHolds, Busy,
      TypeOK, Blocked
<1>22. CASE Join
  BY <1>22, <1>a, <1>b, WorkersAssumption
  DEF Join, Move, poolVars, flagVars, queueVars, wrkVars, Own, AcceptorHolds,
      Busy, TypeOK
<1>23. CASE Return
  <2>1. count = 0 /\ count' = 0
    BY <1>23, DrainEmpty DEF Return, DrainFindsNothing
  <2>2. open' = open
    BY <1>23, <2>1 DEF Return, Queued
  <2> QED
    BY <1>23, <2>1, <2>2
    DEF Return, poolVars, flagVars, wrkVars, Own, AcceptorHolds, Busy
<1>24. CASE StopRequest
  BY <1>24, <1>a, <1>b, WorkersAssumption
  DEF StopRequest, poolVars, queueVars, wrkVars, Own, AcceptorHolds, Busy,
      TypeOK
<1>25. CASE SignalInAccept
  BY <1>25, <1>a, <1>b, WorkersAssumption
  DEF SignalInAccept, poolVars, queueVars, wrkVars, Own, AcceptorHolds, Busy,
      TypeOK
<1>26. ASSUME NEW s \in Socks, Accept(s) PROVE Own'
  <2>1. /\ client = NoSock /\ client' = s /\ open' = open \cup {s}
        /\ s \notin open /\ s # NoSock /\ wsock' = wsock /\ wpc' = wpc
        /\ count' = count /\ Queue' = Queue /\ AcceptorHolds'
    BY <1>26, <1>a, SocksAssumption
    DEF Accept, poolVars, flagVars, queueVars, wrkVars, Own, AcceptorHolds
  <2>2. Busy' = Busy
    BY <2>1 DEF Busy
  <2>3. \A v \in Workers : wsock[v] # NoSock => wsock[v] # s
    BY <2>1 DEF Own
  <2>4. \A i \in 1 .. count : Queue[i] # s
    BY <2>1 DEF Own
  <2> HIDE DEF Busy, AcceptorHolds, Queue
  <2>6. \A t \in open' : \/ t = client' \/ \E v \in Workers : t = wsock'[v]
                         \/ \E i \in 1 .. count' : t = Queue'[i]
    BY <2>1, <1>b DEF Own
  <2>7. \A i \in 1 .. count : /\ Queue[i] \in open' /\ Queue[i] # client'
                             /\ \A v \in Workers : Queue[i] # wsock[v]
    BY <2>1, <2>4 DEF Own
  <2>8. \A v \in Workers :
          wsock[v] # NoSock => wsock[v] \in open' /\ wsock[v] # client'
    BY <2>1, <2>3 DEF Own
  <2> QED
    BY <2>1, <2>2, <2>6, <2>7, <2>8 DEF Own
<1>27. ASSUME NEW w \in Workers, PopWait(w) PROVE Own'
  BY <1>27, <1>a, <1>b, WorkersAssumption
  DEF PopWait, WMove, poolVars, flagVars, queueVars, Own, AcceptorHolds, Busy,
      TypeOK
<1>28. ASSUME NEW w \in Workers, PopExit(w) PROVE Own'
  BY <1>28, <1>a, <1>b, WorkersAssumption
  DEF PopExit, WMove, poolVars, flagVars, queueVars, Own, AcceptorHolds, Busy,
      TypeOK
<1>29. ASSUME NEW w \in Workers, Pop(w) PROVE Own'
  <2>1. /\ count \in Nat \ {0} /\ count' = count - 1
        /\ \A i \in 1 .. count' : Queue'[i] = Queue[i + 1]
        /\ wsock' = [wsock EXCEPT ![w] = Queue[1]]
    <3>1. Head(Queue) = Queue[1] /\ count \in Nat \ {0}
      BY <1>29, QueueType, PopQueue DEF Pop, PopThenHead, TypeOK, QueueSeq
    <3> QED
      BY <1>29, <3>1, PopQueue DEF Pop, PopThenHead, TypeOK
  <2>2. open' = open /\ client' = client /\ (AcceptorHolds' <=> AcceptorHolds)
    BY <1>29 DEF Pop, PopThenHead, SignalNotFull, AcceptorHolds
  <2>3. /\ w \notin Busy /\ w \in Busy'
        /\ \A v \in Workers : v # w => (v \in Busy' <=> v \in Busy)
    BY <1>29 DEF Pop, PopThenHead, Busy, TypeOK
  <2>4. wsock[w] = NoSock /\ wsock \in [Workers -> Socks \cup {NoSock}]
    BY <2>3 DEF Own, TypeOK
  <2>5. \A s \in open : s # NoSock
    BY SocksAssumption DEF TypeOK
  <2>6. Queue[1] \in open /\ Queue[1] # client
    BY <2>1 DEF Own
  <2> HIDE DEF Busy, AcceptorHolds, Queue
  <2>7. \A v \in Workers :
          /\ wsock'[v] # NoSock <=> v \in Busy'
          /\ wsock'[v] # NoSock => wsock'[v] \in open /\ wsock'[v] # client
    BY <2>1, <2>3, <2>4, <2>5, <2>6 DEF Own
  <2>8. \A u, v \in Workers :
          u # v /\ wsock'[u] # NoSock => wsock'[u] # wsock'[v]
    BY <2>1, <2>4, <2>5, <2>6 DEF Own
  <2>9. \A i \in 1 .. count' : /\ Queue'[i] \in open /\ Queue'[i] # client
                               /\ \A v \in Workers : Queue'[i] # wsock'[v]
    BY <2>1, <2>4 DEF Own
  <2>10. \A i, j \in 1 .. count' : i # j => Queue'[i] # Queue'[j]
    BY <2>1 DEF Own
  <2>11. \A s \in open : \/ s = client \/ \E v \in Workers : s = wsock'[v]
                         \/ \E i \in 1 .. count' : s = Queue'[i]
    <3> TAKE s \in open
    <3>1. CASE \E i \in 1 .. count : s = Queue[i]
      <4>1. PICK i \in 1 .. count : s = Queue[i]
        BY <3>1
      <4>2. CASE i = 1
        BY <4>1, <4>2, <2>1, <2>4
      <4>3. CASE i # 1
        <5>1. i - 1 \in 1 .. count' /\ Queue'[i - 1] = Queue[i]
          BY <4>3, <2>1
        <5> QED
          BY <4>1, <5>1
      <4> QED
        BY <4>2, <4>3
    <3>2. CASE \E v \in Workers : s = wsock[v]
      BY <3>2, <2>1, <2>4, <2>5
    <3> QED
      BY <3>1, <3>2 DEF Own
  <2> QED
    BY <2>2, <2>7, <2>8, <2>9, <2>10, <2>11 DEF Own
<1>30. ASSUME NEW w \in Workers, PopWakesSpuriously(w) PROVE Own'
  BY <1>30, <1>a, <1>b, WorkersAssumption
  DEF PopWakesSpuriously, WMove, poolVars, flagVars, queueVars, Own,
      AcceptorHolds, Busy, TypeOK
<1>31. ASSUME NEW w \in Workers, Serve(w) PROVE Own'
  BY <1>31, <1>a, <1>b, WorkersAssumption
  DEF Serve, WMove, poolVars, flagVars, queueVars, Own, AcceptorHolds, Busy,
      TypeOK
<1>32. ASSUME NEW w \in Workers, Close(w) PROVE Own'
  BY <1>32, <1>a, <1>b, WorkersAssumption
  DEF Close, poolVars, flagVars, queueVars, Own, AcceptorHolds, Busy, TypeOK
<1>33. ASSUME NEW w \in Workers, CountOut(w) PROVE Own'
  BY <1>33, <1>a, <1>b, WorkersAssumption
  DEF CountOut, poolVars, flagVars, queueVars, Own, AcceptorHolds, Busy, TypeOK
<1>34. CASE RunAgain
  <2>1. count = 0 /\ count' = 0 /\ Busy = {} /\ Busy' = {}
    BY <1>34 DEF RunAgain, Phases, Busy
  <2> QED
    BY <1>34, <2>1 DEF RunAgain, Own, AcceptorHolds
<1>35. ASSUME NEW n \in Workers, SetWorkers(n) PROVE Own'
  BY <1>35, <1>a, <1>b
  DEF SetWorkers, flagVars, queueVars, wrkVars, Own, AcceptorHolds, Busy
<1>36. CASE UNCHANGED vars
  BY <1>a, <1>36 DEF vars, poolVars, queueVars, Own, AcceptorHolds, Busy
<1> QED
  BY <1>1, <1>2, <1>3, <1>4, <1>5, <1>6, <1>7, <1>8, <1>9, <1>10, <1>11, <1>12,
      <1>13, <1>14, <1>15, <1>16, <1>17, <1>18, <1>19, <1>20, <1>21, <1>22,
      <1>23, <1>24, <1>25, <1>26, <1>27, <1>28, <1>29, <1>30, <1>31, <1>32,
      <1>33, <1>34, <1>35, <1>36
  DEF Next, AcceptStep, AcceptorStep, WorkerStep

----------------------------------------------------------------------------
OpenCount ==
  Cardinality(open) = count + Cardinality(Busy) + One(AcceptorHolds)

LEMMA BusyFinite == IsFiniteSet(Busy) /\ Cardinality(Busy) \in Nat
BY WorkersFinite, FS_Subset, FS_CardinalityType DEF Busy

LEMMA OpenFinite ==
  TypeOK => IsFiniteSet(open) /\ Cardinality(open) \in Nat
BY SocksAssumption, FS_Subset, FS_CardinalityType DEF TypeOK

LEMMA CountInit == Init => OpenCount
<1> SUFFICES ASSUME Init PROVE OpenCount
  OBVIOUS
<1>1. Busy = {}
  BY DEF Init, Busy
<1> QED
  BY <1>1, FS_EmptySet DEF Init, OpenCount, AcceptorHolds, One

LEMMA CountStep ==
  TypeOK /\ Phases /\ Own /\ OpenCount /\ [Next]_vars => OpenCount'
<1> SUFFICES ASSUME TypeOK, Phases, Own, OpenCount, [Next]_vars
             PROVE  OpenCount'
  OBVIOUS
<1>a. /\ Cardinality(Busy) \in Nat
      /\ IsFiniteSet(open) /\ Cardinality(open) \in Nat
  BY BusyFinite, OpenFinite
<1>b. wpc' = wpc => Busy' = Busy
  BY DEF Busy
<1>1. CASE Listen
  BY <1>1, <1>a, <1>b DEF Listen, Move, poolVars, flagVars, queueVars, wrkVars,
      OpenCount, AcceptorHolds, One, TypeOK
<1>2. CASE Begin
  BY <1>2, <1>a, <1>b
  DEF Begin, poolVars, queueVars, wrkVars, OpenCount, AcceptorHolds, One,
      TypeOK
<1>3. CASE Alloc
  BY <1>3, <1>a, <1>b
  DEF Alloc, Move, poolVars, flagVars, queueVars, wrkVars, OpenCount,
      AcceptorHolds, One, TypeOK
<1>4. CASE SpawnOk
  <2>1. Busy' = Busy
    BY <1>4, WorkersAssumption
    DEF SpawnOk, poolVars, flagVars, queueVars, Busy, TypeOK, Phases, Workers
  <2> QED
    BY <1>4, <1>a, <2>1 DEF SpawnOk, poolVars, flagVars, queueVars, OpenCount,
        AcceptorHolds, One, TypeOK
<1>5. CASE SpawnFails
  BY <1>5, <1>a, <1>b
  DEF SpawnFails, Move, poolVars, flagVars, queueVars, wrkVars, OpenCount,
      AcceptorHolds, One, TypeOK
<1>6. CASE TestRunning
  BY <1>6, <1>a, <1>b
  DEF TestRunning, Move, LoopExit, poolVars, flagVars, queueVars, wrkVars,
      OpenCount, AcceptorHolds, One, TypeOK
<1>7. CASE AcceptInterrupted
  BY <1>7, <1>a, <1>b
  DEF AcceptInterrupted, Move, poolVars, flagVars, queueVars, wrkVars,
      OpenCount, AcceptorHolds, One, TypeOK
<1>8. CASE AcceptFails
  BY <1>8, <1>a, <1>b
  DEF AcceptFails, Move, LoopExit, poolVars, flagVars, queueVars, wrkVars,
      OpenCount, AcceptorHolds, One, TypeOK
<1>9. CASE CheckLimit
  BY <1>9, <1>a, <1>b
  DEF CheckLimit, Move, poolVars, flagVars, queueVars, wrkVars, OpenCount,
      AcceptorHolds, One, TypeOK
<1>10. CASE Refuse
  <2>1. client \in open /\ open' = open \ {client}
    BY <1>10 DEF Refuse, CloseClient, Own, AcceptorHolds
  <2>2. Cardinality(open') = Cardinality(open) - 1
    BY <2>1, <1>a, FS_RemoveElement
  <2> QED
    BY <1>10, <1>a, <1>b, <2>2
    DEF Refuse, CloseClient, poolVars, flagVars, queueVars, wrkVars,
        OpenCount, AcceptorHolds, One, TypeOK
<1>11. CASE CountIn
  BY <1>11, <1>a, <1>b
  DEF CountIn, AddActive, poolVars, flagVars, queueVars, wrkVars, OpenCount,
      AcceptorHolds, One, TypeOK
<1>12. CASE Push
  <2>1. Busy' = Busy
    BY <1>12, WorkersAssumption DEF Push, PushInto, SignalNotEmpty, Full,
        poolVars, flagVars, Busy, TypeOK, Blocked
  <2> QED
    BY <1>12, <1>a, <2>1
    DEF Push, PushInto, SignalNotEmpty, Full, poolVars, flagVars, OpenCount,
        AcceptorHolds, One, TypeOK
<1>13. CASE PushWait
  BY <1>13, <1>a, <1>b
  DEF PushWait, Move, Full, poolVars, flagVars, queueVars, wrkVars, OpenCount,
      AcceptorHolds, One, TypeOK
<1>14. CASE PushStopped
  BY <1>14, <1>a, <1>b
  DEF PushStopped, Full, poolVars, flagVars, queueVars, wrkVars, OpenCount,
      AcceptorHolds, One, TypeOK
<1>15. CASE PushWakesSpuriously
  BY <1>15, <1>a, <1>b
  DEF PushWakesSpuriously, Move, poolVars, flagVars, queueVars, wrkVars,
      OpenCount, AcceptorHolds, One, TypeOK
<1>16. CASE UndoCount
  BY <1>16, <1>a, <1>b
  DEF UndoCount, AddActive, poolVars, flagVars, queueVars, wrkVars, OpenCount,
      AcceptorHolds, One, TypeOK
<1>17. CASE Drop
  <2>1. client \in open /\ open' = open \ {client}
    BY <1>17 DEF Drop, CloseClient, Own, AcceptorHolds
  <2>2. Cardinality(open') = Cardinality(open) - 1
    BY <2>1, <1>a, FS_RemoveElement
  <2> QED
    BY <1>17, <1>a, <1>b, <2>2
    DEF Drop, CloseClient, poolVars, flagVars, queueVars, wrkVars, OpenCount,
        AcceptorHolds, One, TypeOK
<1>18. CASE SingleServe
  BY <1>18, <1>a, <1>b
  DEF SingleServe, Move, poolVars, flagVars, queueVars, wrkVars, OpenCount,
      AcceptorHolds, One, TypeOK
<1>19. CASE SingleClose
  <2>1. client \in open /\ open' = open \ {client}
    BY <1>19 DEF SingleClose, CloseClient, Own, AcceptorHolds
  <2>2. Cardinality(open') = Cardinality(open) - 1
    BY <2>1, <1>a, FS_RemoveElement
  <2> QED
    BY <1>19, <1>a, <1>b, <2>2
    DEF SingleClose, CloseClient, poolVars, flagVars, queueVars, wrkVars,
        OpenCount, AcceptorHolds, One, TypeOK
<1>20. CASE SingleDec
  BY <1>20, <1>a, <1>b
  DEF SingleDec, AddActive, poolVars, flagVars, queueVars, wrkVars, OpenCount,
      AcceptorHolds, One, TypeOK
<1>21. CASE Shutdown
  <2>1. Busy' = Busy
    BY <1>21, WorkersAssumption
    DEF Shutdown, poolVars, flagVars, queueVars, Busy, TypeOK, Blocked
  <2> QED
    BY <1>21, <1>a, <2>1
    DEF Shutdown, poolVars, flagVars, queueVars, OpenCount, AcceptorHolds,
        One, TypeOK
<1>22. CASE Join
  BY <1>22, <1>a, <1>b
  DEF Join, Move, poolVars, flagVars, queueVars, wrkVars, OpenCount,
      AcceptorHolds, One, TypeOK
<1>23. CASE Return
  <2>1. count = 0
    BY <1>23, DrainEmpty DEF Return, DrainFindsNothing
  <2>2. open' = open
    BY <1>23, <2>1 DEF Return, Queued
  <2> QED
    BY <1>23, <1>a, <1>b, <2>1, <2>2
    DEF Return, poolVars, flagVars, wrkVars, OpenCount, AcceptorHolds, One,
        TypeOK
<1>24. CASE StopRequest
  BY <1>24, <1>a, <1>b
  DEF StopRequest, poolVars, queueVars, wrkVars, OpenCount, AcceptorHolds,
      One, TypeOK
<1>25. CASE SignalInAccept
  BY <1>25, <1>a, <1>b
  DEF SignalInAccept, poolVars, queueVars, wrkVars, OpenCount, AcceptorHolds,
      One, TypeOK
<1>26. ASSUME NEW s \in Socks, Accept(s) PROVE OpenCount'
  <2>1. Cardinality(open') = Cardinality(open) + 1
    BY <1>26, <1>a, FS_AddElement DEF Accept
  <2> QED
    BY <1>26, <1>a, <1>b, <2>1
    DEF Accept, poolVars, flagVars, queueVars, wrkVars, OpenCount,
        AcceptorHolds, One, TypeOK
<1>27. ASSUME NEW w \in Workers, PopWait(w) PROVE OpenCount'
  <2>1. Busy' = Busy
    BY <1>27, WorkersAssumption
    DEF PopWait, WMove, poolVars, flagVars, queueVars, Busy, TypeOK
  <2> QED
    BY <1>27, <1>a, <2>1
    DEF PopWait, WMove, poolVars, flagVars, queueVars, OpenCount,
        AcceptorHolds, One, TypeOK
<1>28. ASSUME NEW w \in Workers, PopExit(w) PROVE OpenCount'
  <2>1. Busy' = Busy
    BY <1>28, WorkersAssumption
    DEF PopExit, WMove, poolVars, flagVars, queueVars, Busy, TypeOK
  <2> QED
    BY <1>28, <1>a, <2>1
    DEF PopExit, WMove, poolVars, flagVars, queueVars, OpenCount,
        AcceptorHolds, One, TypeOK
<1>29. ASSUME NEW w \in Workers, Pop(w) PROVE OpenCount'
  <2>1. Busy' = Busy \cup {w} /\ w \notin Busy
    BY <1>29
    DEF Pop, PopThenHead, SignalNotFull, poolVars, flagVars, Busy, TypeOK
  <2>2. Cardinality(Busy') = Cardinality(Busy) + 1
    BY <2>1, BusyFinite, FS_AddElement
  <2> QED
    BY <1>29, <1>a, <2>2
    DEF Pop, PopThenHead, SignalNotFull, poolVars, flagVars, OpenCount,
        AcceptorHolds, One, TypeOK
<1>30. ASSUME NEW w \in Workers, PopWakesSpuriously(w) PROVE OpenCount'
  <2>1. Busy' = Busy
    BY <1>30, WorkersAssumption
    DEF PopWakesSpuriously, WMove, poolVars, flagVars, queueVars, Busy, TypeOK
  <2> QED
    BY <1>30, <1>a, <2>1
    DEF PopWakesSpuriously, WMove, poolVars, flagVars, queueVars, OpenCount,
        AcceptorHolds, One, TypeOK
<1>31. ASSUME NEW w \in Workers, Serve(w) PROVE OpenCount'
  <2>1. Busy' = Busy
    BY <1>31, WorkersAssumption
    DEF Serve, WMove, poolVars, flagVars, queueVars, Busy, TypeOK
  <2> QED
    BY <1>31, <1>a, <2>1
    DEF Serve, WMove, poolVars, flagVars, queueVars, OpenCount, AcceptorHolds,
        One, TypeOK
<1>32. ASSUME NEW w \in Workers, Close(w) PROVE OpenCount'
  <2>1. Busy' = Busy \ {w} /\ w \in Busy
    BY <1>32 DEF Close, poolVars, flagVars, queueVars, Busy, TypeOK
  <2>2. Cardinality(Busy') = Cardinality(Busy) - 1
    BY <2>1, BusyFinite, FS_RemoveElement
  <2>3. wsock[w] \in open /\ open' = open \ {wsock[w]}
    BY <1>32, <2>1 DEF Close, Own
  <2>4. Cardinality(open') = Cardinality(open) - 1
    BY <2>3, <1>a, FS_RemoveElement
  <2> QED
    BY <1>32, <1>a, <2>2, <2>4
    DEF Close, poolVars, flagVars, queueVars, OpenCount, AcceptorHolds, One,
        TypeOK
<1>33. ASSUME NEW w \in Workers, CountOut(w) PROVE OpenCount'
  <2>1. Busy' = Busy
    BY <1>33, WorkersAssumption
    DEF CountOut, poolVars, flagVars, queueVars, Busy, TypeOK
  <2> QED
    BY <1>33, <1>a, <2>1
    DEF CountOut, poolVars, flagVars, queueVars, OpenCount, AcceptorHolds,
        One, TypeOK
<1>34. CASE RunAgain
  <2>1. Busy = {} /\ Busy' = {}
    BY <1>34 DEF RunAgain, Phases, Busy
  <2> QED
    BY <1>34, <2>1 DEF RunAgain, OpenCount, AcceptorHolds, One
<1>35. ASSUME NEW n \in Workers, SetWorkers(n) PROVE OpenCount'
  BY <1>35, <1>a, <1>b DEF SetWorkers, flagVars, queueVars, wrkVars,
      OpenCount, AcceptorHolds, One, TypeOK
<1>36. CASE UNCHANGED vars
  BY <1>a, <1>b, <1>36 DEF vars, OpenCount, AcceptorHolds, One
<1> QED
  BY <1>1, <1>2, <1>3, <1>4, <1>5, <1>6, <1>7, <1>8, <1>9, <1>10, <1>11, <1>12,
      <1>13, <1>14, <1>15, <1>16, <1>17, <1>18, <1>19, <1>20, <1>21, <1>22,
      <1>23, <1>24, <1>25, <1>26, <1>27, <1>28, <1>29, <1>30, <1>31, <1>32,
      <1>33, <1>34, <1>35, <1>36
  DEF Next, AcceptStep, AcceptorStep, WorkerStep

----------------------------------------------------------------------------
(* With a limit the push is never refused: there is always a slot.         *)
NeverUndone == MaxConnections > 0 => apc \notin {"undo", "drop"}

OInv == IInv /\ Own /\ OpenCount /\ NeverUndone

LEMMA NeverUndoneStep == IInv /\ NeverUndone /\ [Next]_vars => NeverUndone'
<1> SUFFICES ASSUME IInv, NeverUndone, [Next]_vars, MaxConnections > 0
             PROVE  apc' \notin {"undo", "drop"}
  BY DEF NeverUndone
<1>1. CASE PushStopped
  <2>1. Full /\ apc = "push"
    BY <1>1 DEF PushStopped, IInv, Phases, Leaving, TypeOK
  <2>2. active = count + Cardinality(Counted) + 1 /\ active <= MaxConnections
    BY <2>1 DEF IInv, Accounting, AcceptorCounted, One, Limits
  <2>3. count = MaxConnections
    BY <2>1 DEF Full, Capacity
  <2> QED
    BY <2>2, <2>3, CountedFinite, LimitAssumption
<1>2. CASE ~PushStopped
  BY <1>2
  DEF NeverUndone, Next, AcceptStep, AcceptorStep, WorkerStep, vars, Move,
      CloseClient, AddActive, WMove, LoopExit, Listen, Begin, Alloc, SpawnOk,
      SpawnFails, TestRunning, Accept, AcceptInterrupted, AcceptFails,
      CheckLimit, Refuse, CountIn, Push, PushInto, PushWait,
      PushWakesSpuriously, UndoCount, Drop, SingleServe, SingleClose,
      SingleDec, PopWait, PopWakesSpuriously, PopExit, Pop, PopThenHead,
      SignalNotFull, Serve, Close, CountOut, Shutdown, Join, Return,
      StopRequest, SignalInAccept, RunAgain, SetWorkers
<1> QED
  BY <1>1, <1>2

(* The ownership invariant is inductive together with IInv.                *)
THEOREM OwnInductive == Spec => []OInv
<1>1. Init => Own /\ OpenCount /\ NeverUndone
  BY OwnInit, CountInit DEF NeverUndone, Init
<1>2. IInv /\ IInv' /\ Own /\ OpenCount /\ NeverUndone /\ [Next]_vars
        => Own' /\ OpenCount' /\ NeverUndone'
  BY OwnStep, CountStep, NeverUndoneStep DEF IInv
<1> QED
  BY <1>1, <1>2, Inductive, PTL DEF Spec, OInv

(* Each open descriptor has exactly one owner.                             *)
THEOREM SoleOwnerHolds == Spec => []SoleOwner
<1>1. OInv => SoleOwner
  <2> SUFFICES ASSUME OInv PROVE SoleOwner
    OBVIOUS
  <2>1. Cardinality(open) = count + Cardinality(Busy) + One(AcceptorHolds)
    BY DEF OInv, OpenCount
  <2>2. ASSUME NEW s \in open
        PROVE  s \in Queued \cup {wsock[w] : w \in Busy}
                       \cup (IF AcceptorHolds THEN {client} ELSE {})
    BY SocksAssumption DEF OInv, IInv, TypeOK, Own, Queued, Busy
  <2>3. Queued \subseteq open
    BY DEF OInv, Own, Queued
  <2>4. {wsock[w] : w \in Busy} \subseteq open
    BY DEF OInv, Own, Busy
  <2>5. AcceptorHolds => client \in open
    BY DEF OInv, Own
  <2> QED
    BY <2>1, <2>2, <2>3, <2>4, <2>5 DEF SoleOwner
<1> QED
  BY <1>1, OwnInductive, PTL

(* max_connections is never exceeded, and without it the queue, the        *)
(* workers and the accept loop bound the open connections.                 *)
THEOREM ConnectionLimitHolds == Spec => []ConnectionLimit
<1>1. OInv => ConnectionLimit
  <2> SUFFICES ASSUME OInv PROVE ConnectionLimit
    OBVIOUS
  <2>1. /\ Cardinality(open) = count + Cardinality(Busy) + One(AcceptorHolds)
        /\ active = count + Cardinality(Counted) + One(AcceptorCounted)
        /\ count \in Nat /\ count <= Capacity /\ active \in Int
        /\ Cardinality(open) \in Nat /\ threads \in Nat
    BY OpenFinite, CapacityType, WorkersAssumption
    DEF OInv, OpenCount, IInv, Accounting, TypeOK
  <2>2. Cardinality(Busy) <= Cardinality(Counted)
    <3>1. Busy \subseteq Counted
      BY DEF Busy, Counted
    <3> QED
      BY <3>1, CountedFinite, FS_Subset
  <2>3. Cardinality(Busy) <= threads
    <3>1. Busy \subseteq 1 .. threads
      BY DEF Busy, OInv, IInv, Phases, TypeOK, Workers
    <3>2. IsFiniteSet(1 .. threads) /\ Cardinality(1 .. threads) = threads
      <4>1. Cardinality(1 .. threads) = IF 1 > threads THEN 0 ELSE threads - 1
          + 1
        BY <2>1, FS_Interval
      <4> QED
        BY <2>1, <4>1, FS_Interval
    <3> QED
      BY <3>1, <3>2, FS_Subset
  <2>4. CASE MaxConnections > 0
    <3>1. /\ active <= MaxConnections
          /\ apc = "count" => active < MaxConnections
          /\ apc \notin {"undo", "drop"}
      BY <2>4 DEF OInv, IInv, Limits, NeverUndone
    <3> QED
      BY <2>1, <2>2, <2>4, <3>1, BusyFinite, CountedFinite, LimitAssumption
      DEF ConnectionLimit, One, AcceptorHolds, AcceptorCounted
  <2>5. CASE ~(MaxConnections > 0)
    BY <2>1, <2>3, <2>5, BusyFinite, CapacityType
    DEF ConnectionLimit, One
  <2> QED
    BY <2>4, <2>5
<1> QED
  BY <1>1, OwnInductive, PTL

(* mnet_run() leaves no connection open, no worker behind and the counter  *)
(* at 0, whichever way it returns.                                         *)
THEOREM CleanReturnHolds == Spec => []CleanReturn
<1>1. OInv => CleanReturn
  <2> SUFFICES ASSUME OInv, apc = "done"
               PROVE  /\ open = {} /\ active = 0
                      /\ \A w \in Workers : wpc[w] \in {"off", "exited"}
    BY DEF CleanReturn
  <2>1. count = 0 /\ \A w \in Workers : wpc[w] \in {"off", "exited"}
    BY DEF OInv, IInv, Phases
  <2>2. Counted = {} /\ Busy = {}
    BY <2>1 DEF Counted, Busy
  <2>3. active = 0
    BY <2>1, <2>2, FS_EmptySet
    DEF OInv, IInv, Accounting, AcceptorCounted, One
  <2>4. open = {}
    BY <2>1, <2>2, SocksAssumption DEF OInv, IInv, TypeOK, Own, AcceptorHolds
  <2> QED
    BY <2>1, <2>3, <2>4
<1> QED
  BY <1>1, OwnInductive, PTL

----------------------------------------------------------------------------
LEMMA ServiceInit == Init => Service!SInit
<1> SUFFICES ASSUME Init PROVE Service!SInit
  OBVIOUS
<1>1. TypeOK
  BY TypeInit
<1>2. Queue = <<>>
  BY <1>1, QueueType DEF Init, QueueSeq
<1>3. {wsock[w] : w \in Workers} \ {NoSock} = {}
  BY DEF Init
<1> QED
  BY <1>2, <1>3 DEF Init, Service!SInit

LEMMA ServiceStep == OInv /\ OInv' /\ [Next]_vars =>
    [Service!SNext]_(Service!svars)
<1> SUFFICES ASSUME OInv, OInv', [Next]_vars
             PROVE  [Service!SNext]_(Service!svars)
  OBVIOUS
<1>a. UNCHANGED queueVars => Queue' = Queue
  BY QueueSame
<1>b. Queue \in Seq(Socks \cup {NoSock}) /\ Len(Queue) = count
  BY QueueType DEF OInv, IInv, QueueSeq
<1>1. CASE Listen
  BY <1>1, <1>a DEF Listen, Move, poolVars, queueVars, wrkVars, Service!svars
<1>2. CASE Begin
  BY <1>2, <1>a DEF Begin, poolVars, queueVars, wrkVars, Service!svars
<1>3. CASE Alloc
  BY <1>3, <1>a DEF Alloc, Move, poolVars, queueVars, wrkVars, Service!svars
<1>4. CASE SpawnOk
  BY <1>4, <1>a DEF SpawnOk, poolVars, queueVars, Service!svars
<1>5. CASE SpawnFails
  BY <1>5, <1>a
  DEF SpawnFails, Move, poolVars, queueVars, wrkVars, Service!svars
<1>6. CASE TestRunning
  BY <1>6, <1>a
  DEF TestRunning, Move, poolVars, queueVars, wrkVars, Service!svars
<1>7. CASE AcceptInterrupted
  BY <1>7, <1>a
  DEF AcceptInterrupted, Move, poolVars, queueVars, wrkVars, Service!svars
<1>8. CASE AcceptFails
  BY <1>8, <1>a
  DEF AcceptFails, Move, poolVars, queueVars, wrkVars, Service!svars
<1>9. CASE CheckLimit
  BY <1>9, <1>a
  DEF CheckLimit, Move, poolVars, queueVars, wrkVars, Service!svars
<1>10. CASE Refuse
  <2>1. /\ client # NoSock /\ client' = NoSock /\ Queue' = Queue
        /\ wsock' = wsock
    BY <1>10, <1>a
    DEF Refuse, CloseClient, poolVars, queueVars, wrkVars, OInv, Own,
        AcceptorHolds
  <2> QED
    BY <2>1 DEF Service!SNext, Service!TurnAway
<1>11. CASE CountIn
  BY <1>11, <1>a
  DEF CountIn, AddActive, poolVars, queueVars, wrkVars, Service!svars
<1>12. CASE Push
  <2>1. client # NoSock /\ client' = NoSock /\ wsock' = wsock /\ count <
      Capacity
    BY <1>12, CapacityType
    DEF Push, PushInto, OInv, Own, AcceptorHolds, IInv, TypeOK, Full
  <2>2. Queue' = Append(Queue, client)
    BY <1>12, PushQueue DEF OInv, IInv
  <2> QED
    BY <2>1, <2>2, <1>b DEF Service!SNext, Service!Admit
<1>13. CASE PushWait
  BY <1>13, <1>a
  DEF PushWait, Move, poolVars, queueVars, wrkVars, Service!svars
<1>14. CASE PushStopped
  BY <1>14, <1>a DEF PushStopped, poolVars, queueVars, wrkVars, Service!svars
<1>15. CASE PushWakesSpuriously
  BY <1>15, <1>a DEF PushWakesSpuriously, Move, poolVars, queueVars, wrkVars,
      Service!svars
<1>16. CASE UndoCount
  BY <1>16, <1>a
  DEF UndoCount, AddActive, poolVars, queueVars, wrkVars, Service!svars
<1>17. CASE Drop
  <2>1. /\ client # NoSock /\ client' = NoSock /\ Queue' = Queue
        /\ wsock' = wsock
    BY <1>17, <1>a
    DEF Drop, CloseClient, poolVars, queueVars, wrkVars, OInv, Own,
        AcceptorHolds
  <2> QED
    BY <2>1 DEF Service!SNext, Service!TurnAway
<1>18. CASE SingleServe
  BY <1>18, <1>a
  DEF SingleServe, Move, poolVars, queueVars, wrkVars, Service!svars
<1>19. CASE SingleClose
  <2>1. /\ client # NoSock /\ client' = NoSock /\ Queue' = Queue
        /\ wsock' = wsock
    BY <1>19, <1>a
    DEF SingleClose, CloseClient, poolVars, queueVars, wrkVars, OInv, Own,
        AcceptorHolds
  <2> QED
    BY <2>1 DEF Service!SNext, Service!TurnAway
<1>20. CASE SingleDec
  BY <1>20, <1>a
  DEF SingleDec, AddActive, poolVars, queueVars, wrkVars, Service!svars
<1>21. CASE Shutdown
  BY <1>21, <1>a DEF Shutdown, poolVars, queueVars, Service!svars
<1>22. CASE Join
  BY <1>22, <1>a DEF Join, Move, poolVars, queueVars, wrkVars, Service!svars
<1>23. CASE Return
  <2>1. count = 0 /\ count' = 0
    BY <1>23, DrainEmpty DEF Return, DrainFindsNothing, OInv, IInv
  <2>2. Queue' = Queue
    BY <2>1 DEF Queue
  <2> QED
    BY <1>23, <2>2 DEF Return, poolVars, wrkVars, Service!svars
<1>24. CASE StopRequest
  BY <1>24, <1>a DEF StopRequest, poolVars, queueVars, wrkVars, Service!svars
<1>25. CASE SignalInAccept
  BY <1>25, <1>a
  DEF SignalInAccept, poolVars, queueVars, wrkVars, Service!svars
<1>26. ASSUME NEW s \in Socks, Accept(s) PROVE [Service!SNext]_(Service!svars)
  <2>1. client = NoSock /\ client' = s /\ Queue' = Queue /\ wsock' = wsock
    BY <1>26, <1>a
    DEF Accept, poolVars, queueVars, wrkVars, OInv, Own, AcceptorHolds
  <2>2. s \notin Service!InUse
    <3>1. s \notin open /\ s # NoSock
      BY <1>26, SocksAssumption DEF Accept
    <3>2. \A i \in 1 .. count : Queue[i] # s
      BY <3>1 DEF OInv, Own
    <3>3. \A w \in Workers : wsock[w] # s
      BY <3>1 DEF OInv, Own
    <3> QED
      BY <2>1, <3>1, <3>2, <3>3, <1>b DEF Service!InUse
  <2>3. Service!Arrive(s)
    BY <2>1, <2>2 DEF Service!Arrive
  <2> QED
    BY <2>3 DEF Service!SNext
<1>27. ASSUME NEW w \in Workers, PopWait(w) PROVE
    [Service!SNext]_(Service!svars)
  BY <1>27, <1>a DEF PopWait, WMove, poolVars, queueVars, Service!svars
<1>28. ASSUME NEW w \in Workers, PopExit(w) PROVE
    [Service!SNext]_(Service!svars)
  BY <1>28, <1>a DEF PopExit, WMove, poolVars, queueVars, Service!svars
<1>29. ASSUME NEW w \in Workers, Pop(w) PROVE [Service!SNext]_(Service!svars)
  <2>1. Queue # <<>> /\ Queue' = Tail(Queue) /\ wsock'[w] = Head(Queue)
    BY <1>29, PopQueue DEF OInv, IInv
  <2>2. /\ client' = client /\ wsock[w] = NoSock
        /\ wsock' = [wsock EXCEPT ![w] = Head(Queue)]
    BY <1>29, <2>1, ZenonT(60)
    DEF Pop, PopThenHead, OInv, Own, Busy, IInv, TypeOK
  <2>3. Head(Queue) # NoSock
    <3>1. Head(Queue) = Queue[1] /\ 1 \in 1 .. count
      BY <2>1, <1>b
    <3> QED
      BY <3>1, SocksAssumption DEF OInv, Own, IInv, TypeOK
  <2>4. {wsock'[v] : v \in Workers} \ {NoSock}
          = ({wsock[v] : v \in Workers} \ {NoSock}) \cup {Head(Queue)}
    <3>1. wsock'[w] = Head(Queue)
      BY <2>1
    <3>2. \A v \in Workers : v # w => wsock'[v] = wsock[v]
      BY <2>2 DEF OInv, IInv, TypeOK
    <3> QED
      BY <2>2, <2>3, <3>1, <3>2
  <2> QED
    BY <2>1, <2>2, <2>4 DEF Service!SNext, Service!Take
<1>30. ASSUME NEW w \in Workers, PopWakesSpuriously(w) PROVE
    [Service!SNext]_(Service!svars)
  BY <1>30, <1>a
  DEF PopWakesSpuriously, WMove, poolVars, queueVars, Service!svars
<1>31. ASSUME NEW w \in Workers, Serve(w) PROVE [Service!SNext]_(Service!svars)
  BY <1>31, <1>a DEF Serve, WMove, poolVars, queueVars, Service!svars
<1>32. ASSUME NEW w \in Workers, Close(w) PROVE [Service!SNext]_(Service!svars)
  <2>1. /\ client' = client /\ Queue' = Queue
        /\ wsock' = [wsock EXCEPT ![w] = NoSock]
        /\ wsock[w] # NoSock /\ wsock[w] \in Socks
    BY <1>32, <1>a, SocksAssumption
    DEF Close, poolVars, queueVars, OInv, Own, Busy, IInv, TypeOK
  <2>2. {wsock'[v] : v \in Workers} \ {NoSock}
          = ({wsock[v] : v \in Workers} \ {NoSock}) \ {wsock[w]}
    BY <2>1 DEF OInv, Own, IInv, TypeOK
  <2>3. wsock[w] \in {wsock[v] : v \in Workers} \ {NoSock}
    BY <2>1
  <2>4. Service!Finish(wsock[w])
    BY <2>1, <2>2, <2>3 DEF Service!Finish
  <2>5. \E s \in Socks : Service!Finish(s)
    BY <2>1, <2>4 DEF Service!Finish
  <2>6. Service!SNext
    BY <2>5 DEF Service!SNext
  <2> QED
    BY <2>6
<1>33. ASSUME NEW w \in Workers, CountOut(w) PROVE
    [Service!SNext]_(Service!svars)
  BY <1>33, <1>a DEF CountOut, poolVars, queueVars, Service!svars
<1>34. CASE RunAgain
  <2>1. count = 0 /\ count' = 0
    BY <1>34 DEF RunAgain, OInv, IInv, Phases
  <2>2. Queue' = Queue
    BY <2>1 DEF Queue
  <2> QED
    BY <1>34, <2>2 DEF RunAgain, Service!svars
<1>35. ASSUME NEW n \in Workers, SetWorkers(n) PROVE 
    [Service!SNext]_(Service!svars)
  BY <1>35, <1>a DEF SetWorkers, queueVars, wrkVars, Service!svars
<1>36. CASE UNCHANGED vars
  BY <1>a, <1>36 DEF vars, poolVars, queueVars, Service!svars
<1> QED
  BY <1>1, <1>2, <1>3, <1>4, <1>5, <1>6, <1>7, <1>8, <1>9, <1>10, <1>11, <1>12,
      <1>13, <1>14, <1>15, <1>16, <1>17, <1>18, <1>19, <1>20, <1>21, <1>22,
      <1>23, <1>24, <1>25, <1>26, <1>27, <1>28, <1>29, <1>30, <1>31, <1>32,
      <1>33, <1>34, <1>35, <1>36
  DEF Next, AcceptStep, AcceptorStep, WorkerStep

(* Every behaviour of the pool is a behaviour of the abstract connection   *)
(* service: first in, first out, and nobody dropped from the queue.        *)
THEOREM Refinement == Spec => ImplementsService
BY ServiceInit, ServiceStep, OwnInductive, PTL
DEF Spec, ImplementsService, Service!SSpec
=============================================================================
