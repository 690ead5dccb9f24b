----------------------------- MODULE ConnService -----------------------------
(***************************************************************************)
(* What mnet_run() promises about connections, whatever the threads do:    *)
(* one arrives at a time, is turned away or joins a bounded queue; queued  *)
(* connections are taken up in order of arrival, each once, and none is    *)
(* dropped from the queue.  A descriptor may come back once its connection *)
(* is over.                                                                *)
(***************************************************************************)
EXTENDS Integers, Sequences

CONSTANTS Socks, NoSock, Capacity

VARIABLES
  door,       \* the connection just accepted, or NoSock
  queue,      \* admitted connections, oldest first
  inService   \* connections some worker serves

svars == <<door, queue, inService>>

InUse == {door} \cup {queue[i] : i \in 1 .. Len(queue)} \cup inService

SInit == door = NoSock /\ queue = <<>> /\ inService = {}

Arrive(s) ==
  /\ door = NoSock /\ s \notin InUse
  /\ door' = s /\ UNCHANGED <<queue, inService>>

TurnAway ==
  /\ door # NoSock
  /\ door' = NoSock /\ UNCHANGED <<queue, inService>>

Admit ==
  /\ door # NoSock /\ Len(queue) < Capacity
  /\ queue' = Append(queue, door) /\ door' = NoSock /\ UNCHANGED inService

Take ==
  /\ queue # <<>>
  /\ inService' = inService \cup {Head(queue)}
  /\ queue' = Tail(queue) /\ UNCHANGED door

Finish(s) ==
  /\ s \in inService
  /\ inService' = inService \ {s} /\ UNCHANGED <<door, queue>>

SNext ==
  \/ \E s \in Socks : Arrive(s) \/ Finish(s)
  \/ TurnAway \/ Admit \/ Take

SSpec == SInit /\ [][SNext]_svars
=============================================================================
