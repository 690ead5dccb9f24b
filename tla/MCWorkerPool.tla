---------------------------- MODULE MCWorkerPool ----------------------------
(* Small instances of WorkerPool for TLC; the cfg files give the constants. *)
EXTENDS WorkerPool
=============================================================================
