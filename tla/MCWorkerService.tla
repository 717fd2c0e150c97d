-------------------------- MODULE MCWorkerService --------------------------
(***************************************************************************)
(* Two clients for a pool of two, with one request more than clients so    *)
(* that a request that was given up may still be in the pool.              *)
(***************************************************************************)
EXTENDS WorkerService

CONSTANTS c1, c2, r1, r2, r3
============================================================================
