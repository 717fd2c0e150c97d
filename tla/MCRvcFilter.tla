----------------------------- MODULE MCRvcFilter -----------------------------
(***************************************************************************)
(* An instance of RvcFilter: two threads save one of three settings while  *)
(* the machine has two or eight CPUs.                                      *)
(***************************************************************************)
EXTENDS RvcFilter, TLC

CONSTANTS a, b, gone

MCSaves ==
  {[model |-> a, valid |-> TRUE, inference |-> 9, reserved |-> 6, initial |-> 100,
    maximum |-> 200],
   [model |-> b, valid |-> TRUE, inference |-> 1, reserved |-> -1, initial |-> 2500,
    maximum |-> 4000],
   [model |-> gone, valid |-> FALSE, inference |-> 4, reserved |-> 2, initial |-> 500,
    maximum |-> 400]}

\* No action looks at what torch was set up with, only whether it was, and it never
\* changes until it is dropped: states that differ in it have the same future. The
\* invariant about it is part of what is seen, so that a state that violates it is
\* not taken for one that does not.
Seen ==
  <<total, settings, saves, limits, dataVars, workerVars, runtime, snapshots,
    torch = NotSetUp, ReserveIsKept, pc, local, ghostVars>>

Threads == Permutations(Updaters)
=============================================================================
