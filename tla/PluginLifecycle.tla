-------------------------- MODULE PluginLifecycle --------------------------
(***************************************************************************)
(* The plugin from load to unload: the main thread that loads and unloads  *)
(* the module, the filters that OBS creates, updates and destroys, the     *)
(* registry of their conversion workers, and what these share: the IPC     *)
(* context, the pointer g_ipc to it and the worker process.                *)
(*                                                                         *)
(* OBS is external. Each filter is used by one thread at a time, but the   *)
(* filters' threads and the main thread are independent: a filter may be   *)
(* under construction while the module is unloaded, and may be destroyed   *)
(* after it. A worker's own rules are those of ConversionWorker; all that  *)
(* matters here is whether its thread waits, is in an exchange or is done. *)
(***************************************************************************)
EXTENDS FiniteSets

CONSTANT Filters    \* the filters that OBS creates

Nobody == "nobody"
MainThread == "main"

ASSUME LifecycleAssumption == IsFiniteSet(Filters) /\ {Nobody, MainThread} \cap Filters = {}

VARIABLES
  main,             \* where obs_module_load or obs_module_unload is
  process,          \* the worker process
  ipc,              \* the IPC context
  g_ipc,            \* is the filters' pointer to it set?
  workers_mutex,    \* who holds it: a filter's thread, the main thread, nobody
  workers,          \* the registry
  workers_stopping,
  to_stop,          \* the workers that the loop of stop_all has still to stop
  filter,           \* where each filter is between construction and destruction
  configured,       \* of the filter's ConversionWorker
  stopping,         \* of the filter's ConversionWorker
  thread            \* its conversion thread

moduleVars == <<main, process, ipc, g_ipc>>
registryVars == <<workers_mutex, workers, workers_stopping, to_stop>>
workerVars == <<configured, stopping, thread>>
vars == <<moduleVars, registryVars, filter, workerVars>>

Init ==
  /\ main = "unloaded"
  /\ process = "none"
  /\ ipc = "none"
  /\ g_ipc = FALSE
  /\ workers_mutex = Nobody
  /\ workers = {}
  /\ workers_stopping = FALSE
  /\ to_stop = {}
  /\ filter = [f \in Filters |-> "none"]
  /\ configured = [f \in Filters |-> FALSE]
  /\ stopping = [f \in Filters |-> FALSE]
  /\ thread = [f \in Filters |-> "none"]

Goto(label) == main' = label
SetFilter(f, state) == filter' = [filter EXCEPT ![f] = state]
SetThread(f, state) == thread' = [thread EXCEPT ![f] = state]
-----------------------------------------------------------------------------
\* obs_module_load: start the worker process, ...
rvc_worker_start ==
  /\ main = "unloaded"
  /\ process = "none"
  /\ \/ process' = "running" /\ Goto("started")
     \/ Goto("failed") /\ UNCHANGED process
  /\ UNCHANGED <<ipc, g_ipc, registryVars, filter, workerVars>>

\* Mutant: the worker process is left alone when the rest of the load fails.
AfterIpcFailureKept == "failed"

AfterIpcFailure == "load_stop"

\* ... create the IPC context, or stop the process again, ...
rvc_ipc_create ==
  /\ main = "started"
  /\ \/ ipc' = "alive" /\ Goto("connected")
     \/ Goto(AfterIpcFailure) /\ UNCHANGED ipc
  /\ UNCHANGED <<process, g_ipc, registryVars, filter, workerVars>>

\* ... and register the filter.
rvc_filter_register ==
  /\ main = "connected"
  /\ g_ipc' = TRUE
  /\ Goto("loaded")
  /\ UNCHANGED <<process, ipc, registryVars, filter, workerVars>>

\* OBS may create filters between the registration and the end of the unload.
Registered == main \in {"loaded", "stop_all", "joining", "stopped", "shut_down",
                        "unload_stop", "unload_term"}
-----------------------------------------------------------------------------
\* Mutant: stop_all goes through the registry without its mutex.
StopAllUnlocked == Nobody

\* The mutex while stop_all is at work.
StopAllHolder == MainThread

\* obs_module_unload: stop_all takes the registry's mutex, ...
StopAll ==
  /\ main = "loaded"
  /\ workers_mutex = Nobody
  /\ workers_mutex' = StopAllHolder
  /\ workers_stopping' = TRUE
  /\ to_stop' = workers
  /\ Goto("stop_all")
  /\ UNCHANGED <<process, ipc, g_ipc, workers, filter, workerVars>>

\* ... flags one worker after the other ...
StopWorker(f) ==
  /\ main = "stop_all"
  /\ f \in to_stop
  /\ stopping' = [stopping EXCEPT ![f] = TRUE]
  /\ to_stop' = to_stop \ {f}
  /\ Goto("joining")
  /\ UNCHANGED <<process, ipc, g_ipc, workers_mutex, workers, workers_stopping, filter,
                 configured, thread>>

\* Mutant: a worker is stopped without joining its thread.
JoinedAtOnce(f) == TRUE

\* thread.joinable() is false, or join returns.
Joined(f) == thread[f] = "done"

\* ... and joins its thread before it goes on to the next.
JoinWorker ==
  /\ main = "joining"
  /\ \A f \in workers : stopping[f] => Joined(f)
  /\ Goto("stop_all")
  /\ UNCHANGED <<process, ipc, g_ipc, registryVars, filter, workerVars>>

StopAllDone ==
  /\ main = "stop_all"
  /\ to_stop = {}
  /\ workers_mutex' = Nobody
  /\ Goto("stopped")
  /\ UNCHANGED <<process, ipc, g_ipc, workers, workers_stopping, to_stop, filter,
                 workerVars>>

\* rvc_filter_shutdown ends by clearing the pointer, ...
ClearPointer ==
  /\ main = "stopped"
  /\ g_ipc' = FALSE
  /\ Goto("shut_down")
  /\ UNCHANGED <<process, ipc, registryVars, filter, workerVars>>

\* ... the context is destroyed, ...
rvc_ipc_destroy ==
  /\ main = "shut_down"
  /\ ipc' = "destroyed"
  /\ Goto("unload_stop")
  /\ UNCHANGED <<process, g_ipc, registryVars, filter, workerVars>>

\* ... and the process is told to terminate, ...
rvc_worker_stop ==
  /\ main \in {"load_stop", "unload_stop"}
  /\ process' = IF process = "running" THEN "terminating" ELSE process
  /\ Goto(IF main = "load_stop" THEN "load_term" ELSE "unload_term")
  /\ UNCHANGED <<ipc, g_ipc, registryVars, filter, workerVars>>

\* Mutant: the process is not killed when it does not terminate in time.
KilledNever == process

Killed == "exited"

\* ... waited for, and killed if it takes too long.
wait_for_exit ==
  /\ main \in {"load_term", "unload_term"}
  /\ \/ process = "exited" /\ UNCHANGED process
     \/ process # "exited" /\ process' = Killed
  /\ Goto(IF main = "load_term" THEN "failed" ELSE "ended")
  /\ UNCHANGED <<ipc, g_ipc, registryVars, filter, workerVars>>

\* The worker process exits by itself: when it was told to, or because it fails.
ProcessExits ==
  /\ process \in {"running", "terminating"}
  /\ process' = "exited"
  /\ UNCHANGED <<main, ipc, g_ipc, registryVars, filter, workerVars>>
-----------------------------------------------------------------------------
\* rvc_filter_create: the ConversionWorker's thread starts first, ...
Construct(f) ==
  /\ Registered
  /\ filter[f] = "none"
  /\ SetFilter(f, "constructing")
  /\ SetThread(f, "waiting")
  /\ UNCHANGED <<moduleVars, registryVars, configured, stopping>>

\* Mutant: the constructor does not look whether the plugin shuts down.
LateNever == FALSE

Late == workers_stopping

\* ... then the worker is registered, and stopped at once if it comes too late.
Register(f) ==
  /\ filter[f] = "constructing"
  /\ workers_mutex = Nobody
  /\ workers' = workers \cup {f}
  /\ IF Late
     THEN /\ workers_mutex' = f
          /\ stopping' = [stopping EXCEPT ![f] = TRUE]
          /\ SetFilter(f, "stopping_late")
     ELSE /\ SetFilter(f, "created")
          /\ UNCHANGED <<workers_mutex, stopping>>
  /\ UNCHANGED <<moduleVars, workers_stopping, to_stop, configured, thread>>

JoinLate(f) ==
  /\ filter[f] = "stopping_late"
  /\ Joined(f)
  /\ workers_mutex' = Nobody
  /\ SetFilter(f, "created")
  /\ UNCHANGED <<moduleVars, workers, workers_stopping, to_stop, workerVars>>

\* rvc_filter_update: nothing without g_ipc, else an exchange of settings ...
Update(f) ==
  /\ filter[f] = "created"
  /\ g_ipc
  /\ SetFilter(f, "updating")
  /\ UNCHANGED <<moduleVars, registryVars, workerVars>>

\* ... that fails, or ends in a reset of the worker, unless that is stopping.
Updated(f) ==
  /\ filter[f] = "updating"
  /\ SetFilter(f, "created")
  /\ \/ configured' = [configured EXCEPT ![f] = @ \/ ~stopping[f]]
     \/ UNCHANGED configured
  /\ UNCHANGED <<moduleVars, registryVars, stopping, thread>>

\* ~ConversionWorker: stop and join under the registry's mutex, ...
Destroy(f) ==
  /\ filter[f] = "created"
  /\ workers_mutex = Nobody
  /\ workers_mutex' = f
  /\ stopping' = [stopping EXCEPT ![f] = TRUE]
  /\ SetFilter(f, "destroying")
  /\ UNCHANGED <<moduleVars, workers, workers_stopping, to_stop, configured, thread>>

\* Mutant: the destructor leaves the worker in the registry.
ErasedNever(f) == workers

Erased(f) == workers \ {f}

\* ... then leave the registry. The memory of the worker is gone.
Destroyed(f) ==
  /\ filter[f] = "destroying"
  /\ Joined(f)
  /\ workers' = Erased(f)
  /\ workers_mutex' = Nobody
  /\ SetFilter(f, "destroyed")
  /\ UNCHANGED <<moduleVars, workers_stopping, to_stop, workerVars>>
-----------------------------------------------------------------------------
\* Impl::run: an exchange begins when there is work, which takes a configuration,
\* and ends with an answer or a timeout; the flag is seen only at the wait.
Exchange(f) ==
  /\ thread[f] = "waiting"
  /\ configured[f]
  /\ ~stopping[f]
  /\ SetThread(f, "exchanging")
  /\ UNCHANGED <<moduleVars, registryVars, filter, configured, stopping>>

ExchangeEnds(f) ==
  /\ thread[f] = "exchanging"
  /\ SetThread(f, "waiting")
  /\ UNCHANGED <<moduleVars, registryVars, filter, configured, stopping>>

\* Mutant: the wait asks first whether the worker is configured.
SeesStopConfigured(f) == configured[f] /\ stopping[f]

SeesStop(f) == stopping[f]

ThreadEnds(f) ==
  /\ thread[f] = "waiting"
  /\ SeesStop(f)
  /\ SetThread(f, "done")
  /\ UNCHANGED <<moduleVars, registryVars, filter, configured, stopping>>
-----------------------------------------------------------------------------
Load == rvc_worker_start \/ rvc_ipc_create \/ rvc_filter_register

Unload ==
  \/ \E f \in Filters : StopWorker(f)
  \/ JoinWorker
  \/ StopAllDone
  \/ ClearPointer
  \/ rvc_ipc_destroy
  \/ rvc_worker_stop
  \/ wait_for_exit

FilterCallback(f) ==
  \/ Construct(f)
  \/ Update(f)
  \/ Destroy(f)

\* What a callback still has to do before it returns.
FilterReturns(f) ==
  \/ Register(f)
  \/ JoinLate(f)
  \/ Updated(f)
  \/ Destroyed(f)

ConversionThread(f) == Exchange(f) \/ ExchangeEnds(f) \/ ThreadEnds(f)

Next ==
  \/ Load
  \/ StopAll
  \/ Unload
  \/ ProcessExits
  \/ \E f \in Filters :
       FilterCallback(f) \/ FilterReturns(f) \/ ConversionThread(f)

Spec == Init /\ [][Next]_vars

\* What runs goes on: the unload once it has begun, callbacks that were called,
\* threads, exchanges (by their timeout). OBS need not call anything. A worker
\* is created once, so that the mutex is not taken for ever by others.
Fairness ==
  /\ WF_vars(Unload)
  /\ \A f \in Filters : WF_vars(FilterReturns(f)) /\ WF_vars(ConversionThread(f))

FairSpec == Spec /\ Fairness
-----------------------------------------------------------------------------
\* Every variable has its type, and the mutex is held by one who is in a critical
\* section that blocks while it is held. Only stop_all has workers to stop.
TypeOK ==
  /\ main \in {"unloaded", "started", "connected", "loaded", "failed", "load_stop",
               "load_term", "stop_all", "joining", "stopped", "shut_down",
               "unload_stop", "unload_term", "ended"}
  /\ process \in {"none", "running", "terminating", "exited"}
  /\ ipc \in {"none", "alive", "destroyed"}
  /\ g_ipc \in BOOLEAN
  /\ workers \subseteq Filters
  /\ workers_stopping \in BOOLEAN
  /\ to_stop \subseteq workers
  /\ to_stop # {} => main \in {"stop_all", "joining"}
  /\ filter \in [Filters -> {"none", "constructing", "stopping_late", "created",
                             "updating", "destroying", "destroyed"}]
  /\ configured \in [Filters -> BOOLEAN]
  /\ stopping \in [Filters -> BOOLEAN]
  /\ thread \in [Filters -> {"none", "waiting", "exchanging", "done"}]
  /\ workers_mutex = MainThread <=> main \in {"stop_all", "joining"}
  /\ \A f \in Filters :
       workers_mutex = f <=> filter[f] \in {"stopping_late", "destroying"}

\* No conversion thread is in an exchange once the IPC context is destroyed, not
\* even that of a filter whose construction or update the unload has overtaken.
IpcOutlivesExchange == \A f \in Filters : thread[f] = "exchanging" => ipc = "alive"

\* The registry never holds a worker that is not there, so stop_all never reaches
\* one that was destroyed, whatever it waits for in between.
RegistryIsAlive ==
  \A f \in workers : filter[f] \notin {"none", "constructing", "destroyed"}

\* A worker's memory outlives its thread.
WorkerOutlivesThread == \A f \in Filters : filter[f] = "destroyed" => thread[f] = "done"

\* A module that failed to load or was unloaded leaves no worker process behind.
ProcessEndsWithModule == main \in {"failed", "ended"} => process \in {"none", "exited"}

\* What makes the invariants above inductive. Before the filter is registered there
\* is none; g_ipc is set, and the context there, for as long as it takes.
NotRegistered(state) == state \in {"none", "constructing", "destroyed"}
LoadOrder ==
  /\ main \in {"unloaded", "started", "failed", "load_stop", "load_term", "connected"}
       => \A f \in Filters : filter[f] = "none"
  /\ main \in {"connected", "loaded", "stop_all", "joining", "stopped", "shut_down"}
       => ipc = "alive"
  /\ g_ipc => main \in {"loaded", "stop_all", "joining", "stopped"}

\* The registry is exact, and a worker that is not in it has no configuration to
\* work with or no thread to do so.
RegistryIsExact ==
  \A f \in Filters :
    /\ f \in workers <=> ~NotRegistered(filter[f])
    /\ filter[f] \in {"none", "constructing", "stopping_late"} => ~configured[f]
    /\ filter[f] \in {"none", "constructing"} => ~stopping[f]
    /\ filter[f] = "none" => thread[f] = "none"
    /\ filter[f] \in {"constructing", "stopping_late"} => thread[f] # "exchanging"
    /\ filter[f] = "destroyed" => thread[f] = "done"

\* stop_all leaves no worker unstopped behind it, and none joins the registry
\* afterwards that could begin an exchange.
StoppedBehind ==
  /\ main \in {"stop_all", "joining"} =>
       /\ workers_stopping
       /\ \A f \in workers \ to_stop : stopping[f]
  /\ main = "stop_all" => \A f \in workers \ to_stop : thread[f] = "done"
  /\ main \in {"stopped", "shut_down", "unload_stop", "unload_term", "ended"} =>
       /\ workers_stopping
       /\ \A f \in workers :
            stopping[f] /\ (thread[f] = "done" \/ filter[f] = "stopping_late")

\* The invariant by which the others are proved.
LifecycleInv == LoadOrder /\ RegistryIsExact /\ StoppedBehind

\* Unloading ends, whoever holds the registry's mutex and whatever the conversion
\* threads that it joins are doing.
UnloadEnds == main = "stop_all" ~> main = "ended"
============================================================================
