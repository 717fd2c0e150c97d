----------------------- MODULE PluginLifecycleProofs -----------------------
(***************************************************************************)
(* The plugin's lifecycle is safe for any number of filters. TypeOK is     *)
(* inductive; given it, so is LifecycleInv, and the rest follows.          *)
(***************************************************************************)
EXTENDS PluginLifecycle, TLAPS

\* The main thread, nobody and the filters' threads are told apart as holders.
LEMMA HoldersDiffer ==
  Nobody # MainThread /\ \A f \in Filters : f # Nobody /\ f # MainThread
BY LifecycleAssumption DEF Nobody, MainThread

\* Every variable keeps its type, and the registry's mutex has the holder that is
\* in the middle of stop_all, of a late construction or of a destruction.
THEOREM TypeCorrect == Spec => []TypeOK
<1>1. Init => TypeOK
  BY HoldersDiffer DEF Init, TypeOK
<1>2. TypeOK /\ [Next]_vars => TypeOK'
  <2> SUFFICES ASSUME TypeOK, [Next]_vars PROVE TypeOK'
    OBVIOUS
  <2>1. CASE rvc_worker_start
    BY <2>1, HoldersDiffer DEF rvc_worker_start, Goto, registryVars, workerVars, TypeOK
  <2>2. CASE rvc_ipc_create
    BY <2>2, HoldersDiffer
       DEF rvc_ipc_create, AfterIpcFailure, Goto, registryVars, workerVars, TypeOK
  <2>3. CASE rvc_filter_register
    BY <2>3, HoldersDiffer DEF rvc_filter_register, Goto, registryVars, workerVars, TypeOK
  <2>4. CASE StopAll
    BY <2>4, HoldersDiffer DEF StopAll, StopAllHolder, Goto, workerVars, TypeOK
  <2>5. CASE JoinWorker
    BY <2>5, HoldersDiffer DEF JoinWorker, Joined, Goto, registryVars, workerVars, TypeOK
  <2>6. CASE StopAllDone
    <3>1. workers_mutex' = MainThread <=> main' \in {"stop_all", "joining"}
      BY <2>6, HoldersDiffer DEF StopAllDone, Goto, workerVars, TypeOK
    <3>2. ASSUME NEW g \in Filters
          PROVE  workers_mutex' = g <=> filter'[g] \in {"stopping_late", "destroying"}
      BY <2>6, HoldersDiffer DEF StopAllDone, Goto, workerVars, TypeOK
    <3> QED
      BY <2>6, <3>1, <3>2 DEF StopAllDone, Goto, workerVars, TypeOK
  <2>7. CASE ClearPointer
    BY <2>7, HoldersDiffer DEF ClearPointer, Goto, registryVars, workerVars, TypeOK
  <2>8. CASE rvc_ipc_destroy
    BY <2>8, HoldersDiffer DEF rvc_ipc_destroy, Goto, registryVars, workerVars, TypeOK
  <2>9. CASE rvc_worker_stop
    BY <2>9, HoldersDiffer DEF rvc_worker_stop, Goto, registryVars, workerVars, TypeOK
  <2>10. CASE wait_for_exit
    BY <2>10, HoldersDiffer
       DEF wait_for_exit, Killed, Goto, registryVars, workerVars, TypeOK
  <2>11. CASE ProcessExits
    BY <2>11, HoldersDiffer
       DEF ProcessExits, SetFilter, SetThread, moduleVars, registryVars, workerVars,
           Registered, TypeOK
  <2>12. ASSUME NEW f \in Filters, StopWorker(f) PROVE TypeOK'
    BY <2>12, HoldersDiffer DEF StopWorker, Goto, TypeOK
  <2>13. ASSUME NEW f \in Filters, Construct(f) PROVE TypeOK'
    BY <2>13, HoldersDiffer
       DEF Construct, SetFilter, SetThread, moduleVars, registryVars, Registered, TypeOK
  <2>14. ASSUME NEW f \in Filters, Update(f) PROVE TypeOK'
    BY <2>14, HoldersDiffer
       DEF Update, SetFilter, moduleVars, registryVars, workerVars, TypeOK
  <2>15. ASSUME NEW f \in Filters, Destroy(f) PROVE TypeOK'
    <3>1. workers_mutex' = MainThread <=> main' \in {"stop_all", "joining"}
      BY <2>15, HoldersDiffer DEF Destroy, SetFilter, moduleVars, TypeOK
    <3>2. ASSUME NEW g \in Filters
          PROVE  workers_mutex' = g <=> filter'[g] \in {"stopping_late", "destroying"}
      BY <2>15, HoldersDiffer DEF Destroy, SetFilter, moduleVars, TypeOK
    <3> QED
      BY <2>15, <3>1, <3>2 DEF Destroy, SetFilter, moduleVars, TypeOK
  <2>16. ASSUME NEW f \in Filters, Register(f) PROVE TypeOK'
    <3>1. workers_mutex' = MainThread <=> main' \in {"stop_all", "joining"}
      BY <2>16, HoldersDiffer DEF Register, Late, SetFilter, moduleVars, TypeOK
    <3>2. ASSUME NEW g \in Filters
          PROVE  workers_mutex' = g <=> filter'[g] \in {"stopping_late", "destroying"}
      BY <2>16, HoldersDiffer DEF Register, Late, SetFilter, moduleVars, TypeOK
    <3>3. /\ workers' \subseteq Filters
          /\ to_stop' \subseteq workers'
          /\ to_stop' # {} => main' \in {"stop_all", "joining"}
      BY <2>16 DEF Register, moduleVars, TypeOK
    <3>4. /\ filter' \in [Filters -> {"none", "constructing", "stopping_late", "created",
                                      "updating", "destroying", "destroyed"}]
          /\ stopping' \in [Filters -> BOOLEAN]
      <4>1. CASE Late
        BY <2>16, <4>1 DEF Register, SetFilter, TypeOK
      <4>2. CASE ~Late
        BY <2>16, <4>2 DEF Register, SetFilter, TypeOK
      <4> QED
        BY <4>1, <4>2
    <3>5. UNCHANGED <<main, process, ipc, g_ipc, workers_stopping, configured, thread>>
      BY <2>16 DEF Register, moduleVars
    <3> QED
      BY <3>1, <3>2, <3>3, <3>4, <3>5 DEF TypeOK
  <2>17. ASSUME NEW f \in Filters, JoinLate(f) PROVE TypeOK'
    <3>1. workers_mutex' = MainThread <=> main' \in {"stop_all", "joining"}
      BY <2>17, HoldersDiffer
         DEF JoinLate, Joined, SetFilter, moduleVars, workerVars, TypeOK
    <3>2. ASSUME NEW g \in Filters
          PROVE  workers_mutex' = g <=> filter'[g] \in {"stopping_late", "destroying"}
      BY <2>17, HoldersDiffer
         DEF JoinLate, Joined, SetFilter, moduleVars, workerVars, TypeOK
    <3> QED
      BY <2>17, <3>1, <3>2 DEF JoinLate, Joined, SetFilter, moduleVars, workerVars, TypeOK
  <2>18. ASSUME NEW f \in Filters, Updated(f) PROVE TypeOK'
    BY <2>18, HoldersDiffer DEF Updated, SetFilter, moduleVars, registryVars, TypeOK
  <2>19. ASSUME NEW f \in Filters, Destroyed(f) PROVE TypeOK'
    <3>1. workers_mutex' = MainThread <=> main' \in {"stop_all", "joining"}
      BY <2>19, HoldersDiffer
         DEF Destroyed, Joined, Erased, SetFilter, SetThread, moduleVars, registryVars,
             workerVars, TypeOK
    <3>2. ASSUME NEW g \in Filters
          PROVE  workers_mutex' = g <=> filter'[g] \in {"stopping_late", "destroying"}
      BY <2>19, HoldersDiffer
         DEF Destroyed, Joined, Erased, SetFilter, SetThread, moduleVars, registryVars,
             workerVars, TypeOK
    <3> QED
      BY <2>19, <3>1, <3>2
         DEF Destroyed, Joined, Erased, SetFilter, SetThread, moduleVars, registryVars,
             workerVars, TypeOK
  <2>20. ASSUME NEW f \in Filters, Exchange(f) PROVE TypeOK'
    BY <2>20, HoldersDiffer DEF Exchange, SetThread, moduleVars, registryVars, TypeOK
  <2>21. ASSUME NEW f \in Filters, ExchangeEnds(f) PROVE TypeOK'
    BY <2>21, HoldersDiffer DEF ExchangeEnds, SetThread, moduleVars, registryVars, TypeOK
  <2>22. ASSUME NEW f \in Filters, ThreadEnds(f) PROVE TypeOK'
    BY <2>22, HoldersDiffer
       DEF ThreadEnds, SeesStop, SetThread, moduleVars, registryVars, TypeOK
  <2>23. CASE UNCHANGED vars
    BY <2>23 DEF vars, moduleVars, registryVars, workerVars, TypeOK
  <2> QED
    BY <2>1, <2>2, <2>3, <2>4, <2>5, <2>6, <2>7, <2>8, <2>9, <2>10, <2>11, <2>12, <2>13, <2>14, <2>15, <2>16, <2>17, <2>18, <2>19, <2>20, <2>21, <2>22, <2>23
       DEF Next, Load, Unload, FilterCallback, FilterReturns, ConversionThread
<1> QED
  BY <1>1, <1>2, PTL DEF Spec

\* The invariant that relates the unload, the registry and the threads.
THEOREM LifecycleIsConsistent == Spec => []LifecycleInv
<1>1. Init => LifecycleInv
  BY DEF Init, LifecycleInv, LoadOrder, RegistryIsExact, StoppedBehind, NotRegistered
<1>2. TypeOK /\ LifecycleInv /\ [Next]_vars => LifecycleInv'
  <2> SUFFICES ASSUME TypeOK, LifecycleInv, [Next]_vars PROVE LifecycleInv'
    OBVIOUS
  <2>1. CASE rvc_worker_start
    BY <2>1, HoldersDiffer
       DEF rvc_worker_start, Goto, registryVars, workerVars, TypeOK, LifecycleInv,
           LoadOrder, RegistryIsExact, StoppedBehind, NotRegistered
  <2>2. CASE rvc_ipc_create
    BY <2>2, HoldersDiffer
       DEF rvc_ipc_create, AfterIpcFailure, Goto, registryVars, workerVars, TypeOK,
           LifecycleInv, LoadOrder, RegistryIsExact, StoppedBehind, NotRegistered
  <2>3. CASE rvc_filter_register
    BY <2>3, HoldersDiffer
       DEF rvc_filter_register, Goto, registryVars, workerVars, TypeOK, LifecycleInv,
           LoadOrder, RegistryIsExact, StoppedBehind, NotRegistered
  <2>4. CASE StopAll
    BY <2>4, HoldersDiffer
       DEF StopAll, StopAllHolder, Goto, workerVars, TypeOK, LifecycleInv, LoadOrder,
           RegistryIsExact, StoppedBehind, NotRegistered
  <2>5. CASE JoinWorker
    BY <2>5, HoldersDiffer
       DEF JoinWorker, Joined, Goto, registryVars, workerVars, TypeOK, LifecycleInv,
           LoadOrder, RegistryIsExact, StoppedBehind, NotRegistered
  <2>6. CASE StopAllDone
    BY <2>6, HoldersDiffer
       DEF StopAllDone, Goto, workerVars, TypeOK, LifecycleInv, LoadOrder, RegistryIsExact,
           StoppedBehind, NotRegistered
  <2>7. CASE ClearPointer
    BY <2>7, HoldersDiffer
       DEF ClearPointer, Goto, registryVars, workerVars, TypeOK, LifecycleInv, LoadOrder,
           RegistryIsExact, StoppedBehind, NotRegistered
  <2>8. CASE rvc_ipc_destroy
    BY <2>8, HoldersDiffer
       DEF rvc_ipc_destroy, Goto, registryVars, workerVars, TypeOK, LifecycleInv, LoadOrder,
           RegistryIsExact, StoppedBehind, NotRegistered
  <2>9. CASE rvc_worker_stop
    BY <2>9, HoldersDiffer
       DEF rvc_worker_stop, Goto, registryVars, workerVars, TypeOK, LifecycleInv, LoadOrder,
           RegistryIsExact, StoppedBehind, NotRegistered
  <2>10. CASE wait_for_exit
    BY <2>10, HoldersDiffer
       DEF wait_for_exit, Killed, Goto, registryVars, workerVars, TypeOK, LifecycleInv,
           LoadOrder, RegistryIsExact, StoppedBehind, NotRegistered
  <2>11. CASE ProcessExits
    BY <2>11, HoldersDiffer
       DEF ProcessExits, SetFilter, SetThread, moduleVars, registryVars, workerVars,
           Registered, TypeOK, LifecycleInv, LoadOrder, RegistryIsExact, StoppedBehind,
           NotRegistered
  <2>12. ASSUME NEW f \in Filters, StopWorker(f) PROVE LifecycleInv'
    BY <2>12, HoldersDiffer
       DEF StopWorker, Goto, TypeOK, LifecycleInv, LoadOrder, RegistryIsExact,
           StoppedBehind, NotRegistered
  <2>13. ASSUME NEW f \in Filters, Construct(f) PROVE LifecycleInv'
    BY <2>13, HoldersDiffer
       DEF Construct, SetFilter, SetThread, moduleVars, registryVars, Registered, TypeOK,
           LifecycleInv, LoadOrder, RegistryIsExact, StoppedBehind, NotRegistered
  <2>14. ASSUME NEW f \in Filters, Update(f) PROVE LifecycleInv'
    BY <2>14, HoldersDiffer
       DEF Update, SetFilter, moduleVars, registryVars, workerVars, TypeOK, LifecycleInv,
           LoadOrder, RegistryIsExact, StoppedBehind, NotRegistered
  <2>15. ASSUME NEW f \in Filters, Destroy(f) PROVE LifecycleInv'
    BY <2>15, HoldersDiffer
       DEF Destroy, SetFilter, moduleVars, TypeOK, LifecycleInv, LoadOrder, RegistryIsExact,
           StoppedBehind, NotRegistered
  <2>16. ASSUME NEW f \in Filters, Register(f) PROVE LifecycleInv'
    BY <2>16, HoldersDiffer
       DEF Register, Late, SetFilter, moduleVars, TypeOK, LifecycleInv, LoadOrder,
           RegistryIsExact, StoppedBehind, NotRegistered
  <2>17. ASSUME NEW f \in Filters, JoinLate(f) PROVE LifecycleInv'
    BY <2>17, HoldersDiffer
       DEF JoinLate, Joined, SetFilter, moduleVars, workerVars, TypeOK, LifecycleInv,
           LoadOrder, RegistryIsExact, StoppedBehind, NotRegistered
  <2>18. ASSUME NEW f \in Filters, Updated(f) PROVE LifecycleInv'
    BY <2>18, HoldersDiffer
       DEF Updated, SetFilter, moduleVars, registryVars, TypeOK, LifecycleInv, LoadOrder,
           RegistryIsExact, StoppedBehind, NotRegistered
  <2>19. ASSUME NEW f \in Filters, Destroyed(f) PROVE LifecycleInv'
    BY <2>19, HoldersDiffer
       DEF Destroyed, Joined, Erased, SetFilter, SetThread, moduleVars, registryVars,
           workerVars, TypeOK, LifecycleInv, LoadOrder, RegistryIsExact, StoppedBehind,
           NotRegistered
  <2>20. ASSUME NEW f \in Filters, Exchange(f) PROVE LifecycleInv'
    BY <2>20, HoldersDiffer
       DEF Exchange, SetThread, moduleVars, registryVars, TypeOK, LifecycleInv, LoadOrder,
           RegistryIsExact, StoppedBehind, NotRegistered
  <2>21. ASSUME NEW f \in Filters, ExchangeEnds(f) PROVE LifecycleInv'
    BY <2>21, HoldersDiffer
       DEF ExchangeEnds, SetThread, moduleVars, registryVars, TypeOK, LifecycleInv,
           LoadOrder, RegistryIsExact, StoppedBehind, NotRegistered
  <2>22. ASSUME NEW f \in Filters, ThreadEnds(f) PROVE LifecycleInv'
    BY <2>22, HoldersDiffer
       DEF ThreadEnds, SeesStop, SetThread, moduleVars, registryVars, TypeOK, LifecycleInv,
           LoadOrder, RegistryIsExact, StoppedBehind, NotRegistered
  <2>23. CASE UNCHANGED vars
    BY <2>23
       DEF vars, moduleVars, registryVars, workerVars, TypeOK, LifecycleInv, LoadOrder,
           RegistryIsExact, StoppedBehind, NotRegistered
  <2> QED
    BY <2>1, <2>2, <2>3, <2>4, <2>5, <2>6, <2>7, <2>8, <2>9, <2>10, <2>11, <2>12, <2>13, <2>14, <2>15, <2>16, <2>17, <2>18, <2>19, <2>20, <2>21, <2>22, <2>23
       DEF Next, Load, Unload, FilterCallback, FilterReturns, ConversionThread
<1> QED
  BY <1>1, <1>2, TypeCorrect, PTL DEF Spec
-----------------------------------------------------------------------------
\* An exchange never uses a context that was destroyed: after stop_all every worker
\* of the registry is done, or too late to have been configured.
THEOREM ContextOutlivesExchanges == Spec => []IpcOutlivesExchange
<1>1. TypeOK /\ LifecycleInv => IpcOutlivesExchange
  <2> SUFFICES ASSUME TypeOK, LifecycleInv, NEW f \in Filters, thread[f] = "exchanging"
               PROVE  ipc = "alive"
    BY DEF IpcOutlivesExchange
  <2>1. ~NotRegistered(filter[f]) /\ f \in workers /\ filter[f] # "stopping_late"
    BY DEF LifecycleInv, RegistryIsExact, NotRegistered, TypeOK
  <2>2. main \in {"loaded", "stop_all", "joining"}
    BY <2>1 DEF LifecycleInv, LoadOrder, StoppedBehind, NotRegistered, TypeOK
  <2> QED
    BY <2>2 DEF LifecycleInv, LoadOrder
<1> QED
  BY <1>1, TypeCorrect, LifecycleIsConsistent, PTL

\* stop_all never reaches a worker that was destroyed.
THEOREM RegistryStaysAlive == Spec => []RegistryIsAlive
<1>1. TypeOK /\ LifecycleInv => RegistryIsAlive
  BY DEF TypeOK, LifecycleInv, RegistryIsExact, NotRegistered, RegistryIsAlive
<1> QED
  BY <1>1, TypeCorrect, LifecycleIsConsistent, PTL

\* The thread of a worker that was destroyed is done.
THEOREM WorkersOutliveThreads == Spec => []WorkerOutlivesThread
<1>1. LifecycleInv => WorkerOutlivesThread
  BY DEF LifecycleInv, RegistryIsExact, WorkerOutlivesThread
<1> QED
  BY <1>1, LifecycleIsConsistent, PTL

\* No worker process is left behind by a load that failed or by an unload.
THEOREM NoProcessIsLeft == Spec => []ProcessEndsWithModule
<1>1. Init => ProcessEndsWithModule
  BY DEF Init, ProcessEndsWithModule
<1>2. ProcessEndsWithModule /\ [Next]_vars => ProcessEndsWithModule'
  <2> SUFFICES ASSUME ProcessEndsWithModule, [Next]_vars PROVE ProcessEndsWithModule'
    OBVIOUS
  <2>1. CASE Load
    BY <2>1
       DEF Load, rvc_worker_start, rvc_ipc_create, AfterIpcFailure, rvc_filter_register,
                Goto, ProcessEndsWithModule
  <2>2. CASE StopAll
    BY <2>2 DEF StopAll, Goto, ProcessEndsWithModule
  <2>3. CASE Unload
    BY <2>3 DEF Unload, StopWorker, JoinWorker, StopAllDone, ClearPointer, rvc_ipc_destroy,
                rvc_worker_stop, wait_for_exit, Killed, Goto, ProcessEndsWithModule
  <2>4. CASE ProcessExits
    BY <2>4 DEF ProcessExits, ProcessEndsWithModule
  <2>5. ASSUME NEW f \in Filters, FilterCallback(f) \/ FilterReturns(f) \/ ConversionThread(f)
        PROVE  UNCHANGED <<main, process>>
    BY <2>5
       DEF FilterCallback, Construct, Update, Destroy, FilterReturns, Register, JoinLate,
                Updated, Destroyed, ConversionThread, Exchange, ExchangeEnds, ThreadEnds, moduleVars
  <2>6. CASE UNCHANGED vars
    BY <2>6 DEF vars, moduleVars, ProcessEndsWithModule
  <2> QED
    BY <2>1, <2>2, <2>3, <2>4, <2>5, <2>6 DEF Next, ProcessEndsWithModule
<1> QED
  BY <1>1, <1>2, PTL DEF Spec
=============================================================================
