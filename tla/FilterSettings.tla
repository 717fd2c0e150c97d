--------------------------- MODULE FilterSettings ---------------------------
(***************************************************************************)
(* The arithmetic of the filter's settings: how many CPU threads there are *)
(* to share between OBS and inference, as the filter and the worker        *)
(* process count them, how the dialog and a save bring both shares into    *)
(* range, what the worker process makes of them, and the block durations.  *)
(***************************************************************************)
EXTENDS Integers

CONSTANT
  HalfRange         \* 2^31 in the build: how many values an int32_t has from 0 on

ASSUME HalfRangeAssumption == HalfRange \in Nat /\ HalfRange > 2000

INT_MAX == HalfRange - 1

\* std::min, std::max, and std::clamp, which is undefined unless low <= high.
Least(a, b)    == IF a <= b THEN a ELSE b
Greatest(a, b) == IF a >= b THEN a ELSE b
Clamp(x, low, high) == IF x < low THEN low ELSE IF x > high THEN high ELSE x

\* static_cast<int32_t> of an int64_t.
Int32(x) == ((x + HalfRange) % (2 * HalfRange)) - HalfRange
-----------------------------------------------------------------------------
\* What the system says about CPUs: hardware threads and the affinity mask, 0 if
\* unknown, and the quotas of both versions of cgroups.
Quotas == [file : {"absent", "max", "set"}, quota : Int, period : Int]
Systems == [hardware : Nat, affinity : Nat, v2 : Quotas, v1 : Quotas]

\* Hardware threads that the affinity mask allows.
Allowed(system) ==
  LET hardware == Greatest(1, system.hardware)
  IN  IF system.affinity > 0 THEN Least(hardware, system.affinity) ELSE hardware

\* Whole CPUs of a quota, at least one.
QuotaCpus(q) == Greatest(1, (q.quota + q.period - 1) \div q.period)

Limited(available, q) ==
  IF q.file = "set" /\ q.quota > 0 /\ q.period > 0 THEN Least(available, QuotaCpus(q))
  ELSE available

\* available_cpu_count of the filter: version 1 counts unless version 2 is set.
available_cpu_count(system) ==
  Clamp(Limited(Allowed(system),
                IF system.v2.file = "set" /\ system.v2.period > 0 THEN system.v2
                ELSE system.v1), 1, 256)

\* available_cpu_count of the worker process: version 1 counts unless version 2
\* can be read, "max" included. A quota of version 2 is not asked to be positive.
worker_cpu_count(system) ==
  LET v2 == system.v2
  IN  Clamp(IF v2.file = "max" THEN Allowed(system)
            ELSE IF v2.file = "set" /\ v2.period # 0
                 THEN Least(Allowed(system), QuotaCpus(v2))
            ELSE Limited(Allowed(system), system.v1), 1, 256)
-----------------------------------------------------------------------------
\* How threads are shared: those of inference, and those reserved for OBS.
Shares == [inference : Int, reserved : Int]

\* rvc_filter_defaults.
DefaultShares(total) ==
  LET reserved == IF total >= 4 THEN Greatest(1, total \div 8) ELSE 0
  IN  [inference |-> Greatest(1, Least(8, total - Clamp(reserved, 0, total - 1))),
       reserved |-> reserved]

\* Mutant: the other share is left as it is.
EditedAlone(shares, edited, total) ==
  IF edited = "inference"
  THEN [shares EXCEPT !.inference = Clamp(Int32(shares.inference), 1, total)]
  ELSE [shares EXCEPT !.reserved = Clamp(Int32(shares.reserved), 0, total - 1)]

\* cpu_thread_allocation_modified: the share that was edited keeps its value, as
\* far as there are threads, and the other one makes room.
Edited(shares, edited, total) ==
  LET inference == Int32(shares.inference)
      reserved  == Int32(shares.reserved)
      first     == IF edited = "inference" THEN Clamp(inference, 1, total)
                   ELSE Clamp(reserved, 0, total - 1)
  IN  IF edited = "inference"
      THEN [inference |-> first, reserved |-> Clamp(reserved, 0, total - first)]
      ELSE [inference |-> Clamp(inference, 1, total - first), reserved |-> first]

\* The limits it then sets on both properties.
EditedLimits(shares, total) ==
  [inference |-> total - shares.reserved, reserved |-> total - shares.inference]

\* Mutant: the threads for OBS are not taken off.
SavedSharesUnreserved(shares, total) ==
  [inference |-> Clamp(shares.inference, 1, total),
   reserved |-> Clamp(shares.reserved, 0, total - 1)]

\* rvc_filter_update: OBS comes first, inference gets at most the rest.
SavedShares(shares, total) ==
  LET reserved == Clamp(shares.reserved, 0, total - 1)
  IN  [inference |-> Clamp(shares.inference, 1, total - reserved), reserved |-> reserved]

\* Runtime.configure.
ConfiguredShares(shares) ==
  [inference |-> Greatest(1, Least(256, shares.inference)),
   reserved |-> Greatest(0, Least(256, shares.reserved))]

\* configure_torch: the threads inference gets of the CPUs the worker process sees.
EffectiveThreads(shares, cpus) ==
  LET limit == Greatest(1, cpus - Greatest(0, Least(cpus - 1, shares.reserved)))
  IN  Least(Greatest(1, Least(256, shares.inference)), limit)

\* What makes shares right: inference has a thread, and no thread is given twice.
Fit(shares, total) ==
  /\ shares.inference >= 1
  /\ shares.reserved >= 0
  /\ shares.inference + shares.reserved <= total
-----------------------------------------------------------------------------
\* rvc_filter_update: what is saved as the initial and the maximum duration of a
\* block. A value beyond the range of the property is replaced by the default.
SavedDurations(durations) ==
  LET initial == IF durations.initial > 2000 THEN 250
                 ELSE Clamp(durations.initial, 250, 2000)
  IN  [initial |-> initial, maximum |-> Clamp(durations.maximum, initial, INT_MAX)]
=============================================================================
