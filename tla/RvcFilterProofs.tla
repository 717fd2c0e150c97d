-------------------------- MODULE RvcFilterProofs --------------------------
(***************************************************************************)
(* Whatever was saved, edited or counted: the shares of CPU threads that   *)
(* come out fit the machine, and the durations are those ConversionWorker  *)
(* is built for. For every number, and every width of an int.              *)
(*                                                                         *)
(* The filter's updates are safe for any number of threads that save, any  *)
(* settings, any machine. Types is inductive; given it, so are Requests    *)
(* (what an update computed and what the worker process has), Blocks (what *)
(* the conversion thread holds), and Durations and LastSave (what the      *)
(* settings and an update at work have is what was saved last).            *)
(***************************************************************************)
EXTENDS RvcFilter, TLAPS

\* A narrowed integer is an integer, in range.
LEMMA Int32InRange ==
  ASSUME NEW x \in Int
  PROVE  Int32(x) \in -HalfRange .. INT_MAX
<1> DEFINE width == 2 * HalfRange
<1>1. width \in Nat \ {0} /\ x + HalfRange \in Int
  BY HalfRangeAssumption
<1>2. \A w \in Nat \ {0}, y \in Int : y % w \in 0 .. w - 1
  OBVIOUS
<1>3. (x + HalfRange) % width \in 0 .. width - 1
  BY <1>1, <1>2
<1> QED
  BY <1>3, HalfRangeAssumption DEF Int32, INT_MAX

\* Whole CPUs of a quota.
LEMMA QuotaCpusIsPositive ==
  ASSUME NEW q \in Quotas, q.period > 0
  PROVE  QuotaCpus(q) \in Nat \ {0}
<1>1. q.quota \in Int /\ q.period \in Nat \ {0}
  BY DEF Quotas
<1>2. \A a \in Int, b \in Nat \ {0} : a \div b \in Int
  OBVIOUS
<1>3. (q.quota + q.period - 1) \div q.period \in Int
  BY <1>1, <1>2
<1> QED
  BY <1>3 DEF QuotaCpus, Greatest

\* A quota leaves at least one CPU, and no more than there were.
LEMMA LimitedInRange ==
  ASSUME NEW n \in Nat \ {0}, NEW q \in Quotas
  PROVE  Limited(n, q) \in 1 .. n
<1>1. CASE q.file = "set" /\ q.quota > 0 /\ q.period > 0
  BY <1>1, QuotaCpusIsPositive DEF Limited, Least
<1>2. CASE ~(q.file = "set" /\ q.quota > 0 /\ q.period > 0)
  BY <1>2 DEF Limited
<1> QED
  BY <1>1, <1>2

\* The count is positive before any quota.
LEMMA AllowedIsPositive ==
  ASSUME NEW s \in Systems
  PROVE  Allowed(s) \in Nat \ {0}
  BY DEF Systems, Allowed, Least, Greatest

\* The filter counts between 1 and 256 CPUs, whatever the system says.
THEOREM CpuCountInRange ==
  ASSUME NEW s \in Systems
  PROVE  available_cpu_count(s) \in 1 .. 256
<1>1. Allowed(s) \in Nat \ {0} /\ s.v1 \in Quotas /\ s.v2 \in Quotas
  BY AllowedIsPositive DEF Systems
<1> DEFINE q == IF s.v2.file = "set" /\ s.v2.period > 0 THEN s.v2 ELSE s.v1
<1>2. Limited(Allowed(s), q) \in Int
  BY <1>1, LimitedInRange
<1> QED
  BY <1>2 DEF Clamp, available_cpu_count

\* The worker process never counts fewer CPUs than the filter, as long as version 2
\* of cgroups has no period below 1 and no quota below 1 (the kernel writes none):
\* what the filter gives to inference is there.
THEOREM WorkerCountsNoFewer ==
  ASSUME NEW s \in Systems,
         s.v2.file = "set" => s.v2.quota > 0 /\ s.v2.period > 0
  PROVE  available_cpu_count(s) <= worker_cpu_count(s)
<1> DEFINE n == Allowed(s)
<1>1. n \in Nat \ {0} /\ s.v1 \in Quotas /\ s.v2 \in Quotas
  BY AllowedIsPositive DEF Systems
<1>2. Limited(n, s.v1) \in 1 .. n
  BY <1>1, LimitedInRange
<1>3. CASE s.v2.file = "set"
  <2>1. QuotaCpus(s.v2) \in Nat \ {0}
    BY <1>1, <1>3, QuotaCpusIsPositive
  <2>2. /\ available_cpu_count(s) = Clamp(Least(n, QuotaCpus(s.v2)), 1, 256)
        /\ worker_cpu_count(s) = Clamp(Least(n, QuotaCpus(s.v2)), 1, 256)
    <3>1. s.v2.quota > 0 /\ s.v2.period > 0 /\ s.v2.period # 0
      BY <1>1, <1>3 DEF Quotas
    <3> QED
      BY <3>1, <1>3 DEF available_cpu_count, worker_cpu_count, Limited
  <2>3. Clamp(Least(n, QuotaCpus(s.v2)), 1, 256) \in Int
    BY <2>1, <1>1 DEF Clamp, Least
  <2> QED
    BY <2>2, <2>3
<1>4. CASE s.v2.file # "set"
  <2>1. available_cpu_count(s) = Clamp(Limited(n, s.v1), 1, 256)
    BY <1>4 DEF available_cpu_count
  <2>2. worker_cpu_count(s) \in {Clamp(n, 1, 256), Clamp(Limited(n, s.v1), 1, 256)}
    BY <1>4 DEF worker_cpu_count
  <2>3. Clamp(Limited(n, s.v1), 1, 256) <= Clamp(n, 1, 256)
    BY <1>1, <1>2 DEF Clamp
  <2>4. Clamp(Limited(n, s.v1), 1, 256) \in Int
    BY <1>2 DEF Clamp
  <2> QED
    BY <2>1, <2>2, <2>3, <2>4
<1> QED
  BY <1>3, <1>4

\* The default shares fit every machine.
THEOREM DefaultSharesFit ==
  ASSUME NEW machine \in Nat \ {0}
  PROVE  DefaultShares(machine) \in Shares /\ Fit(DefaultShares(machine), machine)
<1> DEFINE reserved == IF machine >= 4 THEN Greatest(1, machine \div 8) ELSE 0
<1>1. reserved \in 0 .. machine - 1
  BY DEF Greatest
<1>2. Clamp(reserved, 0, machine - 1) = reserved
  BY <1>1 DEF Clamp
<1>3. DefaultShares(machine) = [inference |-> Greatest(1, Least(8, machine - reserved)),
                              reserved |-> reserved]
  BY <1>2 DEF DefaultShares
<1>4. Greatest(1, Least(8, machine - reserved)) \in 1 .. machine - reserved
  BY <1>1 DEF Greatest, Least
<1> QED
  BY <1>1, <1>3, <1>4 DEF Shares, Fit

\* What a save makes of any numbers fits.
THEOREM SavedSharesFit ==
  ASSUME NEW shares \in Shares, NEW machine \in Nat \ {0}
  PROVE  SavedShares(shares, machine) \in Shares /\ Fit(SavedShares(shares, machine), machine)
<1>1. shares.inference \in Int /\ shares.reserved \in Int
  BY DEF Shares
<1> DEFINE reserved == Clamp(shares.reserved, 0, machine - 1)
<1>2. reserved \in 0 .. machine - 1
  BY <1>1 DEF Clamp
<1>3. Clamp(shares.inference, 1, machine - reserved) \in 1 .. machine - reserved
  BY <1>1, <1>2 DEF Clamp
<1> QED
  BY <1>2, <1>3 DEF SavedShares, Shares, Fit

\* What an edit makes of any numbers fits, and lies within the limits it sets.
THEOREM EditedSharesFit ==
  ASSUME NEW shares \in Shares, NEW edited \in {"inference", "reserved"},
         NEW machine \in Nat \ {0}
  PROVE  LET result == Edited(shares, edited, machine)
         IN  /\ result \in Shares
             /\ Fit(result, machine)
             /\ result.inference \in 1 .. EditedLimits(result, machine).inference
             /\ result.reserved \in 0 .. EditedLimits(result, machine).reserved
<1>1. Int32(shares.inference) \in Int /\ Int32(shares.reserved) \in Int
  BY Int32InRange, HalfRangeAssumption DEF Shares, INT_MAX
<1> DEFINE inference == Int32(shares.inference)
           reserved  == Int32(shares.reserved)
<1> HIDE DEF inference, reserved
<1>2. CASE edited = "inference"
  <2> DEFINE first == Clamp(inference, 1, machine)
             other == Clamp(reserved, 0, machine - first)
  <2>1. Edited(shares, edited, machine) = [inference |-> first, reserved |-> other]
    BY <1>2 DEF Edited, inference, reserved
  <2>2. first \in 1 .. machine
    BY <1>1 DEF Clamp, inference
  <2>3. other \in 0 .. machine - first
    BY <1>1, <2>2 DEF Clamp, reserved
  <2> QED
    BY <2>1, <2>2, <2>3 DEF Shares, Fit, EditedLimits
<1>3. CASE edited = "reserved"
  <2> DEFINE first == Clamp(reserved, 0, machine - 1)
             other == Clamp(inference, 1, machine - first)
  <2>1. Edited(shares, edited, machine) = [inference |-> other, reserved |-> first]
    BY <1>3 DEF Edited, inference, reserved
  <2>2. first \in 0 .. machine - 1
    BY <1>1 DEF Clamp, reserved
  <2>3. other \in 1 .. machine - first
    BY <1>1, <2>2 DEF Clamp, inference
  <2> QED
    BY <2>1, <2>2, <2>3 DEF Shares, Fit, EditedLimits
<1> QED
  BY <1>2, <1>3

\* The arithmetic of it: what is limited to the CPUs that are not reserved.
LEMMA ShareOfLimit ==
  ASSUME NEW inference \in 1 .. 256, NEW reserved \in 0 .. 255, NEW machine \in 1 .. 256,
         inference + reserved <= machine, NEW cpus \in Nat \ {0}
  PROVE  LET threads == Least(inference, Greatest(1, cpus - Least(cpus - 1, reserved)))
         IN  /\ threads <= Greatest(1, cpus - reserved)
             /\ cpus >= machine => threads = inference
<1>1. CASE reserved <= cpus - 1
  <2>1. Greatest(1, cpus - Least(cpus - 1, reserved)) = cpus - reserved
    BY <1>1 DEF Greatest, Least
  <2>2. Least(inference, cpus - reserved) <= Greatest(1, cpus - reserved)
    BY DEF Greatest, Least
  <2>3. cpus >= machine => Least(inference, cpus - reserved) = inference
    BY DEF Least
  <2> QED
    BY <2>1, <2>2, <2>3
<1>2. CASE reserved > cpus - 1
  BY <1>2 DEF Greatest, Least
<1> QED
  BY <1>1, <1>2

\* Shares that fit what the filter counted: the worker process takes no reserved
\* thread though it counts again, and all that was promised if it counts as many.
THEOREM PromiseIsKept ==
  ASSUME NEW shares \in Shares, NEW machine \in 1 .. 256, Fit(shares, machine),
         NEW cpus \in Nat \ {0}
  PROVE  LET threads == EffectiveThreads(ConfiguredShares(shares), cpus)
         IN  /\ threads <= Greatest(1, cpus - shares.reserved)
             /\ cpus >= machine => threads = shares.inference
<1>1. /\ shares.inference \in 1 .. 256
      /\ shares.reserved \in 0 .. 255
      /\ shares.inference + shares.reserved <= machine
  BY DEF Shares, Fit
<1>2. /\ ConfiguredShares(shares).inference = shares.inference
      /\ ConfiguredShares(shares).reserved = shares.reserved
  BY <1>1 DEF ConfiguredShares, Greatest, Least
<1>3. Greatest(0, Least(cpus - 1, shares.reserved)) = Least(cpus - 1, shares.reserved)
  BY <1>1 DEF Greatest, Least
<1>4. EffectiveThreads(ConfiguredShares(shares), cpus)
        = Least(shares.inference, Greatest(1, cpus - Least(cpus - 1, shares.reserved)))
  BY <1>1, <1>2, <1>3 DEF EffectiveThreads, Greatest, Least
<1>5. ASSUME NEW inference \in 1 .. 256, NEW reserved \in 0 .. 255, inference + reserved <= machine
      PROVE  /\ Least(inference, Greatest(1, cpus - Least(cpus - 1, reserved)))
                  <= Greatest(1, cpus - reserved)
             /\ cpus >= machine =>
                  Least(inference, Greatest(1, cpus - Least(cpus - 1, reserved))) = inference
  BY <1>5, ShareOfLimit
<1> DEFINE i == shares.inference
           r == shares.reserved
<1>6. i \in 1 .. 256 /\ r \in 0 .. 255 /\ i + r <= machine
  BY <1>1
<1>7. EffectiveThreads(ConfiguredShares(shares), cpus)
        = Least(i, Greatest(1, cpus - Least(cpus - 1, r)))
  BY <1>4
<1> HIDE DEF i, r
<1>8. /\ EffectiveThreads(ConfiguredShares(shares), cpus) <= Greatest(1, cpus - r)
      /\ cpus >= machine => EffectiveThreads(ConfiguredShares(shares), cpus) = i
  BY <1>5, <1>6, <1>7
<1> QED
  BY <1>8 DEF i, r

\* Any durations become those ConversionWorker assumes: positive, the first one no
\* longer than the longest, and within an int.
THEOREM SavedDurationsInRange ==
  ASSUME NEW durations \in [initial : Int, maximum : Int]
  PROVE  LET saved == SavedDurations(durations)
         IN  /\ saved.initial \in 250 .. 2000
             /\ saved.maximum \in saved.initial .. INT_MAX
<1>1. durations.initial \in Int /\ durations.maximum \in Int /\ INT_MAX \in Int
      /\ INT_MAX >= 2000
  BY HalfRangeAssumption DEF INT_MAX
<1> DEFINE initial == IF durations.initial > 2000 THEN 250
                      ELSE Clamp(durations.initial, 250, 2000)
<1>2. initial \in 250 .. 2000
  BY <1>1 DEF Clamp
<1>3. Clamp(durations.maximum, initial, INT_MAX) \in initial .. INT_MAX
  BY <1>1, <1>2 DEF Clamp
<1> QED
  BY <1>2, <1>3 DEF SavedDurations
-----------------------------------------------------------------------------

Working  == {"validate", "share", "write", "exchange", "apply", "reset", "refuse"}
Labels   == Working \cup {"idle", "update"}
Settings == [model : Models, valid : BOOLEAN, inference : Int, reserved : Int,
             initial : Int, maximum : Int]
Options  == [model : Models \cup {NoModel}, initial : Int, maximum : Int]
Locals   == [model : Models \cup {NoModel}, total_threads : 1 .. 256, request : Shares,
             durations : [initial : Int, maximum : Int], attempt : 0 .. 2]

\* TypeOK, and the types of what it leaves to the properties.
Types ==
  /\ TypeOK
  /\ settings \in Settings
  /\ options \in Options
  /\ generation \in Nat
  /\ capture \in [options : Options, generation : Nat]
  /\ output \subseteq Options
  /\ pc \in [Updaters -> Labels]
  /\ local \in [Updaters -> Locals]
  /\ asked \in Settings

\* Whoever is in an exchange has attempts left, and never more than there are.
Attempts == \A u \in Updaters : pc[u] = "exchange" => local[u].attempt \in 1 .. 2

\* The constants that updates use have the types of their variables.
LEMMA ConstantsAreTyped ==
  /\ NoOptions \in Options
  /\ NoCapture \in [options : Options, generation : Nat]
  /\ NoLocals \in Locals
  /\ NoLocals.attempt = 0
<1>1. NoOptions \in Options
  BY DEF NoOptions, Options
<1>2. NoCapture \in [options : Options, generation : Nat]
  BY <1>1 DEF NoCapture
<1>3. NoLimits \in Shares
  BY DEF NoLimits, Shares
<1>4. NoLocals \in Locals /\ NoLocals.attempt = 0
  BY <1>3 DEF NoLocals, Locals
<1> QED
  BY <1>1, <1>2, <1>4

\* Settings stay settings when shares are written into them, or durations.
LEMMA SharesOfSettings ==
  ASSUME NEW s \in Settings
  PROVE  /\ SharesOf(s) \in Shares
         /\ DurationsOf(s) \in [initial : Int, maximum : Int]
  BY DEF Settings, Shares, SharesOf, DurationsOf

\* Settings with other shares are settings, and keep the rest.
LEMMA WithSharesIsTyped ==
  ASSUME NEW s \in Settings, NEW shares \in Shares
  PROVE  /\ WithShares(s, shares) \in Settings
         /\ WithShares(s, shares).model = s.model
         /\ WithShares(s, shares).initial = s.initial
         /\ WithShares(s, shares).maximum = s.maximum
         /\ SharesOf(WithShares(s, shares)) = shares
  BY DEF Settings, Shares, WithShares, SharesOf

\* Settings with other durations are settings, and keep the rest.
LEMMA WithDurationsIsTyped ==
  ASSUME NEW s \in Settings, NEW d \in [initial : Int, maximum : Int]
  PROVE  /\ WithDurations(s, d) \in Settings
         /\ WithDurations(s, d).model = s.model
         /\ WithDurations(s, d).initial = d.initial
         /\ WithDurations(s, d).maximum = d.maximum
  BY DEF Settings, WithDurations

\* The locals of an update stay locals, whichever step assigns some of them.
LEMMA LocalsStayTyped ==
  ASSUME NEW l \in Locals
  PROVE  /\ \A name \in Models :
              /\ [l EXCEPT !.model = name] \in Locals
              /\ [l EXCEPT !.model = name].model = name
              /\ [l EXCEPT !.model = name].attempt = l.attempt
         /\ \A n \in 1 .. 256, shares \in Shares :
              /\ [l EXCEPT !.total_threads = n, !.request = shares] \in Locals
              /\ [l EXCEPT !.total_threads = n, !.request = shares].total_threads = n
              /\ [l EXCEPT !.total_threads = n, !.request = shares].request = shares
              /\ [l EXCEPT !.total_threads = n, !.request = shares].model = l.model
              /\ [l EXCEPT !.total_threads = n, !.request = shares].attempt = l.attempt
         /\ \A n \in 0 .. 2 :
              /\ [l EXCEPT !.attempt = n] \in Locals
              /\ [l EXCEPT !.attempt = n].attempt = n
              /\ [l EXCEPT !.attempt = n].model = l.model
              /\ [l EXCEPT !.attempt = n].request = l.request
              /\ [l EXCEPT !.attempt = n].total_threads = l.total_threads
         /\ \A d \in [initial : Int, maximum : Int] :
              /\ [l EXCEPT !.durations = d] \in Locals
              /\ [l EXCEPT !.durations = d].durations = d
              /\ [l EXCEPT !.durations = d].model = l.model
              /\ [l EXCEPT !.durations = d].attempt = l.attempt
         /\ Onwards(l) \in Locals
         /\ Onwards(l).model = l.model
         /\ Onwards(l).attempt = 0
<1>1. ASSUME NEW name \in Models
      PROVE  LET k == [l EXCEPT !.model = name]
             IN  k \in Locals /\ k.model = name /\ k.attempt = l.attempt
  BY DEF Locals
<1>2. ASSUME NEW n \in 1 .. 256, NEW shares \in Shares
      PROVE  LET k == [l EXCEPT !.total_threads = n, !.request = shares]
             IN  /\ k \in Locals
                 /\ k.total_threads = n
                 /\ k.request = shares
                 /\ k.model = l.model
                 /\ k.attempt = l.attempt
  BY DEF Locals
<1>3. ASSUME NEW n \in 0 .. 2
      PROVE  LET k == [l EXCEPT !.attempt = n]
             IN  /\ k \in Locals
                 /\ k.attempt = n
                 /\ k.model = l.model
                 /\ k.request = l.request
                 /\ k.total_threads = l.total_threads
  BY DEF Locals
<1>4. ASSUME NEW d \in [initial : Int, maximum : Int]
      PROVE  LET k == [l EXCEPT !.durations = d]
             IN  k \in Locals /\ k.durations = d /\ k.model = l.model /\ k.attempt = l.attempt
  BY DEF Locals
<1>5. Onwards(l) \in Locals /\ Onwards(l).model = l.model /\ Onwards(l).attempt = 0
  BY ConstantsAreTyped DEF Onwards, Locals
<1> QED
  BY <1>1, <1>2, <1>3, <1>4, <1>5

\* A step that assigns the locals of one update leaves those of the others.
LEMMA OneLocalChanges ==
  ASSUME local \in [Updaters -> Locals],
         NEW u \in Updaters, NEW l \in Locals, local' = [local EXCEPT ![u] = l]
  PROVE  /\ local' \in [Updaters -> Locals]
         /\ local'[u] = l
         /\ \A v \in Updaters \ {u} : local'[v] = local[v]
  OBVIOUS

\* What is counted is at least one and at most 256.
LEMMA TotalInRange ==
  ASSUME TypeOK
  PROVE  total \in 1 .. 256 /\ total \in Nat \ {0}
  BY FilterAssumption DEF TypeOK

\* Durations stay durations.
LEMMA SavedDurationsAreTyped ==
  ASSUME NEW d \in [initial : Int, maximum : Int]
  PROVE  SavedDurations(d) \in [initial : Int, maximum : Int]
<1>1. SavedDurations(d) = [initial |-> SavedDurations(d).initial,
                           maximum |-> SavedDurations(d).maximum]
  BY DEF SavedDurations
<1>2. SavedDurations(d).initial \in Int /\ SavedDurations(d).maximum \in Int
  BY HalfRangeAssumption DEF SavedDurations, Clamp, INT_MAX
<1> QED
  BY <1>1, <1>2

\* Every variable keeps its type, and a mutex belongs to the update that is at work:
\* the exclusion that every other property rests on.
THEOREM TypesAreKept == Spec => [](Types /\ Attempts)
<1>1. Init => Types /\ Attempts
  <2> SUFFICES ASSUME Init PROVE Types /\ Attempts
    OBVIOUS
  <2>1. total \in Nat \ {0} /\ DefaultShares(total) \in Shares
    BY FilterAssumption, DefaultSharesFit DEF Init
  <2>2. settings \in Settings
    BY <2>1, FilterAssumption, WithSharesIsTyped DEF Init, Settings
  <2>3. TypeOK
    <3>1. \A u \in Updaters : pc[u] = "idle" /\ local[u].attempt = 0
      BY ConstantsAreTyped DEF Init
    <3>2. Nobody \notin Updaters
      BY FilterAssumption
    <3>3. update_mutex = Nobody /\ mutex = Nobody /\ total \in Machines
      BY DEF Init
    <3>4. configured \in BOOLEAN
      BY DEF Init
    <3> QED
      BY <3>1, <3>2, <3>3, <3>4 DEF TypeOK, kWorkerConfigureAttempts
  <2> QED
    BY <2>2, <2>3, ConstantsAreTyped DEF Init, Types, Attempts, Labels, Working
<1>2. Types /\ Attempts /\ [Next]_vars => Types' /\ Attempts'
  <2> SUFFICES ASSUME Types, Attempts, [Next]_vars PROVE Types' /\ Attempts'
    OBVIOUS
  <2> USE DEF Types, Attempts, Labels, Working
  <2>1. CASE Resize
    BY <2>1 DEF Resize, TypeOK, dataVars, workerVars, ghostVars
  <2>2. ASSUME NEW u \in Updaters, Save(u) PROVE Types' /\ Attempts'
    <3>1. settings' \in Settings /\ asked' \in Settings
      BY <2>2, FilterAssumption DEF Save, Settings
    <3> QED
      BY <2>2, <3>1, FilterAssumption
         DEF Save, Goto, TypeOK, dataVars, workerVars
  <2>3. ASSUME NEW u \in Updaters, LockUpdate(u) PROVE Types' /\ Attempts'
    <3>1. local' \in [Updaters -> Locals] /\ \A v \in Updaters : local'[v].attempt = local[v].attempt
      <4> DEFINE l == [local[u] EXCEPT !.model = settings.model]
      <4>1. l \in Locals /\ l.attempt = local[u].attempt
        <5>1. local[u] \in Locals /\ settings.model \in Models
          BY DEF Settings
        <5> HIDE DEF Types, Attempts
        <5> QED
          BY <5>1, LocalsStayTyped
      <4>2. local' = [local EXCEPT ![u] = l]
        BY <2>3 DEF LockUpdate
      <4> HIDE DEF l
      <4> QED
        BY <4>1, <4>2, OneLocalChanges
    <3> QED
      BY <2>3, <3>1, FilterAssumption DEF LockUpdate, Goto, TypeOK, workerVars, ghostVars
  <2>17. ASSUME NEW u \in Updaters, Validate(u) PROVE Types' /\ Attempts'
    BY <2>17 DEF Validate, Goto, TypeOK, dataVars, workerVars, ghostVars
  <2>18. CASE TakeSnapshot \/ EnterLock
    BY <2>18 DEF TakeSnapshot, EnterLock, TypeOK, dataVars, workerVars, ghostVars
  <2>4. ASSUME NEW u \in Updaters, Refuse(u) PROVE Types' /\ Attempts'
    <3>1. local' \in [Updaters -> Locals] /\ \A v \in Updaters : local'[v].attempt \in {0, local[v].attempt}
      BY <2>4, ConstantsAreTyped DEF Refuse, Return
    <3>2. /\ pc' = [pc EXCEPT ![u] = "idle"]
          /\ update_mutex = u /\ update_mutex' = Nobody
          /\ mutex = Nobody /\ mutex' = Nobody
          /\ Nobody # u
      BY <2>4, FilterAssumption DEF Refuse, Return, Goto, TypeOK
    <3>3. \A v \in Updaters : pc'[v] \notin Working
      BY <3>2 DEF TypeOK
    <3>4. configured' \in BOOLEAN
      BY <2>4 DEF Refuse, ConfiguredAfterRefusal
    <3>5. UNCHANGED <<total, settings, options, generation, capture, output, asked>>
      BY <2>4 DEF Refuse, workerVars, ghostVars
    <3>6. TypeOK'
      BY <3>1, <3>2, <3>3, <3>4, <3>5, FilterAssumption DEF TypeOK, kWorkerConfigureAttempts
    <3> QED
      BY <3>1, <3>2, <3>3, <3>5, <3>6
  <2>5. ASSUME NEW u \in Updaters, ReadShares(u) PROVE Types' /\ Attempts'
    <3>1. SavedShares(SharesOf(settings), total) \in Shares
      BY SavedSharesFit, TotalInRange, SharesOfSettings
    <3>2. local' \in [Updaters -> Locals] /\ \A v \in Updaters : local'[v].attempt = local[v].attempt
      <4> DEFINE l == [local[u] EXCEPT !.total_threads = total,
                                       !.request = SavedShares(SharesOf(settings), total)]
      <4>1. l \in Locals /\ l.attempt = local[u].attempt
        <5>1. local[u] \in Locals
          OBVIOUS
        <5> HIDE DEF Types, Attempts
        <5> QED
          BY <3>1, <5>1, TotalInRange DEF Locals, Types
      <4>2. local' = [local EXCEPT ![u] = l]
        BY <2>5 DEF ReadShares
      <4> HIDE DEF l
      <4> QED
        BY <4>1, <4>2, OneLocalChanges
    <3> QED
      BY <2>5, <3>2 DEF ReadShares, Goto, TypeOK, dataVars, workerVars, ghostVars
  <2>6. ASSUME NEW u \in Updaters, WriteShares(u) PROVE Types' /\ Attempts'
    <3>1. settings' \in Settings
      BY <2>6, WithSharesIsTyped DEF WriteShares, Locals
    <3>2. /\ local' \in [Updaters -> Locals]
          /\ local'[u].attempt = 1
          /\ \A v \in Updaters \ {u} : local'[v] = local[v]
      <4> DEFINE l == [local[u] EXCEPT !.attempt = 1]
      <4>1. l \in Locals /\ l.attempt = 1
        <5>1. local[u] \in Locals
          OBVIOUS
        <5> QED
          BY <5>1 DEF Locals
      <4>2. local' = [local EXCEPT ![u] = l]
        BY <2>6 DEF WriteShares
      <4> HIDE DEF l
      <4> QED
        BY <4>1, <4>2, OneLocalChanges
    <3> QED
      BY <2>6, <3>1, <3>2
         DEF WriteShares, Goto, TypeOK, dataVars, workerVars, ghostVars,
               kWorkerConfigureAttempts
  <2>7. ASSUME NEW u \in Updaters, Exchange(u) PROVE Types' /\ Attempts'
    <3>1. local[u] \in Locals /\ local[u].attempt \in 1 .. 2
      BY <2>7 DEF Exchange
    <3>2. CASE pc' = [pc EXCEPT ![u] = "apply"] /\ local' = [local EXCEPT ![u] = Onwards(@)]
      <4>1. Onwards(local[u]) \in Locals /\ Onwards(local[u]).attempt = 0
        BY <3>1, LocalsStayTyped
      <4> QED
        BY <2>7, <3>2, <4>1
           DEF Exchange, TypeOK, dataVars, workerVars, ghostVars,
               kWorkerConfigureAttempts
    <3>3. CASE AttemptsLeft(u) /\ local' = [local EXCEPT ![u].attempt = @ + 1] /\ UNCHANGED pc
      <4>1. /\ local' \in [Updaters -> Locals]
            /\ local'[u].attempt = 2
            /\ \A v \in Updaters \ {u} : local'[v] = local[v]
        <5> DEFINE l == [local[u] EXCEPT !.attempt = @ + 1]
        <5>1. local[u].attempt + 1 = 2
          BY <3>1, <3>3 DEF AttemptsLeft, kWorkerConfigureAttempts
        <5>2. l \in Locals /\ l.attempt = 2
          BY <3>1, <5>1 DEF Locals
        <5>3. local' = [local EXCEPT ![u] = l]
          BY <3>3
        <5> HIDE DEF l
        <5> QED
          BY <5>2, <5>3, OneLocalChanges
      <4> QED
        BY <2>7, <3>3, <4>1
           DEF Exchange, TypeOK, dataVars, workerVars, ghostVars,
               kWorkerConfigureAttempts
    <3>4. CASE pc' = [pc EXCEPT ![u] = "refuse"] /\ local' = [local EXCEPT ![u] = NoLocals]
      BY <2>7, <3>4, ConstantsAreTyped
         DEF Exchange, TypeOK, dataVars, workerVars, ghostVars,
               kWorkerConfigureAttempts
    <3> QED
      BY <2>7, <3>2, <3>3, <3>4 DEF Exchange, Goto
  <2>8. ASSUME NEW u \in Updaters, ReadDurations(u) PROVE Types' /\ Attempts'
    <3>1. SavedDurations(DurationsOf(settings)) \in [initial : Int, maximum : Int]
      BY SavedDurationsAreTyped, SharesOfSettings
    <3>2. local' \in [Updaters -> Locals] /\ \A v \in Updaters : local'[v].attempt = local[v].attempt
      <4> DEFINE l == [local[u] EXCEPT !.durations = SavedDurations(DurationsOf(settings))]
      <4>1. l \in Locals /\ l.attempt = local[u].attempt
        BY <3>1, LocalsStayTyped
      <4>2. local' = [local EXCEPT ![u] = l]
        BY <2>8 DEF ReadDurations
      <4> HIDE DEF l
      <4> QED
        BY <4>1, <4>2, OneLocalChanges
    <3> QED
      BY <2>8, <3>2, FilterAssumption DEF ReadDurations, Goto, TypeOK, workerVars, ghostVars
  <2>9. ASSUME NEW u \in Updaters, Configured(u) PROVE Types' /\ Attempts'
    <3>1. local[u] \in Locals
      OBVIOUS
    <3>2. settings' \in Settings
      BY <2>9, <3>1, WithDurationsIsTyped DEF Configured, Locals
    <3>3. options' \in Options
      BY <2>9, <3>1 DEF Configured, OptionsOf, Locals, Settings, Options
    <3>4. local' \in [Updaters -> Locals] /\ \A v \in Updaters : local'[v].attempt \in {0, local[v].attempt}
      BY <2>9, ConstantsAreTyped DEF Configured, Return
    <3> QED
      BY <2>9, <3>2, <3>3, <3>4, FilterAssumption
         DEF Configured, Return, Goto, TypeOK, OutputAfterReset, ghostVars, kWorkerConfigureAttempts
  <2>10. CASE OpenDialog
    BY <2>10 DEF OpenDialog, TypeOK, dataVars, workerVars, ghostVars
  <2>11. ASSUME NEW share \in {"inference", "reserved"}, NEW value \in Edits, Edit(share, value)
         PROVE  Types' /\ Attempts'
    <3>1. [SharesOf(settings) EXCEPT ![share] = value] \in Shares
      BY FilterAssumption, SharesOfSettings DEF Shares
    <3>2. Edited([SharesOf(settings) EXCEPT ![share] = value], share, total) \in Shares
      BY <3>1, EditedSharesFit, TotalInRange
    <3>3. settings' \in Settings
      BY <2>11, <3>2, WithSharesIsTyped DEF Edit
    <3> QED
      BY <2>11, <3>3 DEF Edit, TypeOK, dataVars, workerVars, ghostVars
  <2>12. CASE CloseDialog
    BY <2>12 DEF CloseDialog, TypeOK, dataVars, workerVars, ghostVars
  <2>13. CASE filter_audio
    BY <2>13 DEF filter_audio, TypeOK, dataVars, ghostVars
  <2>14. CASE ConvertBlock
    BY <2>14 DEF ConvertBlock, TypeOK, dataVars, ghostVars
  <2>15. CASE AppendBlock
    BY <2>15, ConstantsAreTyped DEF AppendBlock, TypeOK, dataVars, ghostVars
  <2>16. CASE UNCHANGED vars
    BY <2>16 DEF vars, TypeOK, dataVars, workerVars, ghostVars
  <2> QED
    BY <2>1, <2>2, <2>3, <2>4, <2>5, <2>6, <2>7, <2>8, <2>9, <2>10, <2>11, <2>12, <2>13,
       <2>14, <2>15, <2>16, <2>17, <2>18 DEF Next, update
<1> QED
  BY <1>1, <1>2, PTL DEF Spec
-----------------------------------------------------------------------------
\* A request, or a snapshot of it, fits what the filter had counted.
RequestFits(r) ==
  /\ r.shares \in Shares
  /\ r.total_threads \in 1 .. 256
  /\ Fit(r.shares, r.total_threads)

\* So does what an update has computed, until the exchange, and then what the worker
\* process was sent and what its conversions took of it.
Requests ==
  /\ \A u \in Updaters : pc[u] \in {"write", "exchange"} => RequestFits(RequestOf(u))
  /\ runtime # NoRuntime => RequestFits(runtime)
  /\ \A snapshot \in snapshots : RequestFits(snapshot)

\* Whichever snapshot torch is set up with, its reserve is kept.
LEMMA SetUpKeepsReserve ==
  ASSUME TypeOK, NEW snapshot, RequestFits(snapshot), torch' = SetUp(snapshot)
  PROVE  ReserveIsKept'
<1>1. /\ torch'.threads = EffectiveThreads(ConfiguredShares(snapshot.shares), total)
      /\ torch'.cpus = total
      /\ torch'.snapshot = snapshot
  BY DEF SetUp
<1> DEFINE request == snapshot.shares
           counted == snapshot.total_threads
<1>2. request \in Shares /\ counted \in 1 .. 256 /\ Fit(request, counted)
  BY DEF RequestFits
<1>3. total \in Nat \ {0}
  BY TotalInRange
<1> HIDE DEF request, counted
<1>4. /\ EffectiveThreads(ConfiguredShares(request), total)
           <= Greatest(1, total - request.reserved)
      /\ total >= counted =>
           EffectiveThreads(ConfiguredShares(request), total) = request.inference
  BY <1>2, <1>3, PromiseIsKept
<1> QED
  BY <1>1, <1>4 DEF ReserveIsKept, request, counted

\* Steps that touch neither requests nor the worker process.
LEMMA ReserveIsUntouched ==
  ASSUME Types, Requests, ReserveIsKept,
         UNCHANGED <<pc, local, processVars>>
  PROVE  Requests' /\ ReserveIsKept'
  BY DEF Requests, RequestOf, ReserveIsKept, processVars

\* Whatever is saved, edited or counted, in whatever order conversions enter the lock
\* of the worker process: inference never takes a thread that the settings reserve
\* for OBS with which torch was set up, and has all that they promise on a machine
\* that has not shrunk.
THEOREM ReserveStays == Spec => []ReserveIsKept
<1>1. Init => Requests /\ ReserveIsKept
  BY DEF Init, Requests, ReserveIsKept
<1>2. Types /\ Requests /\ ReserveIsKept /\ [Next]_vars => Requests' /\ ReserveIsKept'
  <2> SUFFICES ASSUME Types, Requests, ReserveIsKept, [Next]_vars
               PROVE  Requests' /\ ReserveIsKept'
    OBVIOUS
  <2>1. CASE Resize \/ OpenDialog \/ CloseDialog \/ filter_audio \/ ConvertBlock \/ AppendBlock
    BY <2>1, ReserveIsUntouched
       DEF Resize, OpenDialog, CloseDialog, filter_audio, ConvertBlock, AppendBlock
  <2>2. ASSUME NEW share \in {"inference", "reserved"}, NEW value \in Edits, Edit(share, value)
        PROVE  Requests' /\ ReserveIsKept'
    BY <2>2, ReserveIsUntouched DEF Edit
  <2>3. ASSUME NEW u \in Updaters,
               \/ Save(u) \/ LockUpdate(u) \/ Validate(u) \/ Refuse(u) \/ ReadDurations(u)
               \/ Configured(u)
        PROVE  Requests' /\ ReserveIsKept'
    <3>1. UNCHANGED processVars
      BY <2>3 DEF Save, LockUpdate, Validate, Refuse, ReadDurations, Configured
    <3>2. /\ pc'[u] \notin {"write", "exchange"}
          /\ \A v \in Updaters \ {u} : pc'[v] = pc[v] /\ local'[v] = local[v]
      BY <2>3 DEF Save, LockUpdate, Validate, Refuse, ReadDurations, Configured, Return, Goto,
                  Types
    <3> QED
      BY <3>1, <3>2 DEF Requests, RequestOf, ReserveIsKept, processVars
  <2>4. ASSUME NEW u \in Updaters, ReadShares(u) PROVE Requests' /\ ReserveIsKept'
    <3> DEFINE saved == SavedShares(SharesOf(settings), total)
    <3>1. saved \in Shares /\ Fit(saved, total) /\ total \in 1 .. 256
      BY SavedSharesFit, TotalInRange, SharesOfSettings DEF Types
    <3>2. /\ local'[u].request = saved
          /\ local'[u].total_threads = total
          /\ \A v \in Updaters \ {u} : pc'[v] = pc[v] /\ local'[v] = local[v]
      <4>1. local[u] \in Locals /\ local \in [Updaters -> Locals]
        BY DEF Types
      <4> DEFINE l == [local[u] EXCEPT !.total_threads = total, !.request = saved]
      <4>2. l.request = saved /\ l.total_threads = total
        BY <4>1 DEF Locals
      <4>3. local' = [local EXCEPT ![u] = l]
        BY <2>4 DEF ReadShares
      <4> HIDE DEF l, saved
      <4> QED
        BY <2>4, <4>1, <4>2, <4>3 DEF ReadShares, Goto, Types
    <3>3. RequestFits(RequestOf(u)')
      BY <3>1, <3>2 DEF RequestFits, RequestOf
    <3>4. UNCHANGED processVars
      BY <2>4 DEF ReadShares
    <3> QED
      BY <3>2, <3>3, <3>4 DEF Requests, RequestOf, ReserveIsKept, processVars
  <2>5. ASSUME NEW u \in Updaters, WriteShares(u) PROVE Requests' /\ ReserveIsKept'
    <3>1. /\ pc[u] = "write"
          /\ local'[u].request = local[u].request
          /\ local'[u].total_threads = local[u].total_threads
          /\ \A v \in Updaters \ {u} : pc'[v] = pc[v] /\ local'[v] = local[v]
      <4>1. local[u] \in Locals /\ local \in [Updaters -> Locals]
        BY DEF Types
      <4> DEFINE l == [local[u] EXCEPT !.attempt = 1]
      <4>2. l.request = local[u].request /\ l.total_threads = local[u].total_threads
        BY <4>1 DEF Locals
      <4>3. local' = [local EXCEPT ![u] = l]
        BY <2>5 DEF WriteShares
      <4> HIDE DEF l
      <4> QED
        BY <2>5, <4>1, <4>2, <4>3 DEF WriteShares, Goto, Types
    <3>2. UNCHANGED processVars
      BY <2>5 DEF WriteShares
    <3> QED
      BY <3>1, <3>2 DEF Requests, RequestOf, ReserveIsKept, processVars
  <2>6. ASSUME NEW u \in Updaters, Exchange(u) PROVE Requests' /\ ReserveIsKept'
    <3>1. pc[u] = "exchange" /\ local \in [Updaters -> Locals] /\ local[u] \in Locals
      BY <2>6 DEF Exchange, Types
    <3>2. RequestFits(RequestOf(u))
      BY <3>1 DEF Requests
    <3>3. \/ Handled(u)
          \/ HandledCold(u)
          \/ UNCHANGED <<runtime, torch>>
      BY <2>6 DEF Exchange
    <3>4. ReserveIsKept'
      <4>1. CASE Handled(u)
        <5>1. PICK snapshot \in snapshots \cup {RequestOf(u)} : torch' = SetUp(snapshot)
          BY <4>1 DEF Handled
        <5>2. RequestFits(snapshot)
          BY <3>2, <5>1 DEF Requests
        <5> QED
          BY <5>1, <5>2, SetUpKeepsReserve DEF Types
      <4>2. CASE HandledCold(u)
        BY <4>2 DEF HandledCold, ReserveIsKept
      <4>3. CASE UNCHANGED <<runtime, torch>>
        BY <4>3 DEF ReserveIsKept
      <4> QED
        BY <3>3, <4>1, <4>2, <4>3
    <3>5. RequestFits(runtime') \/ runtime' = runtime
      BY <3>2, <3>3 DEF Handled, HandledCold
    <3>6. \A v \in Updaters \ {u} : pc'[v] = pc[v] /\ local'[v] = local[v]
      BY <2>6, <3>1 DEF Exchange, Goto, Types
    <3>7. \/ pc'[u] \in {"apply", "refuse"}
          \/ /\ local'[u].request = local[u].request
             /\ local'[u].total_threads = local[u].total_threads
      <4>1. CASE local' = [local EXCEPT ![u].attempt = @ + 1]
        <5> DEFINE l == [local[u] EXCEPT !.attempt = @ + 1]
        <5>1. l.request = local[u].request /\ l.total_threads = local[u].total_threads
          BY <3>1 DEF Locals
        <5>2. local' = [local EXCEPT ![u] = l]
          BY <4>1
        <5> HIDE DEF l
        <5> QED
          BY <3>1, <5>1, <5>2
      <4>2. CASE Goto(u, "apply") \/ Goto(u, "refuse")
        BY <4>2 DEF Goto, Types
      <4> QED
        BY <2>6, <4>1, <4>2 DEF Exchange
    <3>8. UNCHANGED snapshots
      BY <2>6 DEF Exchange
    <3>9. Requests'
      BY <3>1, <3>2, <3>5, <3>6, <3>7, <3>8 DEF Requests, RequestOf
    <3> QED
      BY <3>4, <3>9
  <2>7. CASE TakeSnapshot
    <3>1. /\ RequestFits(runtime)
          /\ snapshots' = snapshots \cup {runtime}
          /\ UNCHANGED <<runtime, torch, pc, local>>
      BY <2>7 DEF TakeSnapshot, Requests
    <3> QED
      BY <3>1 DEF Requests, RequestOf, ReserveIsKept
  <2>8. CASE EnterLock
    <3>1. PICK snapshot \in snapshots :
            /\ snapshots' \in {snapshots, snapshots \ {snapshot}}
            /\ torch' = IF torch = NotSetUp THEN SetUp(snapshot) ELSE torch
      BY <2>8 DEF EnterLock
    <3>2. UNCHANGED <<runtime, pc, local>>
      BY <2>8 DEF EnterLock
    <3>3. RequestFits(snapshot)
      BY DEF Requests
    <3>4. Requests'
      BY <3>1, <3>2 DEF Requests, RequestOf
    <3>5. CASE torch = NotSetUp
      BY <3>1, <3>3, <3>4, <3>5, SetUpKeepsReserve DEF Types
    <3>6. CASE torch # NotSetUp
      BY <3>1, <3>4, <3>6 DEF ReserveIsKept
    <3> QED
      BY <3>5, <3>6
  <2>9. CASE UNCHANGED vars
    BY <2>9, ReserveIsUntouched DEF vars
  <2> QED
    BY <2>1, <2>2, <2>3, <2>4, <2>5, <2>6, <2>7, <2>8, <2>9 DEF Next, update
<1> QED
  BY <1>1, <1>2, TypesAreKept, PTL DEF Spec
-----------------------------------------------------------------------------
\* The type invariant, on its own.
THEOREM TypeCorrect == Spec => []TypeOK
<1>1. Types => TypeOK
  BY DEF Types
<1> QED
  BY <1>1, TypesAreKept, PTL

\* Every edit leaves both shares within the limits it shows, and they fit the machine.
THEOREM EditsAreInRange == Spec => EditsFit
<1> DEFINE Fits ==
      \A share \in {"inference", "reserved"}, value \in Edits :
        Edit(share, value) =>
          /\ settings'.inference \in 1 .. limits'.inference
          /\ settings'.reserved \in 0 .. limits'.reserved
          /\ Fit(SharesOf(settings'), total)
<1>1. ASSUME Types PROVE Fits
  <2> SUFFICES ASSUME NEW share \in {"inference", "reserved"}, NEW value \in Edits,
                      Edit(share, value)
               PROVE  /\ settings'.inference \in 1 .. limits'.inference
                      /\ settings'.reserved \in 0 .. limits'.reserved
                      /\ Fit(SharesOf(settings'), total)
    OBVIOUS
  <2> DEFINE given == [SharesOf(settings) EXCEPT ![share] = value]
             result == Edited(given, share, total)
  <2>1. given \in Shares /\ total \in Nat \ {0}
    BY <1>1, FilterAssumption, SharesOfSettings, TotalInRange DEF Shares, Types
  <2> HIDE DEF given
  <2>2. /\ result \in Shares
        /\ Fit(result, total)
        /\ result.inference \in 1 .. EditedLimits(result, total).inference
        /\ result.reserved \in 0 .. EditedLimits(result, total).reserved
    BY <2>1, EditedSharesFit
  <2>3. settings' = WithShares(settings, result) /\ limits' = EditedLimits(result, total)
    BY DEF Edit, given
  <2> HIDE DEF result
  <2>4. SharesOf(settings') = result
    BY <1>1, <2>2, <2>3, WithSharesIsTyped DEF Types
  <2>5. settings'.inference = result.inference /\ settings'.reserved = result.reserved
    BY <2>4 DEF SharesOf
  <2> QED
    BY <2>2, <2>3, <2>4, <2>5
<1>2. Types => [Fits]_vars
  BY <1>1
<1>3. EditsFit <=> [][Fits]_vars
  BY DEF EditsFit
<1> QED
  BY <1>2, <1>3, TypesAreKept, PTL
-----------------------------------------------------------------------------
\* A block that is being converted was captured in this generation under the options
\* that still hold, or in an earlier one.
Blocks ==
  /\ capture.generation <= generation
  /\ capture # NoCapture /\ capture.generation = generation => capture.options = options

\* Whatever was converted under other options is gone once an update has succeeded:
\* reset empties the output, and the generation keeps what is under way from it.
THEOREM VoiceIsCurrent == Spec => []VoiceFollowsSettings
<1>1. Init => Blocks /\ VoiceFollowsSettings
  BY DEF Init, Blocks, VoiceFollowsSettings, NoCapture
<1>2. Types /\ Blocks /\ VoiceFollowsSettings /\ [Next]_vars
        => Blocks' /\ VoiceFollowsSettings'
  <2> SUFFICES ASSUME Types, Blocks, VoiceFollowsSettings, [Next]_vars
               PROVE  Blocks' /\ VoiceFollowsSettings'
    OBVIOUS
  <2> USE DEF Blocks, VoiceFollowsSettings
  <2>1. CASE UNCHANGED workerVars
    BY <2>1 DEF workerVars
  <2>2. ASSUME NEW u \in Updaters, Configured(u) PROVE Blocks' /\ VoiceFollowsSettings'
    BY <2>2 DEF Configured, OutputAfterReset, Types
  <2>3. CASE filter_audio
    BY <2>3 DEF filter_audio
  <2>4. CASE ConvertBlock
    BY <2>4 DEF ConvertBlock, Types
  <2>5. CASE AppendBlock
    <3>1. /\ capture # NoCapture
          /\ capture' = NoCapture
          /\ UNCHANGED <<options, generation>>
          /\ output' = IF capture.generation = generation THEN output \cup {capture.options}
                       ELSE output
      BY <2>5 DEF AppendBlock
    <3>2. VoiceFollowsSettings'
      BY <3>1
    <3>3. NoCapture.generation = 0
      BY DEF NoCapture
    <3> QED
      BY <3>1, <3>2, <3>3 DEF Types
  <2>6. [Next]_vars => \/ UNCHANGED workerVars
                       \/ \E u \in Updaters : Configured(u)
                       \/ filter_audio
                       \/ ConvertBlock
                       \/ AppendBlock
    BY DEF Next, update, vars, Resize, Save, LockUpdate, Validate, TakeSnapshot,
           EnterLock, Refuse, ReadShares, WriteShares,
           Exchange, ReadDurations, OpenDialog, Edit, CloseDialog
  <2> QED
    BY <2>1, <2>2, <2>3, <2>4, <2>5, <2>6
<1> QED
  BY <1>1, <1>2, TypesAreKept, PTL DEF Spec
-----------------------------------------------------------------------------
\* Durations in range stay what they are.
LEMMA SavedTwice ==
  ASSUME NEW d \in [initial : Int, maximum : Int]
  PROVE  SavedDurations(SavedDurations(d)) = SavedDurations(d)
<1> DEFINE saved == SavedDurations(d)
<1>1. /\ saved \in [initial : Int, maximum : Int]
      /\ saved.initial \in 250 .. 2000
      /\ saved.maximum \in saved.initial .. INT_MAX
  BY SavedDurationsInRange, SavedDurationsAreTyped
<1>2. INT_MAX \in Int
  BY HalfRangeAssumption DEF INT_MAX
<1> HIDE DEF saved
<1>3. SavedDurations(saved) = [initial |-> saved.initial, maximum |-> saved.maximum]
  BY <1>1, <1>2 DEF SavedDurations, Clamp
<1>4. saved = [initial |-> saved.initial, maximum |-> saved.maximum]
  BY <1>1
<1> QED
  BY <1>3, <1>4 DEF saved

\* The durations of the settings are those of the last save, up to the range; and so
\* are those an update is about to write. Both unless the save came in between.
Durations ==
  /\ settings.model = asked.model
  /\ ~overtaken =>
       /\ SavedDurations(DurationsOf(settings)) = SavedDurations(DurationsOf(asked))
       /\ \A u \in Updaters :
            pc[u] = "reset" => local[u].durations = SavedDurations(DurationsOf(asked))

\* As long as no save waits for the mutex: the update at work has the model that was
\* saved, and when none is at work a configured filter has the saved options.
LastSave ==
  (\A u \in Updaters : pc[u] # "update") =>
    /\ \A u \in Updaters :
         pc[u] \in Working \ {"refuse"} => local[u].model = asked.model
    /\ update_mutex = Nobody /\ configured =>
         /\ options.model = asked.model
         /\ ~overtaken =>
              [initial |-> options.initial, maximum |-> options.maximum]
                = SavedDurations(DurationsOf(asked))

\* What LastSave is about.
lastSaveVars == <<pc, local, update_mutex, configured, options, ghostVars>>

\* Every step keeps Durations.
LEMMA DurationsAreKept ==
  ASSUME Types, Durations, [Next]_vars
  PROVE  Durations'
<1>1. CASE UNCHANGED <<pc, local, settings, ghostVars>>
  BY <1>1 DEF Durations, ghostVars
<1>2. ASSUME NEW u \in Updaters, Save(u) PROVE Durations'
  <2>1. settings' = asked' /\ overtaken' = (mutex # Nobody)
    BY <1>2 DEF Save
  <2>2. mutex = Nobody => \A v \in Updaters : pc[v] # "reset"
    BY FilterAssumption DEF Types, TypeOK
  <2>3. \A v \in Updaters : pc'[v] = "reset" => pc[v] = "reset"
    BY <1>2 DEF Save, Goto, Types
  <2> QED
    BY <2>1, <2>2, <2>3 DEF Durations
<1>3. ASSUME NEW u \in Updaters,
             LockUpdate(u) \/ Validate(u) \/ Refuse(u) \/ ReadShares(u) \/ Exchange(u)
      PROVE  Durations'
  <2>1. UNCHANGED <<settings, ghostVars>>
    BY <1>3 DEF LockUpdate, Validate, Refuse, ReadShares, Exchange
  <2>2. /\ pc'[u] # "reset"
        /\ \A v \in Updaters \ {u} : pc'[v] = pc[v] /\ local'[v] = local[v]
    BY <1>3 DEF LockUpdate, Validate, Refuse, ReadShares, Exchange, Return, Goto, Types
  <2> QED
    BY <2>1, <2>2 DEF Durations, ghostVars
<1>4. ASSUME NEW u \in Updaters, WriteShares(u) PROVE Durations'
  <2>1. UNCHANGED ghostVars /\ settings' = WithShares(settings, local[u].request)
    BY <1>4 DEF WriteShares
  <2>2. /\ pc'[u] # "reset"
        /\ \A v \in Updaters \ {u} : pc'[v] = pc[v] /\ local'[v] = local[v]
    BY <1>4 DEF WriteShares, Goto, Types
  <2>3. settings'.model = settings.model /\ DurationsOf(settings') = DurationsOf(settings)
    BY <2>1, WithSharesIsTyped DEF Types, Locals, DurationsOf
  <2> QED
    BY <2>1, <2>2, <2>3 DEF Durations, ghostVars
<1>5. ASSUME NEW u \in Updaters, ReadDurations(u) PROVE Durations'
  <2>1. UNCHANGED <<settings, ghostVars>>
    BY <1>5 DEF ReadDurations
  <2> DEFINE saved == SavedDurations(DurationsOf(settings))
  <2>2. /\ local'[u].durations = saved
        /\ \A v \in Updaters \ {u} : pc'[v] = pc[v] /\ local'[v] = local[v]
    <3>1. local[u] \in Locals /\ local \in [Updaters -> Locals]
      BY DEF Types
    <3> DEFINE l == [local[u] EXCEPT !.durations = saved]
    <3>2. l.durations = saved
      BY <3>1 DEF Locals
    <3>3. local' = [local EXCEPT ![u] = l]
      BY <1>5 DEF ReadDurations
    <3> HIDE DEF l, saved
    <3> QED
      BY <1>5, <3>1, <3>2, <3>3 DEF ReadDurations, Goto, Types
  <2> QED
    BY <2>1, <2>2 DEF Durations, ghostVars
<1>6. ASSUME NEW u \in Updaters, Configured(u) PROVE Durations'
  <2>1. /\ UNCHANGED ghostVars
        /\ settings' = WithDurations(settings, local[u].durations)
        /\ pc[u] = "reset"
    BY <1>6 DEF Configured
  <2>2. /\ pc'[u] # "reset"
        /\ \A v \in Updaters \ {u} : pc'[v] = pc[v] /\ local'[v] = local[v]
    BY <1>6 DEF Configured, Return, Goto, Types
  <2>3. local[u].durations \in [initial : Int, maximum : Int]
    BY DEF Types, Locals
  <2>4. settings'.model = settings.model /\ DurationsOf(settings') = local[u].durations
    BY <2>1, <2>3, WithDurationsIsTyped DEF Types, DurationsOf
  <2>5. DurationsOf(asked) \in [initial : Int, maximum : Int]
    BY SharesOfSettings DEF Types
  <2>6. ASSUME ~overtaken
        PROVE  SavedDurations(DurationsOf(settings')) = SavedDurations(DurationsOf(asked))
    BY <2>1, <2>4, <2>5, <2>6, SavedTwice DEF Durations
  <2> QED
    BY <2>1, <2>2, <2>4, <2>6 DEF Durations, ghostVars
<1>7. ASSUME NEW share \in {"inference", "reserved"}, NEW value \in Edits, Edit(share, value)
      PROVE  Durations'
  <2> DEFINE given == [SharesOf(settings) EXCEPT ![share] = value]
             result == Edited(given, share, total)
  <2>1. given \in Shares /\ total \in Nat \ {0}
    BY FilterAssumption, SharesOfSettings, TotalInRange DEF Shares, Types
  <2> HIDE DEF given
  <2>2. result \in Shares
    BY <2>1, EditedSharesFit
  <2>3. settings' = WithShares(settings, result)
    BY <1>7 DEF Edit, given
  <2>4. UNCHANGED <<pc, local, ghostVars>>
    BY <1>7 DEF Edit
  <2> HIDE DEF result
  <2>5. settings'.model = settings.model /\ DurationsOf(settings') = DurationsOf(settings)
    BY <2>2, <2>3, WithSharesIsTyped DEF Types, DurationsOf
  <2> QED
    BY <2>4, <2>5 DEF Durations, ghostVars
<1>8. [Next]_vars =>
        \/ UNCHANGED <<pc, local, settings, ghostVars>>
        \/ \E u \in Updaters : Save(u) \/ update(u)
        \/ \E share \in {"inference", "reserved"}, value \in Edits : Edit(share, value)
  BY DEF Next, vars, Resize, TakeSnapshot, EnterLock, OpenDialog, CloseDialog,
         filter_audio, ConvertBlock, AppendBlock
<1> QED
  BY <1>1, <1>2, <1>3, <1>4, <1>5, <1>6, <1>7, <1>8 DEF update

\* When no update is going on, a configured filter has the model that OBS saved last,
\* and its durations unless an update that was between reading and writing the durations
\* replaced them: one that began before the save is always followed by that of the
\* save, which finds the settings as they are.
THEOREM LastSaveDecides == Spec => []LastSaveWins
<1>1. Init => Durations /\ LastSave
  BY DEF Init, Durations, LastSave, Working
<1>2. Types /\ Durations /\ LastSave /\ [Next]_vars => Durations' /\ LastSave'
  <2> SUFFICES ASSUME Types, Durations, LastSave, [Next]_vars PROVE LastSave'
    BY DurationsAreKept
  <2>1. CASE UNCHANGED lastSaveVars
    BY <2>1 DEF lastSaveVars, LastSave, ghostVars
  <2>2. ASSUME NEW u \in Updaters, Save(u) PROVE LastSave'
    <3>1. pc'[u] = "update"
      BY <2>2 DEF Save, Goto, Types
    <3> QED
      BY <3>1 DEF LastSave
  <2>3. ASSUME NEW u \in Updaters, LockUpdate(u) PROVE LastSave'
    <3>1. /\ \A v \in Updaters : pc[v] \notin Working
          /\ \A v \in Updaters \ {u} : pc'[v] = pc[v]
          /\ update_mutex' = u /\ u # Nobody /\ UNCHANGED ghostVars
      BY <2>3, FilterAssumption DEF LockUpdate, Goto, Types, TypeOK, Working
    <3>2. local'[u].model = asked.model
      <4>1. local[u] \in Locals /\ settings.model \in Models
        BY DEF Types, Settings
      <4> DEFINE l == [local[u] EXCEPT !.model = settings.model]
      <4>2. l.model = settings.model
        BY <4>1 DEF Locals
      <4>3. local' = [local EXCEPT ![u] = l]
        BY <2>3 DEF LockUpdate
      <4> HIDE DEF l
      <4> QED
        BY <4>2, <4>3 DEF Types, Durations
    <3> QED
      BY <3>1, <3>2 DEF LastSave, ghostVars
  <2>4. ASSUME NEW u \in Updaters, Refuse(u) PROVE LastSave'
    <3>1. ~configured' /\ UNCHANGED ghostVars /\ pc'[u] = "idle"
      BY <2>4 DEF Refuse, ConfiguredAfterRefusal, Return, Goto, Types
    <3>2. \A v \in Updaters \ {u} : pc'[v] = pc[v] /\ local'[v] = local[v]
      BY <2>4 DEF Refuse, Return, Goto, Types
    <3>3. pc[u] = "refuse"
      BY <2>4 DEF Refuse
    <3> QED
      BY <3>1, <3>2, <3>3 DEF LastSave, Working, ghostVars
  <2>5. ASSUME NEW u \in Updaters,
               \/ Validate(u) \/ ReadShares(u) \/ WriteShares(u) \/ Exchange(u)
               \/ ReadDurations(u)
        PROVE  LastSave'
    <3>1. /\ update_mutex = u /\ update_mutex' = u /\ u # Nobody
          /\ pc[u] \in Working \ {"refuse"} /\ pc'[u] # "update"
          /\ \A v \in Updaters \ {u} : pc'[v] = pc[v] /\ local'[v] = local[v]
          /\ \A v \in Updaters \ {u} : pc[v] \notin Working
      BY <2>5, FilterAssumption
         DEF Validate, ReadShares, WriteShares, Exchange, ReadDurations, Goto, dataVars, Types,
             TypeOK, Working
    <3>2. asked' = asked
      BY <2>5 DEF Validate, ReadShares, WriteShares, Exchange, ReadDurations, ghostVars
    <3>3. pc'[u] \in Working \ {"refuse"} => local'[u].model = local[u].model
      <4>1. local[u] \in Locals /\ local \in [Updaters -> Locals]
        BY DEF Types
      <4>7. CASE Validate(u)
        BY <4>7 DEF Validate
      <4>2. CASE ReadShares(u)
        <5> DEFINE l == [local[u] EXCEPT !.total_threads = total,
                                         !.request = SavedShares(SharesOf(settings), total)]
        <5>1. l.model = local[u].model
          BY <4>1 DEF Locals
        <5>2. local' = [local EXCEPT ![u] = l]
          BY <4>2 DEF ReadShares
        <5> HIDE DEF l
        <5> QED
          BY <4>1, <5>1, <5>2
      <4>3. CASE WriteShares(u) \/ (Exchange(u) /\ UNCHANGED pc)
        <5> DEFINE l(n) == [local[u] EXCEPT !.attempt = n]
        <5>1. \A n \in Int : l(n).model = local[u].model
          BY <4>1 DEF Locals
        <5>2. \/ local' = [local EXCEPT ![u] = l(1)]
              \/ local' = [local EXCEPT ![u] = l(local[u].attempt + 1)]
          <6>1. CASE WriteShares(u)
            BY <6>1 DEF WriteShares
          <6>2. CASE Exchange(u) /\ UNCHANGED pc
            <7>1. pc[u] = "exchange" /\ pc \in [Updaters -> Labels]
              BY <6>2 DEF Exchange, Types
            <7> QED
              BY <6>2, <7>1 DEF Exchange, Goto
          <6> QED
            BY <4>3, <6>1, <6>2
        <5>3. local[u].attempt + 1 \in Int
          BY <4>1 DEF Locals
        <5> HIDE DEF l
        <5> QED
          BY <4>1, <5>1, <5>2, <5>3
      <4>4. CASE Exchange(u) /\ local' = [local EXCEPT ![u] = Onwards(@)]
        BY <4>1, <4>4, LocalsStayTyped
      <4>5. CASE Exchange(u) /\ Goto(u, "refuse")
        BY <4>5 DEF Goto, Types
      <4>6. CASE ReadDurations(u)
        <5> DEFINE l == [local[u] EXCEPT !.durations = SavedDurations(DurationsOf(settings))]
        <5>1. l.model = local[u].model
          BY <4>1 DEF Locals
        <5>2. local' = [local EXCEPT ![u] = l]
          BY <4>6 DEF ReadDurations
        <5> HIDE DEF l
        <5> QED
          BY <4>1, <5>1, <5>2
      <4> QED
        BY <2>5, <4>2, <4>3, <4>4, <4>5, <4>6, <4>7 DEF Exchange
    <3>4. pc[u] # "update"
      BY <3>1 DEF Working
    <3>5. ASSUME \A v \in Updaters : pc'[v] # "update"
          PROVE  local[u].model = asked.model
      <4>1. \A v \in Updaters : pc[v] # "update"
        BY <3>1, <3>4, <3>5
      <4> QED
        BY <3>1, <4>1 DEF LastSave
    <3>6. ASSUME \A v \in Updaters : pc'[v] # "update", NEW v \in Updaters,
                 pc'[v] \in Working \ {"refuse"}
          PROVE  local'[v].model = asked'.model
      <4>1. v = u
        BY <3>1, <3>6
      <4> QED
        BY <3>2, <3>3, <3>5, <3>6, <4>1
    <3>7. update_mutex' # Nobody
      BY <3>1
    <3> QED
      BY <3>6, <3>7 DEF LastSave
  <2>6. ASSUME NEW u \in Updaters, Configured(u) PROVE LastSave'
    <3>1. /\ pc[u] = "reset" /\ pc'[u] = "idle"
          /\ \A v \in Updaters \ {u} : pc'[v] = pc[v] /\ local'[v] = local[v]
          /\ \A v \in Updaters \ {u} : pc[v] \notin Working
          /\ UNCHANGED ghostVars
      BY <2>6 DEF Configured, Return, Goto, Types, TypeOK, Working
    <3>2. local[u].durations \in [initial : Int, maximum : Int]
      BY DEF Types, Locals
    <3>3. /\ options'.model \in {local[u].model, settings.model}
          /\ [initial |-> options'.initial, maximum |-> options'.maximum] = local[u].durations
      BY <2>6, <3>2 DEF Configured, OptionsOf
    <3>4. ASSUME \A v \in Updaters : pc'[v] # "update"
          PROVE  local[u].model = asked.model /\ settings.model = asked.model
      <4>1. \A v \in Updaters : pc[v] # "update"
        BY <3>1, <3>4
      <4> QED
        BY <3>1, <4>1 DEF LastSave, Durations, Working
    <3>5. \A v \in Updaters : pc'[v] \notin Working
      BY <3>1 DEF Working
    <3>6. ~overtaken => local[u].durations = SavedDurations(DurationsOf(asked))
      BY <3>1 DEF Durations
    <3> QED
      BY <3>1, <3>3, <3>4, <3>5, <3>6 DEF LastSave, ghostVars
  <2>7. [Next]_vars => UNCHANGED lastSaveVars \/ \E u \in Updaters : Save(u) \/ update(u)
    BY DEF Next, vars, lastSaveVars, dataVars, workerVars, Resize, TakeSnapshot, EnterLock,
           OpenDialog, Edit, CloseDialog, filter_audio, ConvertBlock, AppendBlock
  <2> QED
    BY <2>1, <2>2, <2>3, <2>4, <2>5, <2>6, <2>7 DEF update
<1>3. Types /\ LastSave => LastSaveWins
  <2> SUFFICES ASSUME Types, LastSave, configured, \A u \in Updaters : pc[u] = "idle"
               PROVE  /\ options.model = asked.model
                      /\ ~overtaken =>
                           [initial |-> options.initial, maximum |-> options.maximum]
                             = SavedDurations(DurationsOf(asked))
    BY DEF LastSaveWins
  <2>1. update_mutex = Nobody
    BY DEF Types, TypeOK
  <2> QED
    BY <2>1 DEF LastSave
<1> QED
  BY <1>1, <1>2, <1>3, TypesAreKept, PTL DEF Spec
=============================================================================
