------------------------------ MODULE RvcFilter ------------------------------
(***************************************************************************)
(* One filter (RvcFilterData) and the threads of OBS that call it: several *)
(* may save settings at a time, one shows the properties dialog, and the   *)
(* audio thread filters. The settings are an object of OBS that all share: *)
(* OBS writes a save into it before it calls rvc_filter_update, the dialog *)
(* writes into it, and so does rvc_filter_update itself.                   *)
(*                                                                         *)
(* update_mutex is held for a whole update, with up to two exchanges of    *)
(* 30 s; data.mutex only for the steps that are single actions here, and   *)
(* from ReadDurations to Configured. Its ConversionWorker is reduced to    *)
(* what the filter can tell apart: under which options a block was         *)
(* captured, and whether it is still wanted. The worker process is reduced *)
(* to the settings it was sent, those that its conversions go by, and what *)
(* torch was set up with.                                                  *)
(***************************************************************************)
EXTENDS FilterSettings, FiniteSets

CONSTANTS
  Updaters,         \* threads of OBS that save settings
  Nobody,           \* not one of them
  Models, NoModel,  \* paths of models, and that of a filter never configured
  Saves,            \* the settings a thread may save
  Edits,            \* the values an edit in the dialog may give a share
  Machines,         \* the CPU counts a host may have while OBS runs
  MaxSaves,         \* bound: how many saves and edits there are
  MaxSnapshots      \* bound: different settings that waiting conversions may hold

ASSUME FilterAssumption ==
  /\ Nobody \notin Updaters
  /\ Saves \subseteq [model : Models, valid : BOOLEAN, inference : Int, reserved : Int,
                      initial : Int, maximum : Int]
  /\ Edits \subseteq Int
  /\ Machines \subseteq 1 .. 256
  /\ MaxSaves \in Nat
  /\ MaxSnapshots \in Nat

VARIABLES
  total,            \* what available_cpu_count returns now
  settings, saves,  \* obs_data_t, and how often it was saved or edited
  limits,           \* of the dialog, while it is open
  configured, update_mutex, mutex,
  \* The ConversionWorker: its options and generation, the block that is being
  \* converted and those that are queued.
  options, generation, capture, output,
  \* The worker process: the settings it has, the snapshots of them that conversions
  \* took, which wait for its lock, and what torch was set up with.
  runtime, snapshots, torch,
  pc, local,        \* of each update
  \* Ghosts: what OBS saved last, and whether that met an update at work on the
  \* durations.
  asked, overtaken

dataVars    == <<configured, update_mutex, mutex>>
workerVars  == <<options, generation, capture, output>>
processVars == <<runtime, snapshots, torch>>
ghostVars   == <<asked, overtaken>>
vars ==
  <<total, settings, saves, limits, dataVars, workerVars, processVars, pc, local, ghostVars>>

NoLimits  == [inference |-> 0, reserved |-> 0]
NoRuntime == [shares |-> NoLimits, total_threads |-> 0]
NotSetUp  == [threads |-> 0, cpus |-> 0, snapshot |-> NoRuntime]
NoOptions == [model |-> NoModel, initial |-> 500, maximum |-> 2000]
NoCapture == [options |-> NoOptions, generation |-> 0]
NoLocals  ==
  [model |-> NoModel, total_threads |-> 1, request |-> NoLimits,
   durations |-> [initial |-> 0, maximum |-> 0], attempt |-> 0]
SharesOf(s) == [inference |-> s.inference, reserved |-> s.reserved]
DurationsOf(s) == [initial |-> s.initial, maximum |-> s.maximum]
WithShares(s, shares) ==
  [s EXCEPT !.inference = shares.inference, !.reserved = shares.reserved]
WithDurations(s, d) == [s EXCEPT !.initial = d.initial, !.maximum = d.maximum]

\* rvc_filter_create, with the default shares, when its own update has been refused
\* (one that succeeds is like a save).
Init ==
  /\ total \in Machines
  /\ \E s \in Saves : settings = WithShares(s, DefaultShares(total))
  /\ saves = 0
  /\ limits = NoLimits
  /\ configured = FALSE
  /\ update_mutex = Nobody
  /\ mutex = Nobody
  /\ options = NoOptions
  /\ generation = 0
  /\ capture = NoCapture
  /\ output = {}
  /\ runtime = NoRuntime
  /\ snapshots = {}
  /\ torch = NotSetUp
  /\ pc = [u \in Updaters |-> "idle"]
  /\ local = [u \in Updaters |-> NoLocals]
  /\ asked = settings
  /\ overtaken = FALSE

Goto(u, label) == pc' = [pc EXCEPT ![u] = label]
Return(u) == Goto(u, "idle") /\ local' = [local EXCEPT ![u] = NoLocals]

\* CPUs are taken from OBS or given to it: by affinity, or by a quota.
Resize ==
  /\ total' \in Machines
  /\ UNCHANGED <<settings, saves, limits, dataVars, workerVars, processVars, pc, local,
                 ghostVars>>
-----------------------------------------------------------------------------
\* OBS writes what is saved into the settings, and calls rvc_filter_update.
Save(u) ==
  /\ pc[u] = "idle"
  /\ saves < MaxSaves
  /\ saves' = saves + 1
  /\ settings' \in Saves
  /\ asked' = settings'
  /\ overtaken' = (mutex # Nobody)
  /\ Goto(u, "update")
  /\ UNCHANGED <<total, limits, dataVars, workerVars, processVars, local>>

\* rvc_filter_update: update_mutex is taken, and a pointer to the path of the model.
LockUpdate(u) ==
  /\ pc[u] = "update"
  /\ update_mutex = Nobody
  /\ update_mutex' = u
  /\ local' = [local EXCEPT ![u].model = settings.model]
  /\ Goto(u, "validate")
  /\ UNCHANGED <<total, settings, saves, limits, configured, mutex, workerVars, processVars,
                 ghostVars>>

\* Without data.mutex, so OBS may have saved again: the files are validated and the
\* paths copied. If that fails, the filter is configured no more.
Validate(u) ==
  /\ pc[u] = "validate"
  /\ Goto(u, IF settings.valid THEN "share" ELSE "refuse")
  /\ UNCHANGED <<total, settings, saves, limits, dataVars, workerVars, processVars, local,
                 ghostVars>>

\* Mutant: a refused update leaves the filter configured.
RefuseKeepsConfigured == configured

ConfiguredAfterRefusal == FALSE

\* It ends without success: the files are not valid, or the attempts are used up.
Refuse(u) ==
  /\ pc[u] = "refuse"
  /\ mutex = Nobody
  /\ configured' = ConfiguredAfterRefusal
  /\ update_mutex' = Nobody
  /\ Return(u)
  /\ UNCHANGED <<total, settings, saves, limits, mutex, workerVars, processVars, ghostVars>>

\* The threads are counted and the shares read; then they are written back.
ReadShares(u) ==
  /\ pc[u] = "share"
  /\ local' = [local EXCEPT ![u].total_threads = total,
                            ![u].request = SavedShares(SharesOf(settings), total)]
  /\ Goto(u, "write")
  /\ UNCHANGED <<total, settings, saves, limits, dataVars, workerVars, processVars, ghostVars>>

WriteShares(u) ==
  /\ pc[u] = "write"
  /\ settings' = WithShares(settings, local[u].request)
  /\ local' = [local EXCEPT ![u].attempt = 1]
  /\ Goto(u, "exchange")
  /\ UNCHANGED <<total, saves, limits, dataVars, workerVars, processVars, ghostVars>>

kWorkerConfigureAttempts == 2

AttemptsLeft(u) == local[u].attempt < kWorkerConfigureAttempts

\* What an update reads again after the exchange.
Onwards(l) == [NoLocals EXCEPT !.model = l.model]

\* configure_torch, as a snapshot says. The worker process counts the CPUs itself.
SetUp(snapshot) ==
  [threads |-> EffectiveThreads(ConfiguredShares(snapshot.shares), total),
   cpus |-> total, snapshot |-> snapshot]

RequestOf(u) == [shares |-> local[u].request, total_threads |-> local[u].total_threads]

\* The worker process handles the request: it configures its runtime, drops what was
\* set up, and warms up. Torch is set up by the first conversion after that: the
\* warm-up, or one that has been waiting with an older snapshot.
Handled(u) ==
  /\ runtime' = RequestOf(u)
  /\ \E snapshot \in snapshots \cup {RequestOf(u)} : torch' = SetUp(snapshot)

\* The warm-up fails before anything is set up.
HandledCold(u) == runtime' = RequestOf(u) /\ torch' = NotSetUp

\* rvc_ipc_configure, twice at most: the worker process answers OK; or it answers too
\* late, fails, or is not there.
Exchange(u) ==
  /\ pc[u] = "exchange"
  /\ \/ /\ Handled(u)
        /\ Goto(u, "apply")
        /\ local' = [local EXCEPT ![u] = Onwards(@)]
     \/ /\ Handled(u) \/ HandledCold(u) \/ UNCHANGED <<runtime, torch>>
        /\ IF AttemptsLeft(u)
           THEN local' = [local EXCEPT ![u].attempt = @ + 1] /\ UNCHANGED pc
           ELSE local' = [local EXCEPT ![u] = NoLocals] /\ Goto(u, "refuse")
  /\ UNCHANGED <<total, settings, saves, limits, dataVars, workerVars, snapshots, ghostVars>>

\* RVCInference.convert, for a block of any filter: it takes a snapshot, waits for
\* self.lock, and sets torch up if nobody has since the last reset. Others may have
\* taken the same snapshot.
TakeSnapshot ==
  /\ runtime # NoRuntime
  /\ snapshots' = snapshots \cup {runtime}
  /\ Cardinality(snapshots') <= MaxSnapshots
  /\ UNCHANGED <<total, settings, saves, limits, dataVars, workerVars, runtime, torch, pc,
                 local, ghostVars>>

EnterLock ==
  /\ \E snapshot \in snapshots :
       /\ snapshots' \in {snapshots, snapshots \ {snapshot}}
       /\ torch' = IF torch = NotSetUp THEN SetUp(snapshot) ELSE torch
  /\ UNCHANGED <<total, settings, saves, limits, dataVars, workerVars, runtime, pc, local,
                 ghostVars>>
-----------------------------------------------------------------------------
\* Under data.mutex, the durations are read, and brought into range.
ReadDurations(u) ==
  /\ pc[u] = "apply"
  /\ mutex = Nobody
  /\ mutex' = u
  /\ local' = [local EXCEPT ![u].durations = SavedDurations(DurationsOf(settings))]
  /\ Goto(u, "reset")
  /\ UNCHANGED <<total, settings, saves, limits, configured, update_mutex, workerVars,
                 processVars, ghostVars>>

\* The options the worker is given. The model is read through the pointer that was
\* taken before the exchange: once OBS has written another string, it dangles, and
\* what is read is either string.
OptionsOf(u, name) ==
  [model |-> name, initial |-> local[u].durations.initial,
   maximum |-> local[u].durations.maximum]

\* Mutant: ConversionWorker::reset leaves what has been converted.
OutputKept == output

OutputAfterReset == {}

\* They are written back, the filter is configured, and the worker reset.
Configured(u) ==
  /\ pc[u] = "reset"
  /\ settings' = WithDurations(settings, local[u].durations)
  /\ configured' = TRUE
  /\ options' \in {OptionsOf(u, name) : name \in {local[u].model, settings.model}}
  /\ generation' = generation + 1
  /\ output' = OutputAfterReset
  /\ mutex' = Nobody
  /\ update_mutex' = Nobody
  /\ Return(u)
  /\ UNCHANGED <<total, saves, limits, capture, processVars, ghostVars>>
-----------------------------------------------------------------------------
\* rvc_filter_properties, which waits for data.mutex to tell whether a GPU is used,
\* and the callback for each share that is edited.
OpenDialog ==
  /\ limits = NoLimits
  /\ mutex = Nobody
  /\ limits' = [inference |-> total, reserved |-> total - 1]
  /\ UNCHANGED <<total, settings, saves, dataVars, workerVars, processVars, pc, local,
                 ghostVars>>

Edit(share, value) ==
  /\ limits # NoLimits
  /\ saves < MaxSaves
  /\ saves' = saves + 1
  /\ LET edited == Edited([SharesOf(settings) EXCEPT ![share] = value], share, total)
     IN  /\ settings' = WithShares(settings, edited)
         /\ limits' = EditedLimits(edited, total)
  /\ UNCHANGED <<total, dataVars, workerVars, processVars, pc, local, ghostVars>>

CloseDialog ==
  /\ limits # NoLimits
  /\ limits' = NoLimits
  /\ UNCHANGED <<total, settings, saves, dataVars, workerVars, processVars, pc, local,
                 ghostVars>>
-----------------------------------------------------------------------------
\* rvc_filter_audio: if configured, what has been converted is played; else the
\* source keeps its own voice, and what has been converted stays where it is.
filter_audio ==
  /\ mutex = Nobody
  /\ configured
  /\ \E block \in output : output' = output \ {block}
  /\ UNCHANGED <<total, settings, saves, limits, dataVars, options, generation, capture,
                 processVars, pc, local, ghostVars>>

\* The conversion thread captures a block, and appends it if still wanted. It goes
\* on while the filter is not configured, with the audio it still has.
ConvertBlock ==
  /\ capture = NoCapture
  /\ options # NoOptions
  /\ capture' = [options |-> options, generation |-> generation]
  /\ UNCHANGED <<total, settings, saves, limits, dataVars, options, generation, output,
                 processVars, pc, local, ghostVars>>

AppendBlock ==
  /\ capture # NoCapture
  /\ output' = IF capture.generation = generation THEN output \cup {capture.options}
               ELSE output
  /\ capture' = NoCapture
  /\ UNCHANGED <<total, settings, saves, limits, dataVars, options, generation,
                 processVars, pc, local, ghostVars>>
-----------------------------------------------------------------------------
update(u) ==
  \/ LockUpdate(u)
  \/ Validate(u)
  \/ Refuse(u)
  \/ ReadShares(u)
  \/ WriteShares(u)
  \/ Exchange(u)
  \/ ReadDurations(u)
  \/ Configured(u)

Next ==
  \/ Resize
  \/ \E u \in Updaters : Save(u) \/ update(u)
  \/ TakeSnapshot
  \/ EnterLock
  \/ OpenDialog
  \/ \E share \in {"inference", "reserved"}, value \in Edits : Edit(share, value)
  \/ CloseDialog
  \/ filter_audio
  \/ ConvertBlock
  \/ AppendBlock

Spec == Init /\ [][Next]_vars
-----------------------------------------------------------------------------
\* Every variable has its type, and the mutexes belong to who is at work.
TypeOK ==
  /\ total \in Machines
  /\ configured \in BOOLEAN
  /\ update_mutex \in Updaters \cup {Nobody}
  /\ mutex \in {update_mutex, Nobody}
  /\ \A u \in Updaters : pc[u] \in {"validate", "share", "write", "exchange", "apply", "reset",
                                      "refuse"} <=> update_mutex = u
  /\ \A u \in Updaters : pc[u] = "reset" <=> mutex = u
  /\ \A u \in Updaters : local[u].attempt \in 0 .. kWorkerConfigureAttempts

\* Whichever settings torch was set up with, those of the last update or older ones
\* that a conversion still held, inference leaves alone the threads that they reserve
\* for OBS, though the worker process counts the CPUs again and the machine may have
\* shrunk since the filter counted; and it gets every thread they promise it if the
\* machine has not.
ReserveIsKept ==
  LET shares == torch.snapshot.shares
  IN  torch # NotSetUp =>
        /\ torch.threads <= Greatest(1, torch.cpus - shares.reserved)
        /\ torch.cpus >= torch.snapshot.total_threads => torch.threads = shares.inference

\* When no update is going on, a configured filter converts as OBS saved last, in
\* whatever order updates waited for one another and whatever they wrote back into
\* the settings: with the model of the last save, and its durations brought into
\* range, unless that save came while an update was between reading the durations
\* and writing them back.
LastSaveWins ==
  configured /\ (\A u \in Updaters : pc[u] = "idle") =>
    /\ options.model = asked.model
    /\ ~overtaken =>
         [initial |-> options.initial, maximum |-> options.maximum]
           = SavedDurations(DurationsOf(asked))

\* No block that was captured under other options is ever heard once an update has
\* succeeded, not even when the filter was out of service in between.
VoiceFollowsSettings == \A block \in output : block = options

\* After an edit the dialog shows values within the limits it shows, though the
\* machine may have shrunk since it was opened, and what is shown fits the machine.
EditsFit ==
  [][\A share \in {"inference", "reserved"}, value \in Edits :
       Edit(share, value) =>
         /\ settings'.inference \in 1 .. limits'.inference
         /\ settings'.reserved \in 0 .. limits'.reserved
         /\ Fit(SharesOf(settings'), total)]_vars
=============================================================================
