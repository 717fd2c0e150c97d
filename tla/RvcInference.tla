--------------------------- MODULE RvcInference ---------------------------
(***************************************************************************)
(* RVCInference in the worker process: the models it has loaded, the locks *)
(* around them, and the threads that use them:                             *)
(*                                                                         *)
(*   - the executor's threads call convert for audio requests;             *)
(*   - the main thread handles a settings request: it configures runtime,  *)
(*     calls reset and then warmup, which calls convert once itself.       *)
(*                                                                         *)
(* What runs under self.lock is one step, since no other thread sees half  *)
(* of it: every other access is under the lock too, or reads models alone  *)
(* (convert, once it holds a model's lock), and a model is stored last.    *)
(* Inference is a step that begins and one that ends, with the use of the  *)
(* shared HuBERT model in between. Objects have identities: a VC is named  *)
(* by its path and by the number of resets before it was loaded, which     *)
(* determine it, because a path is loaded once between two resets.         *)
(***************************************************************************)
EXTENDS Integers, Sequences

CONSTANTS
  Workers,          \* the threads of the executor, one per stream
  Main,             \* the main thread; its stream is that of the warmup, 0
  Models,           \* paths of models
  Configurations,   \* what settings requests may configure
  StreamGenerations,\* generations that audio requests may carry
  MaxStreams,       \* streams kept per model, 16 in the build
  MaxResets         \* bound: how many settings requests arrive

ASSUME InferenceAssumption ==
  /\ Main \notin Workers
  /\ Configurations \subseteq [model : Models, hubert : STRING, threads : Nat]
  /\ StreamGenerations \subseteq Nat
  /\ MaxStreams \in Nat \ {0}
  /\ MaxResets \in Nat

Threads == Workers \cup {Main}

VARIABLES
  runtime,          \* the configuration, or None before the first
  vc_class,         \* the configuration torch was set up with, or None
  models,           \* path -> VC, for the models that are loaded
  model_errors,     \* paths that failed to load
  model_locks,      \* path -> lock
  hubert_models,    \* path -> HuBERT model, with its lock
  streams,          \* VC -> its streams, least recently used first
  resets,           \* how many resets there were
  pc, configuration, request, model_lock, vc,   \* the locals of each convert
  answer            \* to the last settings request

cacheVars == <<vc_class, models, model_errors, model_locks, hubert_models, resets>>
localVars == <<configuration, request, model_lock, vc>>
vars == <<runtime, cacheVars, streams, pc, localVars, answer>>

None == [model |-> "none"]
Empty == [key \in {} |-> None]

Init ==
  /\ runtime = None
  /\ vc_class = None
  /\ models = Empty
  /\ model_errors = {}
  /\ model_locks = Empty
  /\ hubert_models = Empty
  /\ streams = Empty
  /\ resets = 0
  /\ pc = [t \in Threads |-> "idle"]
  /\ configuration = [t \in Threads |-> None]
  /\ request = [t \in Threads |-> None]
  /\ model_lock = [t \in Threads |-> None]
  /\ vc = [t \in Threads |-> None]
  /\ answer = "none"

\* f with a new value for key, which need not have had one.
With(f, key, value) == [k \in DOMAIN f \cup {key} |-> IF k = key THEN value ELSE f[k]]

Goto(t, label) == pc' = [pc EXCEPT ![t] = label]
-----------------------------------------------------------------------------
\* Mutant: an exception of warmup does not reach the answer.
AnswerAlwaysOk(outcome) == "ok"

\* The answer to a settings request whose warmup had the given outcome.
AnswerTo(outcome) == IF outcome = "converted" THEN "ok" ELSE "failed"

\* convert ends: for the executor with an answer to its client, for the main
\* thread in warmup. Its locals are gone, and with them the lock it held.
Return(t, outcome) ==
  /\ IF t = Main /\ outcome = "converted"
     THEN Goto(t, "warm") /\ UNCHANGED answer
     ELSE /\ Goto(t, "idle")
          /\ answer' = IF t = Main THEN AnswerTo(outcome) ELSE answer
  /\ configuration' = [configuration EXCEPT ![t] = None]
  /\ request' = [request EXCEPT ![t] = None]
  /\ model_lock' = [model_lock EXCEPT ![t] = None]
  /\ vc' = [vc EXCEPT ![t] = None]

\* convert starts: the snapshot of the runtime, and the checks of what it says
\* and of the files that are named. If one fails, convert raises.
Begin(t, model, stream, generation) ==
  /\ runtime # None
  /\ configuration' = [configuration EXCEPT ![t] = runtime]
  /\ request' = [request EXCEPT ![t] =
                   [model |-> model, stream |-> stream, generation |-> generation]]
  /\ Goto(t, "enter")
  /\ UNCHANGED <<runtime, cacheVars, streams, model_lock, vc, answer>>

\* A thread of the executor takes an audio request. One that raises at once is
\* answered and changes nothing.
Request(w) ==
  /\ pc[w] = "idle"
  /\ \E model \in Models, generation \in StreamGenerations :
       Begin(w, model, w, generation)
-----------------------------------------------------------------------------
\* Mutant: every conversion makes a lock of its own.
LockOfThread(t, key) == [model |-> key, resets |-> resets, owner |-> t]

\* self.model_locks.setdefault(key, threading.Lock())
LockOf(t, key) ==
  IF key \in DOMAIN model_locks THEN model_locks[key]
  ELSE [model |-> key, resets |-> resets]

\* The HuBERT model for a path: the one that is loaded, or a new one.
HubertFor(path) ==
  IF path \in DOMAIN hubert_models THEN hubert_models[path]
  ELSE [hubert |-> path, resets |-> resets]

\* Under self.lock: set torch up and load the model, where that is still to be
\* done, as the snapshot says.
Load(t) ==
  LET key    == request[t].model
      loaded == [model |-> key, resets |-> resets,
                 hubert |-> HubertFor(configuration[t].hubert)]
  IN  /\ key \notin model_errors
      /\ vc_class' = IF vc_class = None THEN configuration[t] ELSE vc_class
      /\ IF key \in DOMAIN models
         THEN UNCHANGED <<models, hubert_models, streams>>
         ELSE /\ models' = With(models, key, loaded)
              /\ hubert_models' =
                   With(hubert_models, configuration[t].hubert, loaded.hubert)
              /\ streams' = With(streams, loaded, <<>>)

\* with self.lock: load, and find the lock of the model.
Enter(t) ==
  LET lock == LockOf(t, request[t].model)
  IN  /\ pc[t] = "enter"
      /\ Load(t)
      /\ model_locks' = With(model_locks, request[t].model, lock)
      /\ model_lock' = [model_lock EXCEPT ![t] = lock]
      /\ Goto(t, "lock")
      /\ UNCHANGED <<runtime, model_errors, resets, configuration, request, vc, answer>>

\* The same, raising: because a configured file is not there or the model failed
\* to load before; because it fails now, which is remembered; or because of the
\* index, with the model already stored.
EnterRaises(t) ==
  /\ pc[t] = "enter"
  /\ \/ UNCHANGED <<vc_class, models, model_errors, hubert_models, streams>>
     \/ /\ request[t].model \notin DOMAIN models
        /\ vc_class' = IF vc_class = None THEN configuration[t] ELSE vc_class
        /\ model_errors' = model_errors \cup {request[t].model}
        /\ UNCHANGED <<models, hubert_models, streams>>
     \/ Load(t) /\ UNCHANGED model_errors
  /\ Return(t, "raised")
  /\ UNCHANGED <<runtime, model_locks, resets>>

\* Threads that hold a model's lock, and a HuBERT model's.
Inferring == {t \in Threads : pc[t] \in {"infer", "extract", "synthesize"}}
Extracting == {t \in Threads : pc[t] = "extract"}

\* with model_lock: look the model up again. A reset may have removed it since.
LockModel(t) ==
  /\ pc[t] = "lock"
  /\ \A u \in Inferring : model_lock[u] # model_lock[t]
  /\ request[t].model \notin DOMAIN models
  /\ Return(t, "raised")
  /\ UNCHANGED <<runtime, cacheVars, streams>>

\* An OrderedDict of streams without one of them, which it has once if at all.
Without(kept, stream) ==
  LET at == {i \in DOMAIN kept : kept[i].stream = stream}
      i  == CHOOSE i \in at : TRUE
  IN  IF at = {} THEN kept ELSE SubSeq(kept, 1, i - 1) \o SubSeq(kept, i + 1, Len(kept))

\* Mutant: the least recently used streams are not dropped.
TouchedUnbounded(kept, stream, generation) ==
  Append(Without(kept, stream), [stream |-> stream, generation |-> generation])

\* The streams of a model after a request: a new generation replaces the stream,
\* the most recent stream is last, and the first are dropped beyond the bound.
Touched(kept, stream, generation) ==
  LET all == Append(Without(kept, stream), [stream |-> stream, generation |-> generation])
      excess == Len(all) - MaxStreams
  IN  SubSeq(all, IF excess > 0 THEN excess + 1 ELSE 1, Len(all))

Infer(t) ==
  /\ pc[t] = "lock"
  /\ \A u \in Inferring : model_lock[u] # model_lock[t]
  /\ request[t].model \in DOMAIN models
  /\ LET used == models[request[t].model]
     IN  /\ vc' = [vc EXCEPT ![t] = used]
         /\ streams' = [streams EXCEPT ![used] =
                          Touched(@, request[t].stream, request[t].generation)]
  /\ Goto(t, "infer")
  /\ UNCHANGED <<runtime, cacheVars, configuration, request, model_lock, answer>>

\* Mutant: the lock around HuBERT belongs to the model that uses it.
HubertLockOfModel(used) == used

\* vc.hubert_lock is the lock of the shared HuBERT resource.
HubertLock(used) == used.hubert

\* with vc.hubert_lock: the features are extracted.
Extract(t) ==
  /\ pc[t] = "infer"
  /\ \A u \in Extracting : HubertLock(vc[u]) # HubertLock(vc[t])
  /\ Goto(t, "extract")
  /\ UNCHANGED <<runtime, cacheVars, streams, localVars, answer>>

Synthesize(t) ==
  /\ pc[t] = "extract"
  /\ Goto(t, "synthesize")
  /\ UNCHANGED <<runtime, cacheVars, streams, localVars, answer>>

\* infer_window returns, or raises wherever it is.
Converted(t) ==
  /\ \/ pc[t] = "synthesize" /\ Return(t, "converted")
     \/ t \in Inferring /\ Return(t, "raised")
  /\ UNCHANGED <<runtime, cacheVars, streams>>
-----------------------------------------------------------------------------
\* SettingsEndpoint.handle: configure the runtime, ...
Configure ==
  /\ pc[Main] = "idle"
  /\ resets < MaxResets
  /\ \E c \in Configurations : runtime' = c
  /\ answer' = "none"
  /\ Goto(Main, "reset")
  /\ UNCHANGED <<cacheVars, streams, localVars>>

\* Mutant: reset does not drop the HuBERT models.
HubertModelsKept == hubert_models

HubertModelsAfterReset == Empty

\* ... reset, under self.lock (models in use live on with the threads that use
\* them), and then warmup, which converts silence with the model of the settings.
reset ==
  /\ pc[Main] = "reset"
  /\ models' = Empty
  /\ model_errors' = {}
  /\ model_locks' = Empty
  /\ hubert_models' = HubertModelsAfterReset
  /\ vc_class' = None
  /\ resets' = resets + 1
  /\ streams' = [used \in {vc[t] : t \in Inferring} |-> streams[used]]
  /\ Goto(Main, "warmup")
  /\ UNCHANGED <<runtime, localVars, answer>>

warmup ==
  /\ pc[Main] = "warmup"
  /\ \/ Begin(Main, runtime.model, Main, 0)
     \/ Return(Main, "raised") /\ UNCHANGED <<runtime, cacheVars, streams>>

\* warmup ends: under self.lock, no model keeps the stream of the warmup.
Warmed ==
  /\ pc[Main] = "warm"
  /\ streams' = [used \in DOMAIN streams |->
                   IF used \in {models[key] : key \in DOMAIN models}
                   THEN Without(streams[used], Main)
                   ELSE streams[used]]
  /\ answer' = AnswerTo("converted")
  /\ Goto(Main, "idle")
  /\ UNCHANGED <<runtime, cacheVars, localVars>>
-----------------------------------------------------------------------------
convert(t) ==
  \/ Enter(t)
  \/ EnterRaises(t)
  \/ LockModel(t)
  \/ Infer(t)
  \/ Extract(t)
  \/ Synthesize(t)
  \/ Converted(t)

Next ==
  \/ \E w \in Workers : Request(w)
  \/ \E t \in Threads : convert(t)
  \/ Configure
  \/ reset
  \/ warmup
  \/ Warmed

Spec == Init /\ [][Next]_vars
-----------------------------------------------------------------------------
\* Every variable has its type; a model's streams never exceed their bound, and a
\* path that is loaded is not also one that failed to load.
TypeOK ==
  /\ runtime \in Configurations \cup {None}
  /\ vc_class \in Configurations \cup {None}
  /\ DOMAIN models \subseteq Models
  /\ model_errors \subseteq Models \ DOMAIN models
  /\ \A used \in DOMAIN streams : Len(streams[used]) <= MaxStreams
  /\ resets \in 0 .. MaxResets
  /\ pc \in [Threads -> {"idle", "enter", "lock", "infer", "extract",
                         "synthesize", "reset", "warmup", "warm"}]
  /\ answer \in {"none", "ok", "failed"}

\* Two conversions use one model at a time only if a reset came between the steps
\* in which they took its lock: the lock is looked up before the wait, the model
\* after it.
InferencesAreSerial ==
  \A t, u \in Inferring :
    t # u /\ vc[t] = vc[u] => model_lock[t].resets # model_lock[u].resets

\* The HuBERT model that several models share serves one conversion at a time,
\* whatever resets replaced it while some of them still used it.
OneExtractionPerHubert ==
  \A t, u \in Extracting : t # u => vc[t].hubert # vc[u].hubert

\* A conversion never uses a model from before the reset that preceded its start,
\* and a model never uses a HuBERT model from before the model's own.
NothingOutlivesReset ==
  \A t \in Inferring :
    /\ vc[t].resets >= model_lock[t].resets
    /\ vc[t].hubert.resets = vc[t].resets

\* Settings are answered with OK only when their model is loaded, and the warmup
\* leaves no stream behind in any model that a source could run into.
WarmedUp ==
  pc[Main] = "idle" /\ answer = "ok" =>
    /\ runtime.model \in DOMAIN models
    /\ \A key \in DOMAIN models :
         \A i \in DOMAIN streams[models[key]] : streams[models[key]][i].stream # Main

\* Once settings are answered with OK, inference runs as they say ("RVC worker
\* configured to use %d CPU threads", rvc-filter.cpp:275).
SettingsTakeEffect ==
  pc[Main] = "idle" /\ answer = "ok" =>
    /\ vc_class.threads = runtime.threads
    /\ \A key \in DOMAIN models : models[key].hubert.hubert = runtime.hubert
===========================================================================
