------------------------- MODULE RvcInferenceProofs -------------------------
(***************************************************************************)
(* Conversions, resets and warm-ups share models safely, for any number of *)
(* threads, models and resets. Types is inductive; given it, so is Current:*)
(* caches hold what was made since the last reset, and threads hold what   *)
(* the caches had when they looked.                                        *)
(***************************************************************************)
EXTENDS RvcInference, SequenceTheorems, TLAPS

Labels == {"idle", "enter", "lock", "infer", "extract", "synthesize", "reset", "warmup",
           "warm"}
Using == {"infer", "extract", "synthesize"}

RequestsOf == [model : Models, stream : Threads, generation : Nat]
Locks      == [model : Models, resets : Nat]
Huberts    == [hubert : STRING, resets : Nat]
VCs        == [model : Models, resets : Nat, hubert : Huberts]

\* What the locals of a conversion and the caches are.
Types ==
  /\ resets \in Nat
  /\ runtime \in Configurations \cup {None}
  /\ pc \in [Threads -> Labels]
  /\ configuration \in [Threads -> Configurations \cup {None}]
  /\ request \in [Threads -> RequestsOf \cup {None}]
  /\ model_lock \in [Threads -> Locks \cup {None}]
  /\ vc \in [Threads -> VCs \cup {None}]
  /\ \A key \in DOMAIN models : key \in Models /\ models[key] \in VCs
  /\ \A key \in DOMAIN model_locks : model_locks[key] \in Locks
  /\ \A path \in DOMAIN hubert_models : hubert_models[path] \in Huberts
  /\ \A t \in Threads :
       /\ pc[t] \in {"enter", "lock"} \cup Using => request[t] \in RequestsOf
       /\ pc[t] = "enter" => configuration[t] \in Configurations
       /\ pc[t] \in {"lock"} \cup Using => model_lock[t] \in Locks
       /\ pc[t] \in Using => vc[t] \in VCs

\* The configurations name a model and a HuBERT model.
LEMMA ConfigurationsAreTyped ==
  /\ \A c \in Configurations : c.model \in Models /\ c.hubert \in STRING
  /\ None \notin Configurations
BY InferenceAssumption DEF None

\* With keeps to what its values may be.
LEMMA WithStaysIn ==
  ASSUME NEW S, NEW f, NEW key, NEW value \in S, \A k \in DOMAIN f : f[k] \in S
  PROVE  \A k \in DOMAIN With(f, key, value) : With(f, key, value)[k] \in S
BY DEF With

\* What Begin and Return make of the locals of their thread.
LEMMA BeginIsTyped ==
  ASSUME Types, NEW t \in Threads, NEW model \in Models, NEW generation \in Nat,
         Begin(t, model, t, generation)
  PROVE  /\ Types'
         /\ pc' = [pc EXCEPT ![t] = "enter"]
         /\ UNCHANGED <<cacheVars, model_lock, vc>>
<1>1. runtime \in Configurations
  BY DEF Begin, Types
<1>2. [model |-> model, stream |-> t, generation |-> generation] \in RequestsOf
  BY DEF RequestsOf
<1> QED
  BY <1>1, <1>2 DEF Begin, Goto, Types, Labels, Using, cacheVars

\* A conversion that returns keeps the types, if the caches are typed.
LEMMA ReturnIsTyped ==
  ASSUME Types, NEW t \in Threads, NEW outcome, Return(t, outcome),
         UNCHANGED <<runtime, resets>>,
         \A key \in DOMAIN models' : key \in Models /\ models'[key] \in VCs,
         \A key \in DOMAIN model_locks' : model_locks'[key] \in Locks,
         \A path \in DOMAIN hubert_models' : hubert_models'[path] \in Huberts
  PROVE  Types' /\ \E label \in {"idle", "warm"} : pc' = [pc EXCEPT ![t] = label]
<1>1. \E label \in {"idle", "warm"} : pc' = [pc EXCEPT ![t] = label]
  BY DEF Return, Goto
<1> QED
  BY <1>1 DEF Return, Types, Labels, Using

\* What Load makes of the caches.
LEMMA LoadIsTyped ==
  ASSUME Types, NEW t \in Threads, pc[t] = "enter", Load(t), UNCHANGED resets
  PROVE  /\ \A key \in DOMAIN models' : key \in Models /\ models'[key] \in VCs
         /\ \A path \in DOMAIN hubert_models' : hubert_models'[path] \in Huberts
<1> DEFINE key    == request[t].model
           path   == configuration[t].hubert
           hubert == HubertFor(path)
           loaded == [model |-> key, resets |-> resets, hubert |-> hubert]
<1>1. key \in Models /\ path \in STRING /\ resets \in Nat
  BY ConfigurationsAreTyped DEF Types, RequestsOf, Using
<1>2. hubert \in Huberts
  BY <1>1 DEF HubertFor, Huberts, Types
<1>3. loaded \in VCs
  BY <1>1, <1>2 DEF VCs
<1>4. \/ UNCHANGED <<models, hubert_models>>
      \/ models' = With(models, key, loaded) /\ hubert_models' = With(hubert_models, path, hubert)
  BY DEF Load
<1> HIDE DEF key, path, hubert, loaded
<1>5. CASE UNCHANGED <<models, hubert_models>>
  BY <1>5 DEF Types
<1>6. CASE models' = With(models, key, loaded) /\ hubert_models' = With(hubert_models, path, hubert)
  <2>1. \A k \in DOMAIN models' : models'[k] \in VCs
    BY <1>3, <1>6, WithStaysIn DEF Types
  <2>2. \A k \in DOMAIN models' : k \in Models
    BY <1>1, <1>6 DEF With, Types
  <2>3. \A p \in DOMAIN hubert_models' : hubert_models'[p] \in Huberts
    BY <1>2, <1>6, WithStaysIn DEF Types
  <2> QED
    BY <2>1, <2>2, <2>3
<1> QED
  BY <1>4, <1>5, <1>6

\* The types are kept by every step of a conversion, a reset and a warm-up.
THEOREM TypesAreKept == Spec => []Types
<1>1. Init => Types
  BY DEF Init, Types, Labels, Using, Empty
<1>2. Types /\ [Next]_vars => Types'
  <2> SUFFICES ASSUME Types, [Next]_vars PROVE Types'
    OBVIOUS
  <2>1. ASSUME NEW w \in Workers, Request(w) PROVE Types'
    BY <2>1, BeginIsTyped, InferenceAssumption DEF Request, Threads
  <2>2. ASSUME NEW t \in Threads, Enter(t) PROVE Types'
    <3> DEFINE key == request[t].model
               lock == LockOf(t, key)
    <3>1. key \in Models /\ resets \in Nat
      BY <2>2 DEF Enter, Types, RequestsOf
    <3>2. lock \in Locks
      BY <3>1 DEF LockOf, Locks, Types
    <3>3. /\ \A k \in DOMAIN models' : k \in Models /\ models'[k] \in VCs
          /\ \A path \in DOMAIN hubert_models' : hubert_models'[path] \in Huberts
      BY <2>2, LoadIsTyped DEF Enter
    <3>4. /\ pc[t] = "enter" /\ pc' = [pc EXCEPT ![t] = "lock"]
          /\ model_locks' = With(model_locks, key, lock)
          /\ model_lock' = [model_lock EXCEPT ![t] = lock]
          /\ UNCHANGED <<runtime, resets, configuration, request, vc>>
      BY <2>2 DEF Enter, Goto
    <3> HIDE DEF key, lock
    <3>5. \A k \in DOMAIN model_locks' : model_locks'[k] \in Locks
      BY <3>2, <3>4, WithStaysIn DEF Types
    <3> QED
      BY <3>2, <3>3, <3>4, <3>5 DEF Types, Labels, Using
  <2>3. ASSUME NEW t \in Threads, EnterRaises(t) PROVE Types'
    <3>1. /\ \A k \in DOMAIN models' : k \in Models /\ models'[k] \in VCs
          /\ \A path \in DOMAIN hubert_models' : hubert_models'[path] \in Huberts
      BY <2>3, LoadIsTyped DEF EnterRaises, Types
    <3> QED
      BY <2>3, <3>1, ReturnIsTyped DEF EnterRaises, Types
  <2>4. ASSUME NEW t \in Threads, LockModel(t) \/ Converted(t) PROVE Types'
    <3>1. /\ UNCHANGED <<runtime, cacheVars>>
          /\ \E outcome \in {"raised", "converted"} : Return(t, outcome)
      BY <2>4 DEF LockModel, Converted
    <3> QED
      BY <3>1, ReturnIsTyped DEF Types, cacheVars
  <2>5. ASSUME NEW t \in Threads, Infer(t) PROVE Types'
    BY <2>5 DEF Infer, Goto, Types, Labels, Using, cacheVars
  <2>6. ASSUME NEW t \in Threads, Extract(t) \/ Synthesize(t) PROVE Types'
    BY <2>6 DEF Extract, Synthesize, Goto, Types, Labels, Using, cacheVars, localVars
  <2>7. CASE Configure
    BY <2>7 DEF Configure, Goto, Types, Labels, Using, cacheVars, localVars
  <2>8. CASE reset
    <3>1. /\ models' = Empty /\ model_locks' = Empty /\ hubert_models' = Empty
          /\ resets' = resets + 1
          /\ pc' = [pc EXCEPT ![Main] = "warmup"]
          /\ UNCHANGED <<runtime, configuration, request, model_lock, vc>>
      BY <2>8 DEF reset, HubertModelsAfterReset, Goto, localVars
    <3>2. DOMAIN Empty = {}
      BY DEF Empty
    <3>3. pc' \in [Threads -> Labels]
      BY <3>1 DEF Types, Labels
    <3>4. \A t \in Threads : pc'[t] = pc[t] \/ pc'[t] = "warmup"
      BY <3>1 DEF Types
    <3> QED
      BY <3>1, <3>2, <3>3, <3>4 DEF Types, Using
  <2>9. CASE warmup
    <3>1. CASE Begin(Main, runtime.model, Main, 0)
      BY <3>1, BeginIsTyped, ConfigurationsAreTyped DEF Begin, Types, Threads
    <3>2. CASE Return(Main, "raised") /\ UNCHANGED <<runtime, cacheVars, streams>>
      BY <3>2, ReturnIsTyped DEF Types, Threads, cacheVars
    <3> QED
      BY <2>9, <3>1, <3>2 DEF warmup
  <2>10. CASE Warmed
    BY <2>10 DEF Warmed, Goto, Types, Labels, Using, cacheVars, localVars
  <2>11. CASE UNCHANGED vars
    BY <2>11 DEF vars, cacheVars, localVars, Types
  <2> QED
    BY <2>1, <2>2, <2>3, <2>4, <2>5, <2>6, <2>7, <2>8, <2>9, <2>10, <2>11
       DEF Next, convert
<1> QED
  BY <1>1, <1>2, PTL DEF Spec

-----------------------------------------------------------------------------
\* Caches hold what was made since the last reset. A thread that waits for a lock, or
\* has it, took it at some reset; the model it uses was loaded at that reset or a
\* later one, and its HuBERT model with it.
Current ==
  /\ \A key \in DOMAIN models :
       /\ models[key].model = key
       /\ models[key].resets = resets
       /\ models[key].hubert.resets = resets
  /\ \A key \in DOMAIN model_locks : model_locks[key] = [model |-> key, resets |-> resets]
  /\ \A path \in DOMAIN hubert_models : hubert_models[path].resets = resets
  /\ \A t \in Threads :
       /\ pc[t] \in {"lock"} \cup Using =>
            model_lock[t].model = request[t].model /\ model_lock[t].resets <= resets
       /\ pc[t] \in Using =>
            /\ vc[t].model = request[t].model
            /\ vc[t].resets \in model_lock[t].resets .. resets
            /\ vc[t].hubert.resets = vc[t].resets

\* What Load makes of the caches is current.
LEMMA LoadIsCurrent ==
  ASSUME Types, Current, NEW t \in Threads, pc[t] = "enter", Load(t), UNCHANGED resets
  PROVE  /\ \A key \in DOMAIN models' :
              /\ models'[key].model = key
              /\ models'[key].resets = resets
              /\ models'[key].hubert.resets = resets
         /\ \A path \in DOMAIN hubert_models' : hubert_models'[path].resets = resets
<1> DEFINE key    == request[t].model
           path   == configuration[t].hubert
           hubert == HubertFor(path)
           loaded == [model |-> key, resets |-> resets, hubert |-> hubert]
<1>1. hubert.resets = resets
  BY DEF HubertFor, Current
<1>2. loaded.model = key /\ loaded.resets = resets /\ loaded.hubert.resets = resets
  BY <1>1
<1>3. \/ UNCHANGED <<models, hubert_models>>
      \/ models' = With(models, key, loaded) /\ hubert_models' = With(hubert_models, path, hubert)
  BY DEF Load
<1> HIDE DEF key, path, hubert, loaded
<1>4. CASE UNCHANGED <<models, hubert_models>>
  BY <1>4 DEF Current
<1>5. CASE models' = With(models, key, loaded) /\ hubert_models' = With(hubert_models, path, hubert)
  <2>1. ASSUME NEW k \in DOMAIN models'
        PROVE  /\ models'[k].model = k
               /\ models'[k].resets = resets
               /\ models'[k].hubert.resets = resets
    <3>1. CASE k = key
      BY <1>2, <1>5, <3>1 DEF With
    <3>2. CASE k # key
      <4>1. k \in DOMAIN models /\ models'[k] = models[k]
        BY <1>5, <2>1, <3>2 DEF With
      <4> QED
        BY <4>1 DEF Current
    <3> QED
      BY <3>1, <3>2
  <2>2. ASSUME NEW p \in DOMAIN hubert_models' PROVE hubert_models'[p].resets = resets
    <3>1. CASE p = path
      BY <1>1, <1>5, <3>1 DEF With
    <3>2. CASE p # path
      <4>1. p \in DOMAIN hubert_models /\ hubert_models'[p] = hubert_models[p]
        BY <1>5, <2>2, <3>2 DEF With
      <4> QED
        BY <4>1 DEF Current
    <3> QED
      BY <3>1, <3>2
  <2> QED
    BY <2>1, <2>2
<1> QED
  BY <1>3, <1>4, <1>5

\* A step of one thread that gives up its locals, or leaves them, keeps what Current
\* says of threads.
LEMMA OthersStayCurrent ==
  ASSUME Types, Current, NEW t \in Threads,
         UNCHANGED resets,
         \A u \in Threads \ {t} :
           /\ pc'[u] = pc[u] /\ request'[u] = request[u]
           /\ model_lock'[u] = model_lock[u] /\ vc'[u] = vc[u],
         \/ pc'[t] \notin {"lock"} \cup Using
         \/ /\ request'[t] = request[t] /\ model_lock'[t] = model_lock[t] /\ vc'[t] = vc[t]
            /\ pc'[t] \in Using => pc[t] \in Using
            /\ pc'[t] = "lock" => pc[t] = "lock"
  PROVE  \A u \in Threads :
           /\ pc'[u] \in {"lock"} \cup Using =>
                model_lock'[u].model = request'[u].model /\ model_lock'[u].resets <= resets'
           /\ pc'[u] \in Using =>
                /\ vc'[u].model = request'[u].model
                /\ vc'[u].resets \in model_lock'[u].resets .. resets'
                /\ vc'[u].hubert.resets = vc'[u].resets
<1> SUFFICES ASSUME NEW u \in Threads
             PROVE  /\ pc'[u] \in {"lock"} \cup Using =>
                         /\ model_lock'[u].model = request'[u].model
                         /\ model_lock'[u].resets <= resets'
                    /\ pc'[u] \in Using =>
                         /\ vc'[u].model = request'[u].model
                         /\ vc'[u].resets \in model_lock'[u].resets .. resets'
                         /\ vc'[u].hubert.resets = vc'[u].resets
  OBVIOUS
<1>1. CASE u # t
  BY <1>1 DEF Current
<1>2. CASE u = t
  BY <1>2 DEF Current
<1> QED
  BY <1>1, <1>2

\* Current is kept, and with it what no reset may take from under a conversion.
LEMMA CurrentIsKept == Spec => []Current
<1>1. Init => Current
  BY DEF Init, Current, Using, Empty
<1>2. Types /\ Current /\ [Next]_vars => Current'
  <2> SUFFICES ASSUME Types, Current, [Next]_vars PROVE Current'
    OBVIOUS
  <2>1. ASSUME NEW t \in Threads, NEW model, NEW generation,
               Begin(t, model, t, generation)
        PROVE  Current'
    <3>1. /\ pc'[t] = "enter" /\ UNCHANGED cacheVars
          /\ \A u \in Threads \ {t} :
               /\ pc'[u] = pc[u] /\ request'[u] = request[u]
               /\ model_lock'[u] = model_lock[u] /\ vc'[u] = vc[u]
      BY <2>1 DEF Begin, Goto, Types
    <3>2. pc'[t] \notin {"lock"} \cup Using
      BY <3>1 DEF Using
    <3> QED
      BY <3>1, <3>2, OthersStayCurrent DEF Current, cacheVars
  <2>2. ASSUME NEW t \in Threads, NEW outcome, Return(t, outcome)
        PROVE  /\ pc'[t] \notin {"lock"} \cup Using
               /\ \A u \in Threads \ {t} :
                    /\ pc'[u] = pc[u] /\ request'[u] = request[u]
                    /\ model_lock'[u] = model_lock[u] /\ vc'[u] = vc[u]
    BY <2>2 DEF Return, Goto, Types, Using
  <2>3. ASSUME NEW t \in Threads, Enter(t) PROVE Current'
    <3> DEFINE key == request[t].model
               lock == LockOf(t, key)
    <3>1. lock = [model |-> key, resets |-> resets]
      BY DEF LockOf, Current
    <3>2. lock.model = key /\ lock.resets = resets /\ resets <= resets
      BY <3>1 DEF Types
    <3>3. /\ pc[t] = "enter" /\ pc' = [pc EXCEPT ![t] = "lock"] /\ Load(t)
          /\ model_locks' = With(model_locks, key, lock)
          /\ model_lock' = [model_lock EXCEPT ![t] = lock]
          /\ UNCHANGED <<runtime, resets, configuration, request, vc>>
      BY <2>3 DEF Enter, Goto
    <3>4. key = request[t].model
      OBVIOUS
    <3> HIDE DEF key, lock
    <3>5. ASSUME NEW k \in DOMAIN model_locks'
          PROVE  model_locks'[k] = [model |-> k, resets |-> resets]
      <4>1. CASE k = key
        BY <3>1, <3>3, <4>1 DEF With
      <4>2. CASE k # key
        BY <3>3, <3>5, <4>2 DEF With, Current
      <4> QED
        BY <4>1, <4>2
    <3>6. /\ pc'[t] = "lock" /\ model_lock'[t] = lock
          /\ \A u \in Threads \ {t} : pc'[u] = pc[u] /\ model_lock'[u] = model_lock[u]
      BY <3>3 DEF Types
    <3>7. \A u \in Threads :
            /\ pc'[u] \in {"lock"} \cup Using =>
                 model_lock'[u].model = request'[u].model /\ model_lock'[u].resets <= resets'
            /\ pc'[u] \in Using =>
                 /\ vc'[u].model = request'[u].model
                 /\ vc'[u].resets \in model_lock'[u].resets .. resets'
                 /\ vc'[u].hubert.resets = vc'[u].resets
      <4> SUFFICES ASSUME NEW u \in Threads
                   PROVE  /\ pc'[u] \in {"lock"} \cup Using =>
                               /\ model_lock'[u].model = request'[u].model
                               /\ model_lock'[u].resets <= resets'
                          /\ pc'[u] \in Using =>
                               /\ vc'[u].model = request'[u].model
                               /\ vc'[u].resets \in model_lock'[u].resets .. resets'
                               /\ vc'[u].hubert.resets = vc'[u].resets
        OBVIOUS
      <4>1. CASE u # t
        BY <3>3, <3>6, <4>1 DEF Current
      <4>2. CASE u = t
        BY <3>2, <3>3, <3>4, <3>6, <4>2 DEF Using
      <4> QED
        BY <4>1, <4>2
    <3> QED
      BY <3>3, <3>5, <3>7, LoadIsCurrent DEF Current
  <2>4. ASSUME NEW t \in Threads, EnterRaises(t) PROVE Current'
    <3>1. /\ pc[t] = "enter" /\ Return(t, "raised") /\ UNCHANGED <<model_locks, resets>>
          /\ UNCHANGED <<models, hubert_models>> \/ Load(t)
      BY <2>4 DEF EnterRaises
    <3>2. /\ \A key \in DOMAIN models' :
               /\ models'[key].model = key
               /\ models'[key].resets = resets
               /\ models'[key].hubert.resets = resets
          /\ \A path \in DOMAIN hubert_models' : hubert_models'[path].resets = resets
      BY <3>1, LoadIsCurrent DEF Current
    <3> QED
      BY <2>2, <3>1, <3>2, OthersStayCurrent DEF Current
  <2>5. ASSUME NEW t \in Threads, NEW outcome, Return(t, outcome), UNCHANGED cacheVars
        PROVE  Current'
    BY <2>2, <2>5, OthersStayCurrent DEF Current, cacheVars
  <2>6. ASSUME NEW t \in Threads, Infer(t) PROVE Current'
    <3>1. /\ pc[t] = "lock" /\ pc' = [pc EXCEPT ![t] = "infer"]
          /\ request[t].model \in DOMAIN models
          /\ vc' = [vc EXCEPT ![t] = models[request[t].model]]
          /\ UNCHANGED <<models, model_locks, hubert_models, resets, request, model_lock>>
      BY <2>6 DEF Infer, Goto, cacheVars
    <3>2. /\ vc'[t] = models[request[t].model] /\ pc'[t] = "infer"
          /\ \A u \in Threads \ {t} : vc'[u] = vc[u] /\ pc'[u] = pc[u]
      BY <3>1 DEF Types
    <3>3. /\ model_lock[t].model = request[t].model
          /\ model_lock[t].resets <= resets
          /\ model_lock[t].resets \in Nat
      BY <3>1 DEF Types, Current, Locks
    <3>4. /\ vc'[t].model = request[t].model
          /\ vc'[t].resets = resets
          /\ vc'[t].hubert.resets = resets
      BY <3>1, <3>2 DEF Current
    <3>5. \A u \in Threads :
            /\ pc'[u] \in {"lock"} \cup Using =>
                 model_lock'[u].model = request'[u].model /\ model_lock'[u].resets <= resets'
            /\ pc'[u] \in Using =>
                 /\ vc'[u].model = request'[u].model
                 /\ vc'[u].resets \in model_lock'[u].resets .. resets'
                 /\ vc'[u].hubert.resets = vc'[u].resets
      <4> SUFFICES ASSUME NEW u \in Threads
                   PROVE  /\ pc'[u] \in {"lock"} \cup Using =>
                               /\ model_lock'[u].model = request'[u].model
                               /\ model_lock'[u].resets <= resets'
                          /\ pc'[u] \in Using =>
                               /\ vc'[u].model = request'[u].model
                               /\ vc'[u].resets \in model_lock'[u].resets .. resets'
                               /\ vc'[u].hubert.resets = vc'[u].resets
        OBVIOUS
      <4>1. CASE u # t
        BY <3>1, <3>2, <4>1 DEF Current
      <4>2. CASE u = t
        <5>1. vc'[t].resets \in model_lock[t].resets .. resets
          BY <3>3, <3>4 DEF Types
        <5> QED
          BY <3>1, <3>3, <3>4, <4>2, <5>1
      <4> QED
        BY <4>1, <4>2
    <3> QED
      BY <3>1, <3>5 DEF Current
  <2>7. ASSUME NEW t \in Threads, Extract(t) \/ Synthesize(t) PROVE Current'
    <3>1. /\ UNCHANGED <<cacheVars, localVars>>
          /\ pc[t] \in Using /\ pc'[t] \in Using \ {"lock"}
          /\ \A u \in Threads \ {t} : pc'[u] = pc[u]
      BY <2>7 DEF Extract, Synthesize, Goto, Types, Using
    <3> QED
      BY <3>1, OthersStayCurrent DEF Current, cacheVars, localVars
  <2>8. CASE reset
    <3>1. /\ models' = Empty /\ model_locks' = Empty /\ hubert_models' = Empty
          /\ resets' = resets + 1 /\ DOMAIN Empty = {}
          /\ UNCHANGED <<request, model_lock, vc>>
          /\ \A t \in Threads : pc'[t] = pc[t] \/ pc'[t] = "warmup"
      BY <2>8 DEF reset, HubertModelsAfterReset, Goto, localVars, Empty, Types
    <3>2. ASSUME NEW t \in Threads, pc'[t] \in {"lock"} \cup Using
          PROVE  /\ pc[t] = pc'[t]
                 /\ model_lock[t].model = request[t].model
                 /\ model_lock[t].resets <= resets + 1
      <4>1. pc[t] = pc'[t]
        BY <3>1, <3>2 DEF Using
      <4>2. model_lock[t].resets \in Nat /\ model_lock[t].resets <= resets
        BY <3>2, <4>1 DEF Types, Current, Locks
      <4> QED
        BY <3>2, <4>1, <4>2 DEF Types, Current
    <3>3. ASSUME NEW t \in Threads, pc'[t] \in Using
          PROVE  /\ vc[t].model = request[t].model
                 /\ vc[t].resets \in model_lock[t].resets .. resets + 1
                 /\ vc[t].hubert.resets = vc[t].resets
      <4>1. pc[t] \in Using
        BY <3>2, <3>3
      <4>2. /\ model_lock[t].resets \in Nat
            /\ vc[t].resets \in model_lock[t].resets .. resets
        BY <4>1 DEF Types, Current, Locks
      <4> QED
        BY <4>1, <4>2 DEF Types, Current
    <3> QED
      BY <3>1, <3>2, <3>3 DEF Current
  <2>9. CASE Configure \/ Warmed
    <3>1. /\ UNCHANGED <<cacheVars, localVars>>
          /\ Main \in Threads
          /\ pc'[Main] \notin {"lock"} \cup Using
          /\ \A u \in Threads \ {Main} : pc'[u] = pc[u]
      BY <2>9 DEF Configure, Warmed, Goto, Types, Using, Threads
    <3> QED
      BY <3>1, OthersStayCurrent DEF Current, cacheVars, localVars
  <2>10. CASE UNCHANGED vars
    BY <2>10 DEF vars, cacheVars, localVars, Current
  <2>11. [Next]_vars =>
           \/ UNCHANGED vars \/ Configure \/ reset \/ Warmed
           \/ \E t \in Threads :
                \/ Enter(t) \/ EnterRaises(t) \/ Infer(t) \/ Extract(t) \/ Synthesize(t)
                \/ \E model, generation : Begin(t, model, t, generation)
                \/ \E outcome : Return(t, outcome) /\ UNCHANGED cacheVars
    BY DEF Next, convert, Request, LockModel, Converted, warmup, Threads
  <2> QED
    BY <2>1, <2>3, <2>4, <2>5, <2>6, <2>7, <2>8, <2>9, <2>10, <2>11
<1> QED
  BY <1>1, <1>2, TypesAreKept, PTL DEF Spec

\* No conversion uses a model, or a HuBERT model, from before the reset it started
\* after, for any number of threads and resets.
THEOREM NoStaleModels == Spec => []NothingOutlivesReset
<1>1. Types /\ Current => NothingOutlivesReset
  <2> SUFFICES ASSUME Types, Current, NEW t \in Inferring
               PROVE  /\ vc[t].resets >= model_lock[t].resets
                      /\ vc[t].hubert.resets = vc[t].resets
    BY DEF NothingOutlivesReset
  <2>1. t \in Threads /\ pc[t] \in Using
    BY DEF Inferring, Using
  <2>2. model_lock[t].resets \in Nat /\ vc[t].resets \in model_lock[t].resets .. resets
        /\ vc[t].hubert.resets = vc[t].resets
    BY <2>1 DEF Types, Current, Locks
  <2> QED
    BY <2>2 DEF Types
<1> QED
  BY <1>1, TypesAreKept, CurrentIsKept, PTL


\* Every step but Infer leaves whoever is inferring with the model and the lock that
\* it has, and every step but Extract lets nobody start to extract.
LEMMA InferringKeeps ==
  ASSUME Types, [Next]_vars
  PROVE  /\ \/ \E t \in Threads : Infer(t)
            \/ \A t \in Inferring' : /\ t \in Inferring
                                     /\ vc'[t] = vc[t] /\ model_lock'[t] = model_lock[t]
         /\ \/ \E t \in Threads : Extract(t)
            \/ \A t \in Extracting' : t \in Extracting /\ vc'[t] = vc[t]
<1> DEFINE Kept == \A t \in Threads :
             /\ pc'[t] \in Using =>
                  pc[t] \in Using /\ vc'[t] = vc[t] /\ model_lock'[t] = model_lock[t]
             /\ pc'[t] = "extract" => pc[t] = "extract" /\ vc'[t] = vc[t]
<1>1. Inferring = {t \in Threads : pc[t] \in Using}
      /\ Inferring' = {t \in Threads : pc'[t] \in Using}
  BY DEF Inferring, Using
<1>2. ASSUME NEW t \in Threads, NEW outcome, Return(t, outcome) PROVE Kept
  BY <1>2 DEF Return, Goto, Types, Using
<1>3. ASSUME NEW t \in Threads, NEW model, NEW generation, Begin(t, model, t, generation)
      PROVE  Kept
  BY <1>3 DEF Begin, Goto, Types, Using
<1>4. ASSUME NEW t \in Threads, Enter(t) PROVE Kept
  BY <1>4 DEF Enter, Goto, Types, Using
<1>5. ASSUME Configure \/ reset \/ Warmed PROVE Kept
  BY <1>5 DEF Configure, reset, Warmed, Goto, Types, Using, localVars, Threads
<1>6. ASSUME UNCHANGED vars PROVE Kept
  BY <1>6 DEF vars, localVars
<1>7. ASSUME NEW t \in Threads, Synthesize(t) PROVE Kept
  BY <1>7 DEF Synthesize, Goto, Types, Using, localVars
<1>8. ASSUME NEW t \in Threads, Infer(t) \/ Extract(t)
      PROVE  /\ Infer(t) => \A u \in Threads : pc'[u] = "extract" =>
                              pc[u] = "extract" /\ vc'[u] = vc[u]
             /\ Extract(t) => \A u \in Threads : pc'[u] \in Using =>
                  pc[u] \in Using /\ vc'[u] = vc[u] /\ model_lock'[u] = model_lock[u]
  BY <1>8 DEF Infer, Extract, Goto, Types, Using, localVars
<1>9. \/ UNCHANGED vars \/ Configure \/ reset \/ Warmed
      \/ \E t \in Threads :
           \/ Enter(t) \/ Infer(t) \/ Extract(t) \/ Synthesize(t)
           \/ \E model, generation : Begin(t, model, t, generation)
           \/ \E outcome : Return(t, outcome)
  BY DEF Next, convert, Request, EnterRaises, LockModel, Converted, warmup, Threads
<1>10. Kept \/ \E t \in Threads : Infer(t) \/ Extract(t)
  BY <1>2, <1>3, <1>4, <1>5, <1>6, <1>7, <1>9
<1> QED
  BY <1>1, <1>8, <1>10 DEF Extracting

\* Two conversions share a model only across a reset: with the same lock they would
\* have to wait for each other, and between two resets a model has one lock.
THEOREM ModelsAreSerial == Spec => []InferencesAreSerial
<1>1. Init => InferencesAreSerial
  BY DEF Init, InferencesAreSerial, Inferring
<1>2. Types /\ Current /\ InferencesAreSerial /\ [Next]_vars => InferencesAreSerial'
  <2> SUFFICES ASSUME Types, Current, InferencesAreSerial, [Next]_vars
               PROVE  InferencesAreSerial'
    OBVIOUS
  <2>1. ASSUME NEW t \in Threads, Infer(t) PROVE InferencesAreSerial'
    <3>1. /\ pc[t] = "lock"
          /\ \A u \in Inferring : model_lock[u] # model_lock[t]
          /\ vc'[t] = models[request[t].model] /\ request[t].model \in DOMAIN models
          /\ UNCHANGED model_lock
          /\ \A u \in Threads \ {t} : vc'[u] = vc[u] /\ pc'[u] = pc[u]
      BY <2>1 DEF Infer, Goto, Types
    <3>2. Inferring' \subseteq Inferring \cup {t} /\ t \notin Inferring
      BY <3>1 DEF Inferring
    <3>3. model_lock[t] \in Locks /\ model_lock[t].model = request[t].model
          /\ vc'[t].model = request[t].model
      BY <3>1 DEF Types, Current
    <3>4. ASSUME NEW u \in Inferring, vc[u] = vc'[t]
          PROVE  model_lock[u].resets # model_lock[t].resets
      <4>1. u \in Threads /\ pc[u] \in Using
        BY DEF Inferring, Using
      <4>2. model_lock[u] \in Locks /\ model_lock[u].model = vc[u].model
        BY <4>1 DEF Types, Current
      <4>3. model_lock[u].model = model_lock[t].model
        BY <3>3, <3>4, <4>2
      <4>4. \A k, l \in Locks : k.model = l.model /\ k.resets = l.resets => k = l
        BY DEF Locks
      <4> QED
        BY <3>1, <3>3, <4>2, <4>3, <4>4
    <3>5. ASSUME NEW u \in Inferring', NEW w \in Inferring', u # w, vc'[u] = vc'[w]
          PROVE  model_lock'[u].resets # model_lock'[w].resets
      <4>1. CASE u = t
        <5>1. w \in Inferring /\ vc'[w] = vc[w]
          BY <3>1, <3>2, <3>5, <4>1 DEF Inferring
        <5> QED
          BY <3>1, <3>4, <3>5, <4>1, <5>1
      <4>2. CASE w = t
        <5>1. u \in Inferring /\ vc'[u] = vc[u]
          BY <3>1, <3>2, <3>5, <4>2 DEF Inferring
        <5> QED
          BY <3>1, <3>4, <3>5, <4>2, <5>1
      <4>3. CASE u # t /\ w # t
        <5>1. u \in Inferring /\ w \in Inferring /\ vc'[u] = vc[u] /\ vc'[w] = vc[w]
          BY <3>1, <3>2, <4>3 DEF Inferring
        <5> QED
          BY <3>1, <3>5, <5>1 DEF InferencesAreSerial
      <4> QED
        BY <4>1, <4>2, <4>3
    <3> QED
      BY <3>5 DEF InferencesAreSerial
  <2>2. CASE \A t \in Inferring' : /\ t \in Inferring
                                   /\ vc'[t] = vc[t] /\ model_lock'[t] = model_lock[t]
    BY <2>2 DEF InferencesAreSerial
  <2> QED
    BY <2>1, <2>2, InferringKeeps
<1> QED
  BY <1>1, <1>2, TypesAreKept, CurrentIsKept, PTL DEF Spec

\* A HuBERT model, shared by models and outliving resets in the hands of those who
\* use it, extracts for one conversion at a time.
THEOREM HubertsAreSerial == Spec => []OneExtractionPerHubert
<1>1. Init => OneExtractionPerHubert
  BY DEF Init, OneExtractionPerHubert, Extracting
<1>2. Types /\ OneExtractionPerHubert /\ [Next]_vars => OneExtractionPerHubert'
  <2> SUFFICES ASSUME Types, OneExtractionPerHubert, [Next]_vars
               PROVE  OneExtractionPerHubert'
    OBVIOUS
  <2>1. ASSUME NEW t \in Threads, Extract(t) PROVE OneExtractionPerHubert'
    <3>1. /\ \A u \in Extracting : vc[u].hubert # vc[t].hubert
          /\ UNCHANGED vc
          /\ Extracting' \subseteq Extracting \cup {t}
      BY <2>1 DEF Extract, HubertLock, Goto, localVars, Extracting, Types
    <3> QED
      BY <3>1 DEF OneExtractionPerHubert
  <2>2. CASE \A t \in Extracting' : t \in Extracting /\ vc'[t] = vc[t]
    BY <2>2 DEF OneExtractionPerHubert
  <2> QED
    BY <2>1, <2>2, InferringKeeps
<1> QED
  BY <1>1, <1>2, TypesAreKept, PTL DEF Spec
-----------------------------------------------------------------------------
Records  == [stream : Threads, generation : Nat]
Distinct(s) == \A i, j \in 1 .. Len(s) : i # j => s[i].stream # s[j].stream

\* What the streams of a model may be.
Orders == {s \in Seq(Records) : Distinct(s)}
Kept   == {s \in Orders : Len(s) <= MaxStreams}

\* A sequence without one of its elements.
Removed(s, i) == SubSeq(s, 1, i - 1) \o SubSeq(s, i + 1, Len(s))

\* What is behind that element moves to the front by one.
LEMMA RemovalProperties ==
  ASSUME NEW S, NEW s \in Seq(S), NEW i \in 1 .. Len(s)
  PROVE  /\ Removed(s, i) \in Seq(S) /\ Len(Removed(s, i)) = Len(s) - 1
         /\ \A j \in 1 .. Len(s) - 1 :
              Removed(s, i)[j] = IF j < i THEN s[j] ELSE s[j + 1]
<1> DEFINE u == SubSeq(s, 1, i - 1)
           v == SubSeq(s, i + 1, Len(s))
           r == u \o v
<1>1. Len(s) \in Nat /\ \A j \in 1 .. Len(s) : s[j] \in S
  BY LenProperties, ElementOfSeq
<1>2. /\ u \in Seq(S) /\ Len(u) = i - 1
      /\ \A j \in 1 .. i - 1 : u[j] = s[j]
  <2>1. \A j \in 1 .. i - 1 : s[j] \in S
    BY <1>1
  <2>2. /\ u \in Seq(S) /\ Len(u) = IF 1 <= i - 1 THEN i - 1 - 1 + 1 ELSE 0
        /\ \A j \in 1 .. i - 1 - 1 + 1 : u[j] = s[1 + j - 1]
    BY <1>1, <2>1, SubSeqProperties
  <2> QED
    BY <1>1, <2>2
<1>3. /\ v \in Seq(S) /\ Len(v) = Len(s) - i
      /\ \A j \in 1 .. Len(s) - i : v[j] = s[i + j]
  <2>1. \A j \in i + 1 .. Len(s) : s[j] \in S
    BY <1>1
  <2>2. /\ v \in Seq(S) /\ Len(v) = IF i + 1 <= Len(s) THEN Len(s) - (i + 1) + 1 ELSE 0
        /\ \A j \in 1 .. Len(s) - (i + 1) + 1 : v[j] = s[i + 1 + j - 1]
    BY <1>1, <2>1, SubSeqProperties
  <2> QED
    BY <1>1, <2>2
<1>4. Removed(s, i) = r
  BY DEF Removed
<1> HIDE DEF u, v
<1>5. /\ r \in Seq(S) /\ Len(r) = Len(u) + Len(v)
      /\ \A j \in 1 .. Len(u) + Len(v) : r[j] = IF j <= Len(u) THEN u[j] ELSE v[j - Len(u)]
  BY <1>2, <1>3, ConcatProperties
<1> HIDE DEF r
<1>6. Len(r) = Len(s) - 1
  BY <1>1, <1>2, <1>3, <1>5
<1>7. ASSUME NEW j \in 1 .. Len(r) PROVE r[j] = IF j < i THEN s[j] ELSE s[j + 1]
  <2>1. CASE j < i
    <3>1. j \in 1 .. i - 1 /\ j \in 1 .. Len(u) + Len(v) /\ j <= Len(u)
      BY <1>1, <1>2, <1>3, <1>5, <1>6, <2>1
    <3>2. r[j] = u[j]
      BY <1>5, <3>1
    <3>3. u[j] = s[j]
      BY <1>2, <3>1
    <3> QED
      BY <2>1, <3>2, <3>3
  <2>2. CASE j >= i
    <3> DEFINE k == j - (i - 1)
    <3>1. /\ k \in 1 .. Len(s) - i /\ i + k = j + 1 /\ k = j - Len(u)
          /\ j \in 1 .. Len(u) + Len(v) /\ ~ j <= Len(u)
      BY <1>1, <1>2, <1>3, <1>5, <1>6, <2>2
    <3>2. r[j] = v[k]
      BY <1>5, <3>1
    <3> HIDE DEF k
    <3>3. v[k] = s[i + k]
      BY <1>3, <3>1
    <3> QED
      BY <2>2, <3>1, <3>2, <3>3
  <2> QED
    BY <1>1, <2>1, <2>2
<1> QED
  BY <1>4, <1>5, <1>6, <1>7

\* An order without a stream has none of that stream, and no other than before.
LEMMA WithoutProperties ==
  ASSUME NEW s \in Orders, NEW stream
  PROVE  /\ Without(s, stream) \in Orders
         /\ Len(Without(s, stream)) <= Len(s)
         /\ \A i \in 1 .. Len(Without(s, stream)) :
              /\ Without(s, stream)[i].stream # stream
              /\ \E j \in 1 .. Len(s) : Without(s, stream)[i] = s[j]
<1> DEFINE at == {i \in DOMAIN s : s[i].stream = stream}
           r  == Without(s, stream)
<1>1. s \in Seq(Records) /\ DOMAIN s = 1 .. Len(s) /\ Len(s) \in Nat /\ Distinct(s)
  BY LenProperties DEF Orders
<1>2. CASE at = {}
  BY <1>1, <1>2 DEF Without
<1>3. CASE at # {}
  <2> DEFINE k == CHOOSE i \in at : TRUE
  <2>1. k \in 1 .. Len(s) /\ s[k].stream = stream
    BY <1>1, <1>3
  <2>2. r = Removed(s, k)
    BY <1>3 DEF Without, Removed
  <2> HIDE DEF k, r
  <2>3. /\ r \in Seq(Records) /\ Len(r) = Len(s) - 1
        /\ \A j \in 1 .. Len(r) : r[j] = IF j < k THEN s[j] ELSE s[j + 1]
    BY <1>1, <2>1, <2>2, RemovalProperties
  <2>4. \A j \in 1 .. Len(r) : \E l \in 1 .. Len(s) :
          r[j] = s[l] /\ l # k /\ (l = j \/ l = j + 1) /\ (l = j <=> j < k)
    BY <1>1, <2>1, <2>3
  <2>5. \A j \in 1 .. Len(r) : r[j].stream # stream
    BY <1>1, <2>1, <2>4 DEF Distinct
  <2>6. Distinct(r)
    <3> SUFFICES ASSUME NEW i \in 1 .. Len(r), NEW j \in 1 .. Len(r), i # j
                 PROVE  r[i].stream # r[j].stream
      BY DEF Distinct
    <3>1. PICK l \in 1 .. Len(s) :
            r[i] = s[l] /\ l # k /\ (l = i \/ l = i + 1) /\ (l = i <=> i < k)
      BY <2>4
    <3>2. PICK m \in 1 .. Len(s) :
            r[j] = s[m] /\ m # k /\ (m = j \/ m = j + 1) /\ (m = j <=> j < k)
      BY <2>4
    <3>3. l # m
      BY <1>1, <2>1, <2>3, <3>1, <3>2
    <3> QED
      BY <1>1, <3>1, <3>2, <3>3 DEF Distinct
  <2> QED
    BY <1>1, <2>3, <2>4, <2>5, <2>6 DEF r, Orders
<1> QED
  BY <1>2, <1>3

\* A request keeps the order of the streams, and their bound.
LEMMA TouchedProperties ==
  ASSUME NEW s \in Kept, NEW stream \in Threads, NEW generation \in Nat
  PROVE  /\ Touched(s, stream, generation) \in Kept
         /\ \A i \in 1 .. Len(Touched(s, stream, generation)) :
              \/ Touched(s, stream, generation)[i].stream = stream
              \/ \E j \in 1 .. Len(s) : Touched(s, stream, generation)[i] = s[j]
<1> DEFINE rest   == Without(s, stream)
           new    == [stream |-> stream, generation |-> generation]
           all    == Append(rest, new)
           first  == IF Len(all) - MaxStreams > 0 THEN Len(all) - MaxStreams + 1 ELSE 1
           result == SubSeq(all, first, Len(all))
<1>1. /\ s \in Orders /\ Len(s) \in Nat /\ Len(s) <= MaxStreams /\ MaxStreams \in Nat \ {0}
  BY LenProperties, InferenceAssumption DEF Kept, Orders
<1>2. /\ rest \in Seq(Records) /\ Distinct(rest) /\ Len(rest) <= Len(s)
      /\ \A i \in 1 .. Len(rest) : /\ rest[i].stream # stream
                                   /\ \E j \in 1 .. Len(s) : rest[i] = s[j]
  BY <1>1, WithoutProperties DEF Orders
<1>3. new \in Records /\ new.stream = stream
  BY DEF Records
<1>4. result = Touched(s, stream, generation)
  BY DEF Touched
<1> HIDE DEF rest, new
<1>5. Len(rest) \in Nat
  BY <1>2, LenProperties
<1>6. /\ all \in Seq(Records) /\ Len(all) = Len(rest) + 1
      /\ \A i \in 1 .. Len(rest) : all[i] = rest[i]
      /\ all[Len(rest) + 1] = new
  BY <1>2, <1>3, AppendProperties
<1> HIDE DEF all
<1>7. /\ first \in 1 .. Len(all) /\ Len(all) - first + 1 <= MaxStreams
  BY <1>1, <1>2, <1>5, <1>6
<1> HIDE DEF first
<1>8. /\ result \in Seq(Records) /\ Len(result) = Len(all) - first + 1
      /\ \A i \in 1 .. Len(result) : result[i] = all[first + i - 1]
  <2>1. \A i \in first .. Len(all) : all[i] \in Records
    BY <1>5, <1>6, <1>7, ElementOfSeq
  <2>2. /\ result \in Seq(Records)
        /\ Len(result) = IF first <= Len(all) THEN Len(all) - first + 1 ELSE 0
        /\ \A i \in 1 .. Len(all) - first + 1 : result[i] = all[first + i - 1]
    BY <1>5, <1>6, <1>7, <2>1, SubSeqProperties
  <2> QED
    BY <1>5, <1>6, <1>7, <2>2
<1> HIDE DEF result
<1>9. Distinct(all)
  BY <1>2, <1>3, <1>5, <1>6 DEF Distinct
<1>10. Distinct(result)
  <2> SUFFICES ASSUME NEW i \in 1 .. Len(result), NEW j \in 1 .. Len(result), i # j
               PROVE  result[i].stream # result[j].stream
    BY DEF Distinct
  <2> DEFINE k == first + i - 1
             l == first + j - 1
  <2>1. k \in 1 .. Len(all) /\ l \in 1 .. Len(all) /\ k # l
    BY <1>5, <1>6, <1>7, <1>8
  <2>2. result[i] = all[k] /\ result[j] = all[l]
    BY <1>8
  <2> HIDE DEF k, l
  <2> QED
    BY <1>9, <2>1, <2>2 DEF Distinct
<1>11. ASSUME NEW i \in 1 .. Len(result)
       PROVE  result[i].stream = stream \/ \E j \in 1 .. Len(s) : result[i] = s[j]
  <2> DEFINE k == first + i - 1
  <2>1. k \in 1 .. Len(rest) + 1 /\ result[i] = all[k]
    BY <1>5, <1>6, <1>7, <1>8
  <2> HIDE DEF k
  <2>2. k = Len(rest) + 1 \/ k \in 1 .. Len(rest)
    BY <1>5, <2>1
  <2> QED
    BY <1>2, <1>3, <1>6, <2>1, <2>2
<1> QED
  BY <1>4, <1>7, <1>8, <1>10, <1>11 DEF Kept, Orders
-----------------------------------------------------------------------------
\* What TypeOK says and Types does not, and what it takes to keep it.
Ordered ==
  /\ vc_class \in Configurations \cup {None}
  /\ model_errors \subseteq Models \ DOMAIN models
  /\ resets \in 0 .. MaxResets
  /\ pc[Main] = "reset" => resets < MaxResets
  /\ answer \in {"none", "ok", "failed"}
  /\ \A key \in DOMAIN models : models[key] \in DOMAIN streams
  /\ \A used \in DOMAIN streams : streams[used] \in Kept
  /\ \A t \in Threads : pc[t] \in {"enter", "lock"} \cup Using => request[t].stream = t
  /\ \A t \in Threads : pc[t] \in Using => vc[t] \in DOMAIN streams

\* A model has no stream of the warm-up.
Clean(used) == \A i \in 1 .. Len(streams[used]) : streams[used][i].stream # Main

\* From the settings to their answer, the warm-up is about the configured model.
Warm ==
  /\ pc[Main] \in {"enter", "lock"} \cup Using => request[Main].model = runtime.model
  /\ pc[Main] \in {"lock", "warm"} \cup Using => runtime.model \in DOMAIN models
  /\ pc[Main] = "idle" /\ answer = "ok" =>
       /\ runtime.model \in DOMAIN models
       /\ \A key \in DOMAIN models : Clean(models[key])

\* Sequences of streams: the empty one is an order, and lengths are numbers.
LEMMA EmptyIsKept ==
  /\ <<>> \in Kept
  /\ \A s \in Kept : Len(s) \in Nat /\ Len(s) <= MaxStreams /\ DOMAIN s = 1 .. Len(s)
  /\ Len(<<>>) = 0
<1>1. \A s \in Kept : Len(s) \in Nat /\ Len(s) <= MaxStreams /\ DOMAIN s = 1 .. Len(s)
  BY LenProperties DEF Kept, Orders
<1>2. <<>> \in Seq(Records) /\ Len(<<>>) = 0
  BY EmptySeq
<1>3. MaxStreams \in Nat
  BY InferenceAssumption
<1> QED
  BY <1>1, <1>2, <1>3 DEF Kept, Orders, Distinct

\* Load leaves the models that are there with their streams; a new one has none.
LEMMA LoadKeeps ==
  ASSUME Types, Ordered, NEW t \in Threads, pc[t] = "enter", Load(t)
  PROVE  /\ request[t].model \in DOMAIN models' /\ request[t].model \notin model_errors
         /\ DOMAIN models' = DOMAIN models \cup {request[t].model}
         /\ vc_class' \in Configurations \cup {None}
         /\ \A key \in DOMAIN models' : models'[key] \in DOMAIN streams'
         /\ \A used \in DOMAIN streams' : streams'[used] \in Kept
         /\ DOMAIN streams \subseteq DOMAIN streams'
         /\ (\A key \in DOMAIN models : Clean(models[key]))
              => \A key \in DOMAIN models' : Clean(models[key])'
<1> DEFINE key    == request[t].model
           loaded == [model |-> key, resets |-> resets,
                      hubert |-> HubertFor(configuration[t].hubert)]
<1>1. /\ key \notin model_errors
      /\ vc_class' = IF vc_class = None THEN configuration[t] ELSE vc_class
      /\ \/ key \in DOMAIN models /\ UNCHANGED <<models, streams>>
         \/ /\ key \notin DOMAIN models /\ models' = With(models, key, loaded)
            /\ streams' = With(streams, loaded, <<>>)
  BY DEF Load
<1> HIDE DEF key, loaded
<1>2. vc_class' \in Configurations \cup {None}
  BY <1>1 DEF Types, Ordered
<1>3. CASE key \in DOMAIN models /\ UNCHANGED <<models, streams>>
  BY <1>1, <1>2, <1>3 DEF Ordered, Clean, key
<1>4. CASE /\ key \notin DOMAIN models /\ models' = With(models, key, loaded)
           /\ streams' = With(streams, loaded, <<>>)
  <2>1. /\ DOMAIN models' = DOMAIN models \cup {key}
        /\ \A k \in DOMAIN models' : models'[k] = IF k = key THEN loaded ELSE models[k]
    BY <1>4 DEF With
  <2>2. /\ DOMAIN streams' = DOMAIN streams \cup {loaded}
        /\ \A used \in DOMAIN streams' :
             streams'[used] = IF used = loaded THEN <<>> ELSE streams[used]
    BY <1>4 DEF With
  <2>3. \A k \in DOMAIN models' : models'[k] \in DOMAIN streams'
    BY <2>1, <2>2 DEF Ordered
  <2>4. \A used \in DOMAIN streams' : streams'[used] \in Kept
    BY <2>2, EmptyIsKept DEF Ordered
  <2>5. ASSUME \A k \in DOMAIN models : Clean(models[k]), NEW k \in DOMAIN models'
        PROVE  Clean(models[k])'
    <3>1. CASE models'[k] = loaded
      BY <2>2, <2>3, <3>1, EmptyIsKept DEF Clean
    <3>2. CASE models'[k] # loaded
      BY <2>1, <2>2, <2>3, <2>5, <3>2 DEF Clean
    <3> QED
      BY <3>1, <3>2
  <2> QED
    BY <1>1, <1>2, <2>1, <2>2, <2>3, <2>4, <2>5 DEF key
<1> QED
  BY <1>1, <1>3, <1>4

\* Everything that WarmedUp and TypeOK need is kept by every step.
THEOREM StreamsAreKept == Spec => [](Ordered /\ Warm)
<1>1. Init => Ordered /\ Warm
  BY InferenceAssumption DEF Init, Ordered, Warm, Empty, Using, Threads
<1>2. Types /\ Ordered /\ Warm /\ [Next]_vars => Ordered' /\ Warm'
  <2> SUFFICES ASSUME Types, Ordered, Warm, [Next]_vars PROVE Ordered' /\ Warm'
    OBVIOUS
  <2>13. Main \in Threads /\ \A w \in Workers : w # Main /\ w \in Threads
    BY InferenceAssumption DEF Threads
  <2>1. ASSUME NEW w \in Workers, Request(w) PROVE Ordered' /\ Warm'
    <3>1. PICK model, generation : Begin(w, model, w, generation)
      BY <2>1 DEF Request
    <3> QED
      BY <2>13, <3>1 DEF Begin, Goto, Types, Ordered, Warm, Clean, Using, cacheVars
  <2>2. ASSUME NEW t \in Threads, Enter(t) PROVE Ordered' /\ Warm'
    <3>1. /\ request[t].model \in DOMAIN models' /\ request[t].model \notin model_errors
          /\ DOMAIN models' = DOMAIN models \cup {request[t].model}
          /\ vc_class' \in Configurations \cup {None}
          /\ \A key \in DOMAIN models' : models'[key] \in DOMAIN streams'
          /\ \A used \in DOMAIN streams' : streams'[used] \in Kept
          /\ DOMAIN streams \subseteq DOMAIN streams'
          /\ (\A key \in DOMAIN models : Clean(models[key]))
               => \A key \in DOMAIN models' : Clean(models[key])'
      BY <2>2, LoadKeeps DEF Enter
    <3>2. /\ pc[t] = "enter" /\ pc' = [pc EXCEPT ![t] = "lock"]
          /\ UNCHANGED <<runtime, model_errors, resets, request, vc, answer>>
      BY <2>2 DEF Enter, Goto
    <3>3. Ordered'
      BY <3>1, <3>2, <2>13 DEF Types, Ordered, Using
    <3>4. Warm'
      BY <3>1, <3>2, <2>13 DEF Types, Warm, Using
    <3> QED
      BY <3>3, <3>4
  <2>3. ASSUME NEW t \in Threads, EnterRaises(t) PROVE Ordered' /\ Warm'
    <3>1. /\ pc[t] = "enter" /\ pc' = [pc EXCEPT ![t] = "idle"]
          /\ request' = [request EXCEPT ![t] = None] /\ vc' = [vc EXCEPT ![t] = None]
          /\ answer' = IF t = Main THEN "failed" ELSE answer
          /\ UNCHANGED <<runtime, resets>>
      BY <2>3 DEF EnterRaises, Return, Goto, AnswerTo
    <3>2. CASE UNCHANGED <<vc_class, models, model_errors, hubert_models, streams>>
      BY <2>13, <3>1, <3>2 DEF Types, Ordered, Warm, Clean, Using
    <3>3. CASE /\ request[t].model \notin DOMAIN models
               /\ vc_class' = IF vc_class = None THEN configuration[t] ELSE vc_class
               /\ model_errors' = model_errors \cup {request[t].model}
               /\ UNCHANGED <<models, hubert_models, streams>>
      <4>1. request[t].model \in Models /\ configuration[t] \in Configurations
        BY <3>1 DEF Types, RequestsOf
      <4> QED
        BY <2>13, <3>1, <3>3, <4>1 DEF Types, Ordered, Warm, Clean, Using
    <3>4. CASE Load(t) /\ UNCHANGED model_errors
      <4>1. /\ request[t].model \in DOMAIN models' /\ request[t].model \notin model_errors
            /\ DOMAIN models' = DOMAIN models \cup {request[t].model}
            /\ vc_class' \in Configurations \cup {None}
            /\ \A key \in DOMAIN models' : models'[key] \in DOMAIN streams'
            /\ \A used \in DOMAIN streams' : streams'[used] \in Kept
            /\ DOMAIN streams \subseteq DOMAIN streams'
            /\ (\A key \in DOMAIN models : Clean(models[key]))
                 => \A key \in DOMAIN models' : Clean(models[key])'
        BY <3>1, <3>4, LoadKeeps
      <4>2. Ordered'
        BY <3>1, <3>4, <4>1, <2>13 DEF Types, Ordered, Using
      <4>3. Warm'
        BY <3>1, <4>1, <2>13 DEF Types, Warm, Using
      <4> QED
        BY <4>2, <4>3
    <3> QED
      BY <2>3, <3>2, <3>3, <3>4 DEF EnterRaises
  <2>4. ASSUME NEW t \in Threads, LockModel(t) PROVE Ordered' /\ Warm'
    BY <2>4, <2>13 DEF LockModel, Return, Goto, AnswerTo, Types, Ordered, Warm, Clean, Using,
                      cacheVars
  <2>5. ASSUME NEW t \in Threads, Infer(t) PROVE Ordered' /\ Warm'
    <3> DEFINE used == models[request[t].model]
               new  == Touched(streams[used], request[t].stream, request[t].generation)
    <3>1. /\ pc[t] = "lock" /\ pc' = [pc EXCEPT ![t] = "infer"]
          /\ streams' = [streams EXCEPT ![used] = new]
          /\ request[t].model \in DOMAIN models
          /\ vc' = [vc EXCEPT ![t] = used]
          /\ UNCHANGED <<runtime, cacheVars, request, answer>>
      BY <2>5 DEF Infer, Goto
    <3>2. /\ used \in DOMAIN streams /\ streams[used] \in Kept
          /\ request[t].stream = t /\ request[t].generation \in Nat
      BY <3>1 DEF Types, Ordered, RequestsOf
    <3>3. /\ new \in Kept
          /\ \A i \in 1 .. Len(new) : \/ new[i].stream = t
                                      \/ \E j \in 1 .. Len(streams[used]) : new[i] = streams[used][j]
      BY <3>2, TouchedProperties
    <3> HIDE DEF new
    <3>4. /\ DOMAIN streams' = DOMAIN streams
          /\ \A u \in DOMAIN streams : streams'[u] = IF u = used THEN new ELSE streams[u]
      BY <3>1, <3>2
    <3>5. Ordered'
      BY <3>1, <3>3, <3>4, <2>13 DEF Types, Ordered, Using, cacheVars
    <3>6. ASSUME t # Main, NEW u \in DOMAIN streams, Clean(u) PROVE Clean(u)'
      BY <3>3, <3>4, <3>6 DEF Clean
    <3>7. Warm'
      <4>1. ASSUME pc'[Main] = "idle", answer' = "ok"
            PROVE  /\ runtime'.model \in DOMAIN models'
                   /\ \A key \in DOMAIN models' : Clean(models[key])'
        <5>1. t # Main /\ pc[Main] = "idle" /\ answer = "ok" /\ models' = models
          BY <3>1, <4>1, <2>13 DEF Types, cacheVars
        <5>2. \A key \in DOMAIN models : Clean(models[key]) /\ models[key] \in DOMAIN streams
          BY <5>1 DEF Warm, Ordered
        <5>3. ASSUME NEW key \in DOMAIN models PROVE Clean(models[key])'
          <6> DEFINE u == models[key]
          <6>1. u \in DOMAIN streams /\ Clean(u)
            BY <5>2
          <6>2. models'[key] = u
            BY <5>1
          <6> HIDE DEF u
          <6> QED
            BY <3>6, <5>1, <6>1, <6>2 DEF Clean
        <5> QED
          BY <3>1, <5>1, <5>3 DEF Warm
      <4> QED
        BY <3>1, <4>1, <2>13 DEF Types, Warm, Using, cacheVars
    <3> QED
      BY <3>5, <3>7
  <2>6. ASSUME NEW t \in Threads, Extract(t) \/ Synthesize(t) PROVE Ordered' /\ Warm'
    BY <2>6, <2>13 DEF Extract, Synthesize, Goto, Types, Ordered, Warm, Clean, Using,
                      cacheVars, localVars
  <2>7. ASSUME NEW t \in Threads, Converted(t) PROVE Ordered' /\ Warm'
    BY <2>7, <2>13 DEF Converted, Return, Goto, AnswerTo, Inferring, Types, Ordered, Warm,
                      Clean, Using, cacheVars
  <2>8. CASE Configure
    BY <2>8, <2>13 DEF Configure, Goto, Types, Ordered, Warm, Using, cacheVars, localVars
  <2>9. CASE reset
    <3>1. /\ pc[Main] = "reset" /\ pc' = [pc EXCEPT ![Main] = "warmup"]
          /\ models' = Empty /\ model_errors' = {} /\ vc_class' = None
          /\ resets' = resets + 1
          /\ streams' = [used \in {vc[t] : t \in Inferring} |-> streams[used]]
          /\ UNCHANGED <<runtime, request, answer>>
      BY <2>9 DEF reset, Goto, localVars
    <3>2. \A t \in Threads : pc'[t] \in Using => t \in Inferring /\ vc'[t] = vc[t]
      BY <2>9, <3>1, <2>13 DEF reset, localVars, Types, Inferring, Using
    <3>3. \A used \in DOMAIN streams' : streams'[used] \in Kept
      BY <3>1 DEF Ordered, Inferring, Using
    <3>4. \A t \in Threads : pc'[t] \in Using => vc'[t] \in DOMAIN streams'
      BY <3>1, <3>2
    <3>5. DOMAIN models' = {} /\ resets' \in 0 .. MaxResets
      BY <3>1, InferenceAssumption DEF Ordered, Empty
    <3>6. \A t \in Threads : pc'[t] \in {"enter", "lock"} \cup Using => request'[t].stream = t
      BY <3>1, <2>13 DEF Types, Ordered, Using
    <3>7. Ordered'
      BY <3>1, <3>3, <3>4, <3>5, <3>6, <2>13 DEF Types, Ordered
    <3>8. Warm'
      BY <3>1, <2>13 DEF Types, Warm, Using
    <3> QED
      BY <3>7, <3>8
  <2>10. CASE warmup
    <3>1. CASE Begin(Main, runtime.model, Main, 0)
      BY <2>10, <3>1, <2>13 DEF warmup, Begin, Goto, Types, Ordered, Warm, Clean, Using, cacheVars
    <3>2. CASE Return(Main, "raised") /\ UNCHANGED <<runtime, cacheVars, streams>>
      BY <2>10, <3>2, <2>13 DEF warmup, Return, Goto, AnswerTo, Types, Ordered, Warm, Using,
                               cacheVars
    <3> QED
      BY <2>10, <3>1, <3>2 DEF warmup
  <2>11. CASE Warmed
    <3> DEFINE New(used) == IF used \in {models[key] : key \in DOMAIN models}
                            THEN Without(streams[used], Main) ELSE streams[used]
    <3>1. /\ pc[Main] = "warm" /\ pc' = [pc EXCEPT ![Main] = "idle"]
          /\ streams' = [used \in DOMAIN streams |-> New(used)]
          /\ answer' = "ok"
          /\ UNCHANGED <<runtime, cacheVars, request, vc>>
      BY <2>11 DEF Warmed, Goto, AnswerTo, localVars
    <3>2. \A used \in DOMAIN streams :
            /\ Without(streams[used], Main) \in Kept
            /\ \A i \in 1 .. Len(Without(streams[used], Main)) :
                 Without(streams[used], Main)[i].stream # Main
      <4> SUFFICES ASSUME NEW used \in DOMAIN streams
                   PROVE  /\ Without(streams[used], Main) \in Kept
                          /\ \A i \in 1 .. Len(Without(streams[used], Main)) :
                               Without(streams[used], Main)[i].stream # Main
        OBVIOUS
      <4> DEFINE s == streams[used]
                 r == Without(s, Main)
      <4>1. s \in Kept /\ s \in Orders
        BY DEF Ordered, Kept
      <4> HIDE DEF s
      <4>2. /\ r \in Orders /\ Len(r) <= Len(s)
            /\ \A i \in 1 .. Len(r) : r[i].stream # Main
        BY <4>1, WithoutProperties
      <4>3. Len(r) \in Nat /\ Len(s) \in Nat /\ Len(s) <= MaxStreams /\ MaxStreams \in Nat
        BY <4>1, <4>2, LenProperties, InferenceAssumption DEF Orders, Kept
      <4> HIDE DEF r
      <4>4. r \in Kept
        BY <4>2, <4>3 DEF Kept
      <4> QED
        BY <4>2, <4>4 DEF r, s
    <3>3. /\ DOMAIN streams' = DOMAIN streams
          /\ \A used \in DOMAIN streams : streams'[used] = New(used)
      BY <3>1
    <3>4. Ordered'
      BY <3>1, <3>2, <3>3, <2>13 DEF Types, Ordered, Using, cacheVars
    <3>5. ASSUME NEW key \in DOMAIN models PROVE Clean(models[key])'
      <4>1. /\ models[key] \in DOMAIN streams /\ models' = models
            /\ streams'[models[key]] = Without(streams[models[key]], Main)
        BY <3>1, <3>3 DEF Ordered, cacheVars
      <4> QED
        BY <3>2, <4>1 DEF Clean
    <3>6. Warm'
      BY <3>1, <3>5, <2>13 DEF Types, Warm, Using, cacheVars
    <3> QED
      BY <3>4, <3>6
  <2>12. CASE UNCHANGED vars
    BY <2>12 DEF vars, Ordered, Warm, Clean, cacheVars, localVars
  <2> QED
    BY <2>1, <2>2, <2>3, <2>4, <2>5, <2>6, <2>7, <2>8, <2>9, <2>10, <2>11, <2>12
    DEF Next, convert
<1> QED
  BY <1>1, <1>2, TypesAreKept, PTL DEF Spec

\* Types, and the bound on the streams of a model; no path is both loaded and failed.
THEOREM TypeCorrect == Spec => []TypeOK
<1>1. Types /\ Ordered => TypeOK
  <2> SUFFICES ASSUME Types, Ordered PROVE TypeOK
    OBVIOUS
  <2>1. \A used \in DOMAIN streams : Len(streams[used]) <= MaxStreams
    BY EmptyIsKept DEF Ordered
  <2> QED
    BY <2>1 DEF Types, Ordered, TypeOK, Labels
<1> QED
  BY <1>1, TypesAreKept, StreamsAreKept, PTL

\* Settings are answered with OK only when their model is loaded, and no source can
\* run into the stream of the warm-up.
THEOREM OkMeansWarm == Spec => []WarmedUp
<1>1. Types /\ Ordered /\ Warm => WarmedUp
  <2> SUFFICES ASSUME Types, Ordered, Warm, pc[Main] = "idle", answer = "ok"
               PROVE  /\ runtime.model \in DOMAIN models
                      /\ \A key \in DOMAIN models : \A i \in DOMAIN streams[models[key]] :
                           streams[models[key]][i].stream # Main
    BY DEF WarmedUp
  <2>1. \A key \in DOMAIN models :
          Clean(models[key]) /\ DOMAIN streams[models[key]] = 1 .. Len(streams[models[key]])
    BY EmptyIsKept DEF Warm, Ordered
  <2> QED
    BY <2>1 DEF Warm, Clean
<1> QED
  BY <1>1, TypesAreKept, StreamsAreKept, PTL
=============================================================================
