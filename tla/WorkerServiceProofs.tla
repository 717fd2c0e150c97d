------------------------ MODULE WorkerServiceProofs ------------------------
(***************************************************************************)
(* The worker service is safe for any number of clients, requests, threads *)
(* of the pool and saves. Types is inductive; given it, so are Tidy (whose *)
(* turn it is to give a slot back), Slots (what may be unfinished without  *)
(* being pending) and Sent (which attempts are still on their way).        *)
(***************************************************************************)
EXTENDS WorkerService, FiniteSetTheorems, SequenceTheorems, TLAPS

Attempts == [save : 1 .. MaxSaves, number : 1 .. kWorkerConfigureAttempts]

\* TypeOK, and the types of what it leaves to the properties.
Types ==
  /\ TypeOK
  /\ settings_queue \in Seq(Attempts)
  /\ main \in {"add", "register"} => current \in Requests

\* The first or the second attempt is a record whose save is not that of NoAttempt.
LEMMA AttemptsAreAttempts ==
  /\ NoAttempt \notin Attempts
  /\ \A a \in Attempts : a.save \in 1 .. MaxSaves /\ a.number \in 1 .. 2
  /\ \A n \in 1 .. 2, a \in Attempts :
       /\ [a EXCEPT !.number = n] \in Attempts
       /\ [a EXCEPT !.number = n].save = a.save
       /\ [a EXCEPT !.number = n].number = n
BY DEF NoAttempt, Attempts, kWorkerConfigureAttempts

\* What the next attempt of a save is.
LEMMA NextAttempt ==
  ASSUME TypeOK, attempt # NoAttempt, MoreAttempts,
         attempt' = [attempt EXCEPT !.number = @ + 1]
  PROVE  /\ attempt \in Attempts
         /\ attempt' \in Attempts
         /\ attempt'.save = attempt.save
         /\ attempt'.number = attempt.number + 1
<1>1. attempt \in Attempts
  BY DEF TypeOK, Attempts
<1>2. attempt.number + 1 \in 1 .. 2
  BY <1>1, AttemptsAreAttempts DEF MoreAttempts, kWorkerConfigureAttempts
<1> QED
  BY <1>1, <1>2, AttemptsAreAttempts

\* Every variable keeps its type, also the queue of settings and the current request.
THEOREM TypesAreKept == Spec => []Types
<1>1. Init => Types
  <2> SUFFICES ASSUME Init PROVE Types
    OBVIOUS
  <2>1. audio_queue \in Seq(Requests) /\ settings_queue \in Seq(Attempts)
    BY DEF Init
  <2>2. applied \in 0 .. MaxSaves /\ saved \in 0 .. MaxSaves
    BY ServiceAssumption DEF Init
  <2>3. main = "wait" /\ current = None /\ attempt = NoAttempt /\ configured = FALSE
    BY DEF Init
  <2>4. pending \subseteq Requests /\ registered \subseteq Requests
    BY DEF Init
  <2>5. /\ future \in [Requests -> {None, "submitted", "running", "replied", "completing",
                                   "done"}]
        /\ awaited \in [Clients -> Requests \cup {None}]
    BY DEF Init
  <2> QED
    BY <2>1, <2>2, <2>3, <2>4, <2>5 DEF Types, TypeOK
<1>2. Types /\ [Next]_vars => Types'
  <2> SUFFICES ASSUME Types, [Next]_vars PROVE Types'
    OBVIOUS
  <2> USE DEF Types
  <2>1. ASSUME NEW c \in Clients, Send(c) PROVE Types'
    BY <2>1 DEF Send, TypeOK, mainVars, settingsVars
  <2>2. ASSUME NEW c \in Clients, GiveUp(c) PROVE Types'
    BY <2>2 DEF GiveUp, TypeOK, mainVars, settingsVars
  <2>3. CASE Wake \/ AudioDrained \/ SettingsDrained \/ Interrupted \/ close
    BY <2>3 DEF Wake, AudioDrained, SettingsDrained, Interrupted, close, Goto, TypeOK,
                audioVars, settingsVars
  <2>4. CASE Receive
    <3>1. Head(audio_queue) \in Requests /\ Tail(audio_queue) \in Seq(Requests)
      BY <2>4, HeadTailProperties DEF Receive, TypeOK
    <3> QED
      BY <2>4, <3>1 DEF Receive, StepAfter, SetFuture, Goto, TypeOK, settingsVars
  <2>5. CASE AddPending
    BY <2>5 DEF AddPending, StepAfter, Goto, TypeOK, settingsVars
  <2>6. CASE AddDoneCallback
    BY <2>6 DEF AddDoneCallback, StepAfter, SetFuture, Goto, TypeOK, settingsVars
  <2>7. ASSUME NEW r \in Requests, PoolThread(r) PROVE Types'
    <3>1. CASE Run(r) \/ SetResult(r) \/ complete(r)
      BY <3>1 DEF Run, SetResult, complete, SetFuture, TypeOK, mainVars, settingsVars
    <3>2. CASE reply(r)
      <4>1. Delivered(r) \in [Clients -> Requests \cup {None}]
        BY DEF Delivered, TypeOK
      <4> QED
        BY <3>2, <4>1 DEF reply, SetFuture, TypeOK, mainVars, settingsVars
    <3> QED
      BY <2>7, <3>1, <3>2 DEF PoolThread
  <2>8. CASE Save
    <3>1. attempt' \in Attempts /\ saved' \in 0 .. MaxSaves
      BY <2>8, ServiceAssumption
         DEF Save, TypeOK, Attempts, kWorkerConfigureAttempts
    <3>2. settings_queue' \in Seq(Attempts)
      BY <2>8, <3>1 DEF Save
    <3> QED
      BY <2>8, <3>1, <3>2 DEF Save, TypeOK, Attempts, mainVars, audioVars
  <2>9. CASE SaveInvalid
    BY <2>9 DEF SaveInvalid, TypeOK, mainVars, audioVars
  <2>10. CASE AttemptTimesOut
    <3>1. CASE Retry
      <4>1. attempt' \in Attempts
        BY <2>10, <3>1, NextAttempt DEF AttemptTimesOut, Retry
      <4>2. settings_queue' \in Seq(Attempts)
        BY <3>1, <4>1 DEF Retry
      <4> QED
        BY <2>10, <3>1, <4>1, <4>2
           DEF AttemptTimesOut, Retry, TypeOK, Attempts, mainVars, audioVars
    <3>2. CASE Fail
      BY <2>10, <3>2 DEF AttemptTimesOut, Fail, TypeOK, mainVars, audioVars
    <3> QED
      BY <2>10, <3>1, <3>2 DEF AttemptTimesOut
  <2>11. CASE ReceiveSettings
    <3>1. Head(settings_queue) \in Attempts
      BY <2>11, HeadTailProperties DEF ReceiveSettings
    <3>2. Head(settings_queue).save \in 0 .. MaxSaves
      BY <3>1, AttemptsAreAttempts, ServiceAssumption
    <3> QED
      BY <2>11, <3>2 DEF ReceiveSettings, Goto, TypeOK, audioVars
  <2>12. CASE AnswerSettings
    <3>1. Tail(settings_queue) \in Seq(Attempts) /\ Head(settings_queue) \in Attempts
      BY <2>12, HeadTailProperties DEF AnswerSettings
    <3>2. main' = "settings" /\ UNCHANGED <<current, audioVars, applied, saved>>
      BY <2>12 DEF AnswerSettings, Goto
    <3>3. CASE MoreAttempts /\ attempt' = [attempt EXCEPT !.number = @ + 1]
                 /\ AnswerIsAwaited(Head(settings_queue))
                 /\ settings_queue' = Append(Tail(settings_queue), attempt')
                 /\ UNCHANGED configured
      <4>1. attempt # NoAttempt
        BY <3>1, <3>3, AttemptsAreAttempts DEF AnswerIsAwaited
      <4>2. attempt' \in Attempts
        BY <3>3, <4>1, NextAttempt
      <4>3. settings_queue' \in Seq(Attempts)
        BY <3>1, <3>3, <4>2
      <4> QED
        BY <3>2, <3>3, <4>2, <4>3 DEF TypeOK, Attempts, audioVars
    <3>4. CASE /\ attempt' \in {attempt, NoAttempt}
               /\ configured' \in {configured, TRUE, FALSE}
               /\ settings_queue' = Tail(settings_queue)
      BY <3>1, <3>2, <3>4 DEF TypeOK, audioVars
    <3> QED
      BY <2>12, <3>3, <3>4 DEF AnswerSettings
  <2>13. CASE Delete
    BY <2>13 DEF Delete, Goto, TypeOK
  <2>14. CASE UNCHANGED vars
    BY <2>14 DEF vars, mainVars, audioVars, settingsVars, TypeOK
  <2> QED
    BY <2>1, <2>2, <2>3, <2>4, <2>5, <2>6, <2>7, <2>8, <2>9, <2>10, <2>11, <2>12, <2>13,
       <2>14 DEF Next, MainThread, Filter
<1> QED
  BY <1>1, <1>2, PTL DEF Spec

-----------------------------------------------------------------------------
\* The type invariant, on its own.
THEOREM TypeCorrect == Spec => []TypeOK
<1>1. Types => TypeOK
  BY DEF Types
<1> QED
  BY <1>1, TypesAreKept, PTL

\* Requests in the queue are fresh, and there once; a future that is pending or has
\* its callback is there. The main thread hands over one future at a time, and
\* until its callback is registered, it is this thread that answers for the slot.
Tidy ==
  /\ \A i \in DOMAIN audio_queue : future[audio_queue[i]] = None
  /\ \A i, j \in DOMAIN audio_queue : audio_queue[i] = audio_queue[j] => i = j
  /\ \A r \in pending \cup registered : future[r] # None
  /\ \A r \in Requests : future[r] = "completing" => r \in registered
  /\ main \in {"add", "register"} => future[current] # None /\ current \notin registered
  /\ \A r \in pending :
       r \notin registered \/ future[r] = "done" => main = "register" /\ current = r

\* What Tidy is about.
tidyVars == <<audio_queue, future, pending, registered, main, current>>

\* Slots are never leaked: whoever is pending will be completed, by the callback or
\* by the main thread, whichever comes second.
THEOREM SlotsAreGivenBack == Spec => []NoLeakedSlot
<1>1. Init => Tidy
  <2> SUFFICES ASSUME Init PROVE Tidy
    OBVIOUS
  <2>1. audio_queue = <<>> /\ DOMAIN audio_queue = {}
    BY DEF Init
  <2>2. \A r \in Requests : future[r] # "completing"
    BY DEF Init, None
  <2> QED
    BY <2>1, <2>2 DEF Init, Tidy
<1>2. Types /\ Tidy /\ [Next]_vars => Tidy'
  <2> SUFFICES ASSUME Types, Tidy, [Next]_vars PROVE Tidy'
    OBVIOUS
  <2> USE DEF Tidy
  <2>1. CASE UNCHANGED tidyVars
    BY <2>1 DEF tidyVars
  <2>2. CASE \/ Wake \/ AudioDrained \/ ReceiveSettings \/ AnswerSettings \/ SettingsDrained
             \/ Interrupted \/ close
    BY <2>2 DEF Wake, AudioDrained, ReceiveSettings, AnswerSettings, SettingsDrained,
                Interrupted, close, Goto, audioVars
  <2>3. CASE Delete
    BY <2>3 DEF Delete, Goto
  <2>4. ASSUME NEW c \in Clients, Send(c) PROVE Tidy'
    <3>1. PICK r \in Requests : ~InUse(r) /\ audio_queue' = Append(audio_queue, r)
      BY <2>4 DEF Send
    <3>2. future[r] = None /\ \A i \in DOMAIN audio_queue : audio_queue[i] # r
      BY <3>1 DEF InUse
    <3>3. audio_queue \in Seq(Requests)
      BY DEF Types, TypeOK
    <3>4. /\ DOMAIN audio_queue' = 1 .. Len(audio_queue) + 1
          /\ DOMAIN audio_queue = 1 .. Len(audio_queue)
          /\ \A i \in DOMAIN audio_queue : audio_queue'[i] = audio_queue[i]
          /\ audio_queue'[Len(audio_queue) + 1] = r
      BY <3>1, <3>3, AppendProperties
    <3>5. Len(audio_queue) \in Nat
      BY <3>3
    <3>6. UNCHANGED <<future, pending, registered, main, current>>
      BY <2>4 DEF Send, mainVars
    <3>7. \A i \in DOMAIN audio_queue' : i \in DOMAIN audio_queue \/ i = Len(audio_queue) + 1
      BY <3>4, <3>5
    <3>8. \A i \in DOMAIN audio_queue' : future'[audio_queue'[i]] = None
      BY <3>2, <3>4, <3>6, <3>7
    <3>9. \A i, j \in DOMAIN audio_queue' : audio_queue'[i] = audio_queue'[j] => i = j
      BY <3>2, <3>4, <3>7
    <3> QED
      BY <3>6, <3>8, <3>9
  <2>5. CASE Receive
    <3>1. /\ audio_queue \in Seq(Requests) /\ audio_queue # <<>>
          /\ audio_queue' = Tail(audio_queue)
          /\ current' = Head(audio_queue)
          /\ main = "audio" /\ main' = "add"
          /\ future' = [future EXCEPT ![Head(audio_queue)] = "submitted"]
          /\ UNCHANGED <<pending, registered>>
      BY <2>5 DEF Receive, Goto, SetFuture, StepAfter, Types, TypeOK
    <3>2. /\ Head(audio_queue) = audio_queue[1] /\ 1 \in DOMAIN audio_queue
          /\ Head(audio_queue) \in Requests
      BY <3>1, HeadTailProperties
    <3>3. \A i \in DOMAIN audio_queue' : /\ i + 1 \in DOMAIN audio_queue /\ i + 1 # 1
                                         /\ audio_queue'[i] = audio_queue[i + 1]
                                         /\ i \in Nat
      BY <3>1, HeadTailProperties
    <3>4. future[Head(audio_queue)] = None
      BY <3>2
    <3>5. Head(audio_queue) \notin pending \cup registered
      BY <3>4
    <3>6. \A i \in DOMAIN audio_queue' : future'[audio_queue'[i]] = None
      BY <3>1, <3>2, <3>3
    <3>7. \A i, j \in DOMAIN audio_queue' : audio_queue'[i] = audio_queue'[j] => i = j
      <4> SUFFICES ASSUME NEW i \in DOMAIN audio_queue', NEW j \in DOMAIN audio_queue',
                          audio_queue'[i] = audio_queue'[j]
                   PROVE  i = j
        OBVIOUS
      <4>1. i + 1 = j + 1
        BY <3>3
      <4> QED
        BY <3>3, <4>1
    <3>8. "submitted" # None
      BY DEF None
    <3>9. future \in [Requests -> {None, "submitted", "running", "replied", "completing",
                                   "done"}]
      BY DEF Types, TypeOK
    <3> QED
      BY <3>1, <3>2, <3>5, <3>6, <3>7, <3>8, <3>9 DEF Types, TypeOK
  <2>6. CASE AddPending
    <3>1. /\ main = "add" /\ main' = "register" /\ current' = current
          /\ pending' = pending \cup {current}
          /\ UNCHANGED <<audio_queue, future, registered>>
      BY <2>6 DEF AddPending, Goto, StepAfter
    <3> QED
      BY <3>1
  <2>7. CASE AddDoneCallback
    <3>1. main = "register" /\ main' = "audio" /\ UNCHANGED audio_queue
          /\ current \in Requests
      BY <2>7 DEF AddDoneCallback, Goto, StepAfter, Types
    <3>2. CASE future[current] = "done"
      <4>1. /\ pending' = pending \ {current} /\ registered' = registered
            /\ future' = [future EXCEPT ![current] = None]
        BY <2>7, <3>2 DEF AddDoneCallback, SetFuture
      <4>2. \A r \in Requests : future'[r] = IF r = current THEN None ELSE future[r]
        BY <3>1, <4>1 DEF Types, TypeOK
      <4>3. \A i \in DOMAIN audio_queue : audio_queue[i] \in Requests
        BY DEF Types, TypeOK
      <4>4. pending \subseteq Requests /\ registered \subseteq Requests
        BY DEF Types, TypeOK
      <4>5. None # "completing"
        BY DEF None
      <4> QED
        BY <3>1, <4>1, <4>2, <4>3, <4>4, <4>5
    <3>3. CASE future[current] # "done"
      <4>1. /\ registered' = registered \cup {current}
            /\ UNCHANGED <<pending, future>>
        BY <2>7, <3>3 DEF AddDoneCallback
      <4> QED
        BY <3>1, <3>3, <4>1
    <3> QED
      BY <3>2, <3>3
  <2>8. ASSUME NEW r \in Requests, PoolThread(r) PROVE Tidy'
    <3>1. /\ UNCHANGED <<audio_queue, main, current>>
          /\ future[r] # None
          /\ pending \subseteq Requests /\ registered \subseteq Requests
          /\ \A i \in DOMAIN audio_queue : audio_queue[i] \in Requests
      BY <2>8 DEF PoolThread, Run, reply, SetResult, complete, mainVars, None, Types, TypeOK
    <3>2. CASE Run(r) \/ reply(r) \/ SetResult(r)
      <4>1. /\ UNCHANGED <<pending, registered>>
            /\ \A q \in Requests \ {r} : future'[q] = future[q]
            /\ future'[r] # None
            /\ future'[r] = "completing" => r \in registered
            /\ future'[r] = "done" => r \notin registered
        BY <3>2 DEF Run, reply, SetResult, SetFuture, None, Types, TypeOK
      <4>2. \A i \in DOMAIN audio_queue : audio_queue[i] # r
        BY <3>1
      <4>3. \A q \in Requests : future'[q] = future[q] \/ q = r
        BY <4>1
      <4> QED
        BY <3>1, <4>1, <4>2, <4>3 DEF Types
    <3>3. CASE complete(r)
      <4>1. /\ pending' = pending \ {r} /\ registered' = registered \ {r}
            /\ \A q \in Requests \ {r} : future'[q] = future[q]
            /\ future'[r] = None /\ future[r] = "completing"
        BY <3>3 DEF complete, SetFuture, Types, TypeOK
      <4>2. main \in {"add", "register"} => current # r
        BY <4>1
      <4>3. None # "completing"
        BY DEF None
      <4> QED
        BY <3>1, <4>1, <4>2, <4>3 DEF Types
    <3> QED
      BY <2>8, <3>2, <3>3 DEF PoolThread
  <2>9. [Next]_vars =>
          \/ UNCHANGED tidyVars
          \/ MainThread \/ Interrupted
          \/ \E r \in Requests : PoolThread(r)
          \/ \E c \in Clients : Send(c)
    BY DEF Next, vars, mainVars, audioVars, tidyVars, GiveUp, Filter, Save, SaveInvalid,
           AttemptTimesOut
  <2> QED
    BY <2>1, <2>2, <2>3, <2>4, <2>5, <2>6, <2>7, <2>8, <2>9 DEF MainThread
<1>3. Types /\ Tidy => NoLeakedSlot
  BY DEF Types, TypeOK, Tidy, NoLeakedSlot, Unfinished
<1> QED
  BY <1>1, <1>2, <1>3, TypesAreKept, PTL DEF Spec

-----------------------------------------------------------------------------
\* Whatever is unfinished is pending, but for the future that is about to be added,
\* and there is a slot for all of it.
Slots ==
  /\ Unfinished \subseteq IF main = "add" THEN pending \cup {current} ELSE pending
  /\ Cardinality(pending) <= parallel_workers
  /\ main = "add" => Cardinality(pending) < parallel_workers
  /\ main \in {"closed", "deleted"} => Unfinished = {}

\* Cardinalities of what is pending.
LEMMA PendingIsFinite ==
  ASSUME Types
  PROVE  /\ IsFiniteSet(pending)
         /\ Cardinality(pending) \in Nat
         /\ \A r : /\ Cardinality(pending \ {r}) <= Cardinality(pending)
                   /\ Cardinality(pending \cup {r}) \in Nat
                   /\ Cardinality(pending \cup {r}) <= Cardinality(pending) + 1
<1>1. IsFiniteSet(pending)
  BY FS_Subset, ServiceAssumption DEF Types, TypeOK
<1>2. Cardinality(pending) \in Nat
  BY <1>1, FS_CardinalityType
<1>3. ASSUME NEW r
      PROVE  /\ Cardinality(pending \ {r}) <= Cardinality(pending)
             /\ Cardinality(pending \cup {r}) \in Nat
             /\ Cardinality(pending \cup {r}) <= Cardinality(pending) + 1
  <2>1. /\ Cardinality(pending \ {r}) \in {Cardinality(pending) - 1, Cardinality(pending)}
        /\ Cardinality(pending \cup {r}) \in {Cardinality(pending), Cardinality(pending) + 1}
    BY <1>1, FS_RemoveElement, FS_AddElement, Zenon
  <2> DEFINE n == Cardinality(pending)
             fewer == Cardinality(pending \ {r})
             more == Cardinality(pending \cup {r})
  <2> HIDE DEF n, fewer, more
  <2>2. n \in Nat /\ fewer \in {n - 1, n} /\ more \in {n, n + 1}
    BY <1>2, <2>1 DEF n, fewer, more
  <2>3. fewer <= n /\ more \in Nat /\ more <= n + 1
    BY <2>2
  <2> QED
    BY <2>3 DEF n, fewer, more
<1> QED
  BY <1>1, <1>2, <1>3

\* Slots is kept: the check of the slots and the addition are two steps, but only
\* the main thread makes them, and whatever leaves pending has finished.
LEMMA SlotsAreKept == Spec => []Slots
<1>1. Init => Slots
  <2> SUFFICES ASSUME Init PROVE Slots
    OBVIOUS
  <2>1. Unfinished = {}
    BY DEF Init, Unfinished, None
  <2>2. pending = {} /\ main = "wait"
    BY DEF Init
  <2> QED
    BY <2>1, <2>2, FS_EmptySet, ServiceAssumption DEF Slots
<1>2. Types /\ Slots /\ [Next]_vars => Slots'
  <2> SUFFICES ASSUME Types, Slots, [Next]_vars PROVE Slots'
    OBVIOUS
  <2> USE DEF Slots
  <2>1. CASE UNCHANGED <<future, pending, main, current>>
    BY <2>1 DEF Unfinished
  <2>2. CASE \/ Wake \/ AudioDrained \/ ReceiveSettings \/ AnswerSettings \/ SettingsDrained
             \/ Interrupted \/ close \/ Delete
    <3>1. UNCHANGED <<future, pending, current>> /\ main # "add" /\ main' # "add"
      BY <2>2 DEF Wake, AudioDrained, ReceiveSettings, AnswerSettings, SettingsDrained,
                  Interrupted, close, Delete, Goto, audioVars
    <3>2. Unfinished' = Unfinished
      BY <3>1 DEF Unfinished
    <3>3. main' \in {"closed", "deleted"} => Unfinished = {}
      BY <2>2 DEF Wake, AudioDrained, ReceiveSettings, AnswerSettings, SettingsDrained,
                  Interrupted, close, PoolIsIdle, Delete, Goto
    <3> QED
      BY <3>1, <3>2, <3>3
  <2>3. CASE Receive
    <3>1. /\ main = "audio" /\ main' = "add" /\ UNCHANGED pending
          /\ Cardinality(pending) < parallel_workers
          /\ future' = [future EXCEPT ![current'] = "submitted"]
      BY <2>3 DEF Receive, HasSlot, Goto, SetFuture, StepAfter
    <3>2. Unfinished' \subseteq Unfinished \cup {current'}
      BY <3>1 DEF Unfinished, Types, TypeOK
    <3> QED
      BY <3>1, <3>2
  <2>4. CASE AddPending
    <3>1. /\ main = "add" /\ main' = "register" /\ UNCHANGED future
          /\ pending' = pending \cup {current}
      BY <2>4 DEF AddPending, Goto, StepAfter
    <3>2. Unfinished' = Unfinished
      BY <3>1 DEF Unfinished
    <3>3. Cardinality(pending') <= parallel_workers
      <4>1. Cardinality(pending') <= Cardinality(pending) + 1
            /\ Cardinality(pending') \in Nat /\ Cardinality(pending) \in Nat
        BY <3>1, PendingIsFinite
      <4>2. Cardinality(pending) < parallel_workers
        BY <3>1
      <4> QED
        BY <4>1, <4>2, ServiceAssumption
    <3> QED
      BY <3>1, <3>2, <3>3
  <2>5. CASE AddDoneCallback
    <3>1. main = "register" /\ main' = "audio"
      BY <2>5 DEF AddDoneCallback, Goto, StepAfter
    <3>2. CASE future[current] = "done"
      <4>1. /\ pending' = pending \ {current} /\ current \notin Unfinished
            /\ future' = [future EXCEPT ![current] = None]
        BY <2>5, <3>2 DEF AddDoneCallback, SetFuture, Unfinished
      <4>2. Unfinished' \subseteq Unfinished
        BY <4>1 DEF Unfinished, Types, TypeOK, None
      <4>3. Cardinality(pending') <= parallel_workers
        <5>1. Cardinality(pending \ {current}) \in Nat
          BY PendingIsFinite, FS_RemoveElement, FS_CardinalityType
        <5>2. Cardinality(pending \ {current}) <= Cardinality(pending)
              /\ Cardinality(pending) \in Nat
          BY PendingIsFinite
        <5>3. Cardinality(pending) <= parallel_workers
          OBVIOUS
        <5> QED
          BY <4>1, <5>1, <5>2, <5>3, ServiceAssumption
      <4> QED
        BY <3>1, <4>1, <4>2, <4>3
    <3>3. CASE future[current] # "done"
      <4>1. UNCHANGED <<pending, future>>
        BY <2>5, <3>3 DEF AddDoneCallback
      <4> QED
        BY <3>1, <4>1 DEF Unfinished
    <3> QED
      BY <3>2, <3>3
  <2>6. ASSUME NEW r \in Requests, PoolThread(r) PROVE Slots'
    <3>1. UNCHANGED <<main, current>>
      BY <2>6 DEF PoolThread, Run, reply, SetResult, complete, mainVars
    <3>2. CASE Run(r) \/ reply(r) \/ SetResult(r)
      <4>1. UNCHANGED pending /\ Unfinished' \subseteq Unfinished
        BY <3>2 DEF Run, reply, SetResult, SetFuture, Unfinished, Types, TypeOK
      <4> QED
        BY <3>1, <4>1
    <3>3. CASE complete(r)
      <4>1. pending' = pending \ {r} /\ r \notin Unfinished
        BY <3>3 DEF complete, Unfinished
      <4>2. Unfinished' \subseteq Unfinished
        BY <3>3 DEF complete, SetFuture, Unfinished, Types, TypeOK, None
      <4>3. Cardinality(pending \ {r}) \in Nat
        BY PendingIsFinite, FS_RemoveElement, FS_CardinalityType
      <4>4. /\ Cardinality(pending') <= parallel_workers
            /\ main = "add" => Cardinality(pending') < parallel_workers
        BY <4>1, <4>3, PendingIsFinite, ServiceAssumption
      <4> QED
        BY <3>1, <4>1, <4>2, <4>4
    <3> QED
      BY <2>6, <3>2, <3>3 DEF PoolThread
  <2>7. [Next]_vars =>
          \/ UNCHANGED <<future, pending, main, current>>
          \/ MainThread \/ Interrupted
          \/ \E r \in Requests : PoolThread(r)
    BY DEF Next, vars, mainVars, audioVars, Send, GiveUp, Filter, Save, SaveInvalid,
           AttemptTimesOut
  <2> QED
    BY <2>1, <2>2, <2>3, <2>4, <2>5, <2>6, <2>7 DEF MainThread
<1> QED
  BY <1>1, <1>2, TypesAreKept, PTL DEF Spec

\* The pool never has more to do than it has threads, for any number of both.
THEOREM PoolHasThreads == Spec => []PoolIsNotOverrun
<1>1. Types /\ Slots => PoolIsNotOverrun
  <2> SUFFICES ASSUME Types, Slots PROVE Cardinality(Unfinished) <= parallel_workers
    BY DEF PoolIsNotOverrun
  <2> DEFINE most == IF main = "add" THEN pending \cup {current} ELSE pending
  <2>1. IsFiniteSet(most) /\ Cardinality(most) <= parallel_workers
        /\ Cardinality(most) \in Nat
    <3>1. IsFiniteSet(pending) /\ Cardinality(pending) \in Nat
      BY PendingIsFinite
    <3>2. CASE main = "add"
      <4>1. /\ IsFiniteSet(pending \cup {current})
            /\ Cardinality(pending \cup {current}) \in Nat
            /\ Cardinality(pending \cup {current}) <= Cardinality(pending) + 1
        BY <3>1, PendingIsFinite, FS_AddElement
      <4>2. Cardinality(pending) < parallel_workers
        BY <3>2 DEF Slots
      <4> QED
        BY <3>1, <3>2, <4>1, <4>2, ServiceAssumption
    <3>3. CASE main # "add"
      BY <3>1, <3>3 DEF Slots
    <3> QED
      BY <3>2, <3>3
  <2>2. Unfinished \in SUBSET most
    BY DEF Slots
  <2> HIDE DEF most
  <2>3. IsFiniteSet(Unfinished) /\ Cardinality(Unfinished) <= Cardinality(most)
    BY <2>1, <2>2, FS_Subset
  <2>4. Cardinality(Unfinished) \in Nat
    BY <2>3, FS_CardinalityType
  <2> QED
    BY <2>1, <2>3, <2>4, ServiceAssumption
<1> QED
  BY <1>1, SlotsAreKept, TypesAreKept, PTL

\* The servers are deleted only after the last reply.
THEOREM RepliesComeFirst == Spec => []ServersOutliveReplies
<1>1. Slots => ServersOutliveReplies
  BY DEF Slots, ServersOutliveReplies
<1> QED
  BY <1>1, SlotsAreKept, PTL

-----------------------------------------------------------------------------
\* An attempt that is older than another.
Older(a, b) == a.save < b.save \/ (a.save = b.save /\ a.number < b.number)

\* The attempt a filter waits for is the last it sent; everything before it in the
\* queue is older. What is being handled is at the head of the queue. Once the
\* filter has heard OK for an attempt, none is on its way any more.
Sent ==
  /\ attempt # NoAttempt => attempt.save = saved
  /\ \A i \in DOMAIN settings_queue : settings_queue[i].save <= saved
  /\ attempt # NoAttempt =>
       \A i \in DOMAIN settings_queue :
         \/ Older(settings_queue[i], attempt)
         \/ settings_queue[i] = attempt /\ i = Len(settings_queue)
  /\ main = "handling" => /\ settings_queue # <<>>
                          /\ applied = Head(settings_queue).save
  /\ configured /\ attempt = NoAttempt => settings_queue = <<>> /\ applied = saved

\* A new attempt is appended, and those before it become older still.
LEMMA SentAgain ==
  ASSUME NEW q \in Seq(Attempts), NEW a \in Attempts, NEW r \in Seq(Attempts),
         r = Append(q, a),
         \A i \in DOMAIN q : Older(q[i], a)
  PROVE  /\ \A i \in DOMAIN r : Older(r[i], a) \/ (r[i] = a /\ i = Len(r))
         /\ r # <<>>
         /\ q # <<>> => Head(r) = Head(q)
         /\ \A n \in Nat :
              (\A i \in DOMAIN q : q[i].save <= n) /\ a.save <= n
                => \A i \in DOMAIN r : r[i].save <= n
<1>1. /\ DOMAIN r = 1 .. Len(q) + 1 /\ DOMAIN q = 1 .. Len(q) /\ Len(r) = Len(q) + 1
      /\ Len(q) \in Nat
      /\ \A i \in DOMAIN q : r[i] = q[i]
      /\ r[Len(q) + 1] = a /\ r # <<>>
  BY AppendProperties
<1>2. \A i \in DOMAIN r : i \in DOMAIN q \/ i = Len(q) + 1
  BY <1>1
<1>3. q # <<>> => Head(r) = Head(q)
  <2> SUFFICES ASSUME q # <<>> PROVE Head(r) = Head(q)
    OBVIOUS
  <2>1. 1 \in DOMAIN q /\ Head(q) = q[1]
    OBVIOUS
  <2>2. Head(r) = r[1]
    BY <1>1
  <2> QED
    BY <1>1, <2>1, <2>2
<1> QED
  BY <1>1, <1>2, <1>3

\* The elements of a tail.
LEMMA TailOfSent ==
  ASSUME NEW q \in Seq(Attempts), q # <<>>
  PROVE  /\ Tail(q) \in Seq(Attempts) /\ Head(q) \in Attempts
         /\ Head(q) = q[1] /\ 1 \in DOMAIN q
         /\ Len(q) = 1 => Tail(q) = <<>>
         /\ \A i \in DOMAIN Tail(q) :
              /\ i + 1 \in DOMAIN q /\ Tail(q)[i] = q[i + 1] /\ i \in Nat
              /\ i + 1 = Len(q) <=> i = Len(Tail(q))
<1>1. /\ Tail(q) \in Seq(Attempts) /\ Head(q) \in Attempts
      /\ Len(Tail(q)) = Len(q) - 1
      /\ \A i \in 1 .. Len(Tail(q)) : Tail(q)[i] = q[i + 1]
  BY HeadTailProperties
<1>2. Len(q) \in Nat \ {0}
  BY EmptySeq
<1>3. DOMAIN q = 1 .. Len(q) /\ DOMAIN Tail(q) = 1 .. Len(Tail(q))
  BY <1>1
<1>4. Len(q) = 1 => Tail(q) = <<>>
  <2>1. Len(q) = 1 => Len(Tail(q)) = 0
    BY <1>1
  <2>2. \A t \in Seq(Attempts) : Len(t) = 0 => t = <<>>
    BY EmptySeq
  <2> QED
    BY <1>1, <2>1, <2>2
<1>5. Head(q) = q[1] /\ 1 \in DOMAIN q
  BY <1>2, <1>3
<1>6. ASSUME NEW i \in DOMAIN Tail(q)
      PROVE  /\ i + 1 \in DOMAIN q /\ Tail(q)[i] = q[i + 1] /\ i \in Nat
             /\ i + 1 = Len(q) <=> i = Len(Tail(q))
  BY <1>1, <1>2, <1>3
<1> QED
  BY <1>1, <1>4, <1>5, <1>6


\* What Sent is about.
sentVars == <<settings_queue, attempt, saved, applied, configured, main>>

\* A filter that says it is configured is right, however many attempts timed out and
\* were handled later: any number of saves, any order.
THEOREM ConfiguredIsRight == Spec => []ConfiguredIsApplied
<1>1. Init => Sent
  <2> SUFFICES ASSUME Init PROVE Sent
    OBVIOUS
  <2>1. settings_queue = <<>> /\ DOMAIN settings_queue = {}
    BY DEF Init
  <2> QED
    BY <2>1 DEF Init, Sent
<1>2. Types /\ Sent /\ [Next]_vars => Sent'
  <2> SUFFICES ASSUME Types, Sent, [Next]_vars PROVE Sent'
    OBVIOUS
  <2>1. /\ settings_queue \in Seq(Attempts)
        /\ attempt \in Attempts \cup {NoAttempt}
        /\ saved \in Nat /\ MaxSaves \in Nat
        /\ \A i \in DOMAIN settings_queue : settings_queue[i] \in Attempts
    <3>1. settings_queue \in Seq(Attempts)
      BY DEF Types
    <3>2. attempt \in Attempts \cup {NoAttempt} /\ saved \in Nat /\ MaxSaves \in Nat
      BY ServiceAssumption DEF Types, TypeOK, Attempts
    <3> QED
      BY <3>1, <3>2
  <2>2. CASE UNCHANGED sentVars
    BY <2>2 DEF sentVars, Sent
  <2>3. CASE \/ Wake \/ Receive \/ AudioDrained \/ AddPending \/ AddDoneCallback
             \/ SettingsDrained \/ Interrupted \/ close
    <3>1. /\ UNCHANGED <<settings_queue, attempt, saved, applied, configured>>
          /\ main' # "handling"
      BY <2>3 DEF Wake, Receive, AudioDrained, AddPending, AddDoneCallback, StepAfter,
                  SettingsDrained, Interrupted, close, Goto, settingsVars
    <3> QED
      BY <3>1 DEF Sent
  <2>4. CASE Delete
    <3>1. /\ UNCHANGED <<attempt, saved, applied, configured>>
          /\ main' # "handling" /\ settings_queue' = <<>>
      BY <2>4 DEF Delete, Goto
    <3>2. DOMAIN settings_queue' = {}
      BY <3>1
    <3> QED
      BY <3>1, <3>2 DEF Sent
  <2>5. CASE Save
    <3>1. /\ attempt' = [save |-> saved + 1, number |-> 1]
          /\ saved' = saved + 1
          /\ settings_queue' = Append(settings_queue, attempt')
          /\ UNCHANGED <<main, applied, configured>>
          /\ saved < MaxSaves
      BY <2>5 DEF Save, mainVars
    <3>2. attempt' \in Attempts /\ attempt' # NoAttempt
      BY <2>1, <3>1, AttemptsAreAttempts DEF Attempts, kWorkerConfigureAttempts
    <3>3. \A i \in DOMAIN settings_queue : Older(settings_queue[i], attempt')
      BY <2>1, <3>1, AttemptsAreAttempts DEF Sent, Older
    <3>4. \A i \in DOMAIN settings_queue : settings_queue[i].save <= saved'
      BY <2>1, <3>1, AttemptsAreAttempts DEF Sent
    <3>5. settings_queue' \in Seq(Attempts)
      BY <2>1, <3>1, <3>2
    <3>6. attempt'.save = saved' /\ saved' \in Nat
      BY <2>1, <3>1
    <3> QED
      BY <2>1, <3>1, <3>2, <3>3, <3>4, <3>5, <3>6, SentAgain DEF Sent
  <2>6. CASE SaveInvalid
    BY <2>6 DEF SaveInvalid, mainVars, Sent
  <2>7. CASE AttemptTimesOut
    <3>1. attempt # NoAttempt /\ attempt \in Attempts /\ UNCHANGED <<main, applied, saved>>
      BY <2>1, <2>7 DEF AttemptTimesOut, mainVars
    <3>2. CASE Retry
      <4>1. /\ attempt' \in Attempts
            /\ attempt'.save = attempt.save
            /\ attempt'.number = attempt.number + 1
            /\ attempt' # NoAttempt
        BY <3>1, <3>2, NextAttempt, AttemptsAreAttempts DEF Retry, Types
      <4>2. \A i \in DOMAIN settings_queue : Older(settings_queue[i], attempt')
        BY <2>1, <3>1, <4>1, AttemptsAreAttempts DEF Sent, Older
      <4>3. CASE Open
        <5>1. settings_queue' = Append(settings_queue, attempt')
          BY <3>2, <4>3 DEF Retry
        <5>2. settings_queue' \in Seq(Attempts)
          BY <2>1, <4>1, <5>1
        <5>3. /\ attempt'.save <= saved
              /\ \A i \in DOMAIN settings_queue : settings_queue[i].save <= saved
          BY <2>1, <3>1, <4>1 DEF Sent
        <5> QED
          BY <2>1, <3>1, <4>1, <4>2, <5>1, <5>2, <5>3, SentAgain DEF Sent
      <4>4. CASE ~Open
        <5>1. UNCHANGED settings_queue
          BY <3>2, <4>4 DEF Retry
        <5> QED
          BY <3>1, <4>1, <4>2, <5>1 DEF Sent
      <4> QED
        BY <4>3, <4>4
    <3>3. CASE Fail
      BY <3>1, <3>3 DEF Fail, Sent
    <3> QED
      BY <2>7, <3>2, <3>3 DEF AttemptTimesOut
  <2>8. CASE ReceiveSettings
    <3>1. /\ settings_queue # <<>> /\ main' = "handling"
          /\ applied' = Head(settings_queue).save
          /\ UNCHANGED <<settings_queue, saved, attempt, configured>>
      BY <2>8 DEF ReceiveSettings, Goto
    <3> QED
      BY <3>1 DEF Sent
  <2>9. CASE AnswerSettings
    <3>1. /\ main = "handling" /\ settings_queue # <<>> /\ main' = "settings"
          /\ UNCHANGED <<applied, saved>>
      BY <2>9 DEF AnswerSettings, Goto
    <3>2. ASSUME NEW i \in DOMAIN Tail(settings_queue)
          PROVE  /\ Tail(settings_queue)[i].save <= saved
                 /\ attempt # NoAttempt =>
                      \/ Older(Tail(settings_queue)[i], attempt)
                      \/ /\ Tail(settings_queue)[i] = attempt
                         /\ i = Len(Tail(settings_queue))
      <4>1. /\ i + 1 \in DOMAIN settings_queue
            /\ Tail(settings_queue)[i] = settings_queue[i + 1]
            /\ i + 1 = Len(settings_queue) <=> i = Len(Tail(settings_queue))
        BY <2>1, <3>1, TailOfSent
      <4> QED
        BY <4>1 DEF Sent
    <3>3. CASE attempt = Head(settings_queue)
      <4>1. attempt \in Attempts /\ attempt # NoAttempt
        BY <2>1, <3>1, <3>3, TailOfSent, AttemptsAreAttempts
      <4>2. Len(settings_queue) = 1
        <5>1. settings_queue[1] = attempt /\ 1 \in DOMAIN settings_queue
          BY <2>1, <3>1, <3>3, TailOfSent
        <5>2. ~Older(attempt, attempt)
          BY <4>1, AttemptsAreAttempts DEF Older
        <5> QED
          BY <4>1, <5>1, <5>2 DEF Sent
      <4>3. Tail(settings_queue) = <<>> /\ DOMAIN Tail(settings_queue) = {}
        BY <2>1, <3>1, <4>2, TailOfSent
      <4>4. CASE attempt' = NoAttempt /\ settings_queue' = Tail(settings_queue)
        <5>1. applied = saved
          BY <3>1, <3>3, <4>1 DEF Sent
        <5> QED
          BY <3>1, <4>3, <4>4, <5>1 DEF Sent
      <4>5. CASE /\ MoreAttempts /\ attempt' = [attempt EXCEPT !.number = @ + 1]
                 /\ settings_queue' = Append(Tail(settings_queue), attempt')
        <5>1. attempt' \in Attempts /\ attempt'.save = attempt.save /\ attempt' # NoAttempt
          BY <4>1, <4>5, NextAttempt, AttemptsAreAttempts DEF Types
        <5>2. Tail(settings_queue) \in Seq(Attempts) /\ settings_queue' \in Seq(Attempts)
          BY <2>1, <3>1, <4>5, <5>1, TailOfSent
        <5>3. attempt'.save <= saved /\ attempt'.save = saved
          BY <2>1, <4>1, <5>1 DEF Sent
        <5> QED
          BY <2>1, <3>1, <4>3, <4>5, <5>1, <5>2, <5>3, SentAgain DEF Sent
      <4> QED
        BY <2>9, <3>3, <4>4, <4>5 DEF AnswerSettings, AnswerIsAwaited
    <3>4. CASE attempt # Head(settings_queue)
      <4>1. settings_queue' = Tail(settings_queue) /\ UNCHANGED <<attempt, configured>>
        BY <2>9, <3>4 DEF AnswerSettings, AnswerIsAwaited
      <4>2. ~(configured /\ attempt = NoAttempt)
        BY <3>1 DEF Sent
      <4> QED
        BY <3>1, <3>2, <4>1, <4>2 DEF Sent
    <3> QED
      BY <3>3, <3>4
  <2>10. [Next]_vars =>
           \/ UNCHANGED sentVars
           \/ MainThread \/ Interrupted \/ Filter
    BY DEF Next, vars, mainVars, audioVars, settingsVars, sentVars, Send, GiveUp,
           PoolThread, Run, reply, SetResult, complete
  <2> QED
    BY <2>2, <2>3, <2>4, <2>5, <2>6, <2>7, <2>8, <2>9, <2>10 DEF MainThread, Filter
<1>3. Sent => ConfiguredIsApplied
  BY DEF Sent, ConfiguredIsApplied
<1> QED
  BY <1>1, <1>2, <1>3, TypesAreKept, PTL DEF Spec
=============================================================================
