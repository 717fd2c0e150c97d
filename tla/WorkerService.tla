--------------------------- MODULE WorkerService ---------------------------
(***************************************************************************)
(* The worker process as its clients see it: one main thread that polls    *)
(* two services in turn, a pool of threads that answer audio requests, and *)
(* the set of pending futures that keeps the pool from being overrun.      *)
(*                                                                         *)
(*   - each conversion thread of the plugin is a client of the audio       *)
(*     service: it sends a request and polls for the answer until its      *)
(*     timeout, then gives the request up;                                 *)
(*   - a filter sends its settings in up to two attempts. The main thread  *)
(*     handles them itself, so no audio request is received meanwhile.     *)
(*                                                                         *)
(* iceoryx2 is external: a service delivers requests in order, a request   *)
(* is delivered although its client gave up, and an answer reaches the     *)
(* attempt that it belongs to or nobody.                                   *)
(***************************************************************************)
EXTENDS Integers, Sequences, FiniteSets

CONSTANTS
  Clients,          \* the conversion threads
  Requests,         \* identities of audio requests, reused when done with
  parallel_workers, \* threads of the pool, 1 to 4 in the build
  MaxSaves          \* bound: how often the settings are saved

None == "none"

ASSUME ServiceAssumption ==
  /\ IsFiniteSet(Requests)
  /\ None \notin Requests
  /\ parallel_workers \in Nat \ {0}
  /\ MaxSaves \in Nat

kWorkerConfigureAttempts == 2

VARIABLES
  main,             \* where the main thread is
  current,          \* the audio request it is about to hand to the pool
  audio_queue,      \* audio requests that were not received yet
  pending,          \* RVCEndpoint.pending
  future,           \* of each audio request that was received
  registered,       \* futures that have their done callback
  awaited,          \* client -> the request whose answer it polls for
  settings_queue,   \* settings requests that were not received yet
  applied,          \* the save whose settings the runtime has
  saved,            \* how often the settings were saved
  attempt,          \* the attempt that the filter polls for
  configured        \* the filter's own flag

mainVars == <<main, current>>
audioVars == <<audio_queue, pending, future, registered, awaited>>
settingsVars == <<settings_queue, applied, saved, attempt, configured>>
vars == <<mainVars, audioVars, settingsVars>>

NoAttempt == [save |-> 0, number |-> 0]

Init ==
  /\ main = "wait"
  /\ current = None
  /\ audio_queue = <<>>
  /\ pending = {}
  /\ future = [r \in Requests |-> None]
  /\ registered = {}
  /\ awaited = [c \in Clients |-> None]
  /\ settings_queue = <<>>
  /\ applied = 0
  /\ saved = 0
  /\ attempt = NoAttempt
  /\ configured = FALSE

Open == main \notin {"closed", "deleted"}
Goto(label) == main' = label
SetFuture(r, state) == future' = [future EXCEPT ![r] = state]

\* Requests are distinct: r stands for one that is queued, served or polled for.
InUse(r) ==
  \/ \E c \in Clients : awaited[c] = r
  \/ future[r] # None
  \/ r = current
  \/ \E i \in DOMAIN audio_queue : audio_queue[i] = r
-----------------------------------------------------------------------------
\* RvcAudioClient::convert: send a request and poll for its answer, ...
Send(c) ==
  /\ Open
  /\ awaited[c] = None
  /\ \E r \in Requests :
       /\ ~InUse(r)
       /\ audio_queue' = Append(audio_queue, r)
       /\ awaited' = [awaited EXCEPT ![c] = r]
  /\ UNCHANGED <<mainVars, pending, future, registered, settingsVars>>

\* ... until the timeout of the exchange.
GiveUp(c) ==
  /\ awaited[c] # None
  /\ awaited' = [awaited EXCEPT ![c] = None]
  /\ UNCHANGED <<mainVars, audio_queue, pending, future, registered, settingsVars>>

\* An answer to r reaches the client that still polls for it, if one does.
Delivered(r) == [c \in Clients |-> IF awaited[c] = r THEN None ELSE awaited[c]]
-----------------------------------------------------------------------------
\* The main loop: wait, drain the audio service, drain the settings service.
Wake ==
  /\ main = "wait"
  /\ Goto("audio")
  /\ UNCHANGED <<current, audioVars, settingsVars>>

\* Mutant: the number of pending futures is not looked at.
AlwaysHasSlot == TRUE

HasSlot == Cardinality(pending) < parallel_workers

\* Mutant: the callback is registered before the future is added to pending.
StepAfterSwapped(step) ==
  CASE step = "received" -> "register"
    [] step = "register" -> "add"
    [] OTHER             -> "audio"

\* The order of the steps of RVCEndpoint.process.
StepAfter(step) ==
  CASE step = "received" -> "add"
    [] step = "add"      -> "register"
    [] OTHER             -> "audio"

\* RVCEndpoint.process: receive and submit, if the pool has a slot ...
Receive ==
  /\ main = "audio"
  /\ HasSlot
  /\ audio_queue # <<>>
  /\ current' = Head(audio_queue)
  /\ audio_queue' = Tail(audio_queue)
  /\ SetFuture(Head(audio_queue), "submitted")
  /\ Goto(StepAfter("received"))
  /\ UNCHANGED <<pending, registered, awaited, settingsVars>>

AudioDrained ==
  /\ main = "audio"
  /\ ~HasSlot \/ audio_queue = <<>>
  /\ Goto("settings")
  /\ UNCHANGED <<current, audioVars, settingsVars>>

\* ... then add the future to pending, ...
AddPending ==
  /\ main = "add"
  /\ pending' = pending \cup {current}
  /\ Goto(StepAfter("add"))
  /\ current' = IF StepAfter("add") = "audio" THEN None ELSE current
  /\ UNCHANGED <<audio_queue, future, registered, awaited, settingsVars>>

\* ... and its callback to the future. A future that is done calls it at once.
AddDoneCallback ==
  /\ main = "register"
  /\ IF future[current] = "done"
     THEN /\ pending' = pending \ {current}
          /\ SetFuture(current, None)
          /\ UNCHANGED registered
     ELSE /\ registered' = registered \cup {current}
          /\ UNCHANGED <<pending, future>>
  /\ Goto(StepAfter("register"))
  /\ current' = IF StepAfter("register") = "audio" THEN None ELSE current
  /\ UNCHANGED <<audio_queue, awaited, settingsVars>>
-----------------------------------------------------------------------------
Busy == {r \in Requests : future[r] \in {"running", "replied", "completing"}}
Unfinished == {r \in Requests : future[r] \in {"submitted", "running", "replied"}}

\* A thread of the pool takes the future, ...
Run(r) ==
  /\ future[r] = "submitted"
  /\ Cardinality(Busy) < parallel_workers
  /\ SetFuture(r, "running")
  /\ UNCHANGED <<mainVars, audio_queue, pending, registered, awaited, settingsVars>>

\* ... replies to the request, or raises while it does, and deletes it, ...
reply(r) ==
  /\ future[r] = "running"
  /\ SetFuture(r, "replied")
  /\ awaited' = Delivered(r) \/ UNCHANGED awaited
  /\ UNCHANGED <<mainVars, audio_queue, pending, registered, settingsVars>>

\* ... sets the result, and calls the callback if there is one by now.
SetResult(r) ==
  /\ future[r] = "replied"
  /\ SetFuture(r, IF r \in registered THEN "completing" ELSE "done")
  /\ UNCHANGED <<mainVars, audio_queue, pending, registered, awaited, settingsVars>>

complete(r) ==
  /\ future[r] = "completing"
  /\ pending' = pending \ {r}
  /\ registered' = registered \ {r}
  /\ SetFuture(r, None)
  /\ UNCHANGED <<mainVars, audio_queue, awaited, settingsVars>>
-----------------------------------------------------------------------------
\* rvc_filter_update: the first attempt, ...
Save ==
  /\ Open
  /\ attempt = NoAttempt
  /\ saved < MaxSaves
  /\ saved' = saved + 1
  /\ attempt' = [save |-> saved + 1, number |-> 1]
  /\ settings_queue' = Append(settings_queue, attempt')
  /\ UNCHANGED <<mainVars, audioVars, applied, configured>>

\* The settings are not valid, or too long for a request: nothing is sent.
SaveInvalid ==
  /\ attempt = NoAttempt
  /\ configured' = FALSE
  /\ UNCHANGED <<mainVars, audioVars, settings_queue, applied, saved, attempt>>

MoreAttempts == attempt.number < kWorkerConfigureAttempts

\* ... the next one if it failed, and the end once there is none left.
Retry ==
  /\ MoreAttempts
  /\ attempt' = [attempt EXCEPT !.number = @ + 1]
  /\ IF Open
     THEN settings_queue' = Append(settings_queue, attempt')
     ELSE UNCHANGED settings_queue
  /\ UNCHANGED configured

Fail ==
  /\ ~MoreAttempts
  /\ attempt' = NoAttempt
  /\ configured' = FALSE
  /\ UNCHANGED settings_queue

AttemptTimesOut ==
  /\ attempt # NoAttempt
  /\ Retry \/ Fail
  /\ UNCHANGED <<mainVars, audioVars, applied, saved>>

\* SettingsEndpoint.process: receive, and handle: configure, reset and warmup.
ReceiveSettings ==
  /\ main = "settings"
  /\ settings_queue # <<>>
  /\ applied' = Head(settings_queue).save
  /\ Goto("handling")
  /\ UNCHANGED <<current, audioVars, settings_queue, saved, attempt, configured>>

\* Mutant: any answer is taken for that of the attempt.
AnyAnswerIsAwaited(answered) == attempt # NoAttempt

AnswerIsAwaited(answered) == attempt = answered

\* The answer, OK or not. Nobody hears it if the attempt was given up.
AnswerSettings ==
  /\ main = "handling"
  /\ settings_queue # <<>>
  /\ IF AnswerIsAwaited(Head(settings_queue))
     THEN \/ /\ attempt' = NoAttempt
             /\ configured' = TRUE
             /\ settings_queue' = Tail(settings_queue)
          \/ /\ MoreAttempts
             /\ attempt' = [attempt EXCEPT !.number = @ + 1]
             /\ settings_queue' = Append(Tail(settings_queue), attempt')
             /\ UNCHANGED configured
          \/ /\ ~MoreAttempts
             /\ attempt' = NoAttempt
             /\ configured' = FALSE
             /\ settings_queue' = Tail(settings_queue)
     ELSE /\ settings_queue' = Tail(settings_queue)
          /\ UNCHANGED <<attempt, configured>>
  /\ Goto("settings")
  /\ UNCHANGED <<current, audioVars, applied, saved>>

SettingsDrained ==
  /\ main = "settings"
  /\ settings_queue = <<>>
  /\ Goto("wait")
  /\ UNCHANGED <<current, audioVars, settingsVars>>
-----------------------------------------------------------------------------
\* The wait fails or is interrupted: the main loop ends, ...
Interrupted ==
  /\ main = "wait"
  /\ Goto("closing")
  /\ UNCHANGED <<current, audioVars, settingsVars>>

\* Mutant: the executor is shut down without waiting.
NeverWaits == TRUE

PoolIsIdle == Unfinished = {}

\* ... RVCEndpoint.close waits for the pool, ...
close ==
  /\ main = "closing"
  /\ PoolIsIdle
  /\ Goto("closed")
  /\ UNCHANGED <<current, audioVars, settingsVars>>

\* ... and the servers are deleted, with the requests that they still hold.
Delete ==
  /\ main = "closed"
  /\ Goto("deleted")
  /\ audio_queue' = <<>>
  /\ settings_queue' = <<>>
  /\ UNCHANGED <<current, pending, future, registered, awaited, applied, saved, attempt,
                 configured>>
-----------------------------------------------------------------------------
MainThread ==
  \/ Wake
  \/ Receive
  \/ AudioDrained
  \/ AddPending
  \/ AddDoneCallback
  \/ ReceiveSettings
  \/ AnswerSettings
  \/ SettingsDrained
  \/ close
  \/ Delete

PoolThread(r) == Run(r) \/ reply(r) \/ SetResult(r) \/ complete(r)

Filter == Save \/ SaveInvalid \/ AttemptTimesOut

Next ==
  \/ MainThread
  \/ Interrupted
  \/ \E r \in Requests : PoolThread(r)
  \/ \E c \in Clients : Send(c) \/ GiveUp(c)
  \/ Filter

Spec == Init /\ [][Next]_vars

\* The threads of the process are scheduled, and a conversion ends. No client has
\* to send or to give up, and nobody has to save or to interrupt.
Fairness ==
  /\ WF_vars(MainThread)
  /\ \A r \in Requests : WF_vars(PoolThread(r))

FairSpec == Spec /\ Fairness
-----------------------------------------------------------------------------
\* Every variable has its type, and no save is attempted more often than it may be.
TypeOK ==
  /\ main \in {"wait", "audio", "add", "register", "settings", "handling", "closing",
               "closed", "deleted"}
  /\ current \in Requests \cup {None}
  /\ audio_queue \in Seq(Requests)
  /\ pending \subseteq Requests
  /\ future \in [Requests -> {None, "submitted", "running", "replied", "completing", "done"}]
  /\ registered \subseteq Requests
  /\ awaited \in [Clients -> Requests \cup {None}]
  /\ applied \in 0 .. MaxSaves
  /\ saved \in 0 .. MaxSaves
  /\ attempt \in {NoAttempt}
       \cup [save : 1 .. MaxSaves, number : 1 .. kWorkerConfigureAttempts]
  /\ configured \in BOOLEAN

\* The pool never has more to do than it has threads: what it cannot start at once
\* stays in the service, although a future is counted only after it was submitted.
PoolIsNotOverrun == Cardinality(Unfinished) <= parallel_workers

\* A slot is given back: a future in pending is unfinished, or somebody is about to
\* call complete for it.
NoLeakedSlot ==
  \A r \in pending :
    \/ r \in Unfinished
    \/ future[r] = "completing"
    \/ future[r] = "done" /\ current = r

\* No thread of the pool uses a request of a server that was deleted.
ServersOutliveReplies == main = "deleted" => Unfinished = {}

\* A filter that says it is configured is right: what the worker process applied
\* last are its last settings, however many attempts of it were given up before.
ConfiguredIsApplied == configured /\ attempt = NoAttempt => applied = saved

\* A request that a client keeps waiting for is received in the end: no behaviour of
\* the other clients or of the settings keeps every slot or the main thread busy.
RequestsAreReceived ==
  \A r \in Requests :
    (\E i \in DOMAIN audio_queue : audio_queue[i] = r)
      ~> (future[r] # None \/ main \in {"closing", "closed", "deleted"})
============================================================================
