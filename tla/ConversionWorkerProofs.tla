----------------------- MODULE ConversionWorkerProofs -----------------------
(***************************************************************************)
(* Proofs about ConversionWorker, for every set of formats, callbacks and  *)
(* options, every request buffer, and generations of any width; and that   *)
(* ConversionPacing implements it, whatever conversions last.              *)
(***************************************************************************)
EXTENDS ConversionPacing, StreamTimingProofs

\* Facts about the operators of the monitor.
LEMMA HopsAreNat ==
  ASSUME TypeOK
  PROVE  Hop \in Nat /\ StartupHop \in Nat
BY HopIsNat DEF TypeOK, Hop, StartupHop

\* A generation that is bumped, and wraps around, is one of the generations.
LEMMA LaterIsGeneration ==
  ASSUME generation \in 0 .. Generations - 1, NEW n \in Nat
  PROVE  Later(n) \in 0 .. Generations - 1
<1>1. generation + n \in Nat /\ Generations \in Nat \ {0}
  BY WorkerAssumption
<1> QED
  BY <1>1 DEF Later

\* Rounding up to whole hops discards at least the excess.
LEMMA WholeHopsCover ==
  ASSUME NEW excess \in Nat, NEW hop \in Nat \ {0}
  PROVE  /\ ((excess + hop - 1) \div hop) * hop \in Nat
         /\ ((excess + hop - 1) \div hop) * hop >= excess
<1> DEFINE q == (excess + hop - 1) \div hop
           r == (excess + hop - 1) % hop
<1>1. excess + hop - 1 \in Nat
  OBVIOUS
<1>2. q \in Nat /\ r \in 0 .. hop - 1
  BY <1>1
<1>3. excess + hop - 1 = q * hop + r
  BY <1>1
<1>4. q * hop \in Nat
  BY <1>2, ProductIsNat
<1> HIDE DEF q, r
<1>5. q * hop >= excess
  BY <1>2, <1>3, <1>4
<1> QED
  BY <1>4, <1>5 DEF q

\* What submit discards is natural, and brings the input back to its maximum.
LEMMA DiscardedBringsBack ==
  ASSUME NEW rate \in Nat, NEW hop \in Nat, NEW size \in Nat
  PROVE  /\ DiscardedFrames(rate, hop, size) \in Nat
         /\ size - DiscardedFrames(rate, hop, size) <= MaximumSamples(rate, hop)
<1> DEFINE maximum == MaximumSamples(rate, hop)
           excess  == size - maximum
<1>1. maximum \in Nat
  BY PartsAreNat DEF MaximumSamples
<1>2. excess \in Int
  BY <1>1
<1>3. DiscardedFrames(rate, hop, size) =
        IF excess <= 0 THEN 0
        ELSE IF hop = 0 THEN excess ELSE ((excess + hop - 1) \div hop) * hop
  BY DEF DiscardedFrames
<1>4. CASE excess <= 0
  <2>1. DiscardedFrames(rate, hop, size) = 0 /\ excess = size - maximum
    BY <1>3, <1>4
  <2> HIDE DEF maximum, excess
  <2> QED
    BY <1>1, <1>4, <2>1 DEF maximum
<1>5. CASE excess > 0 /\ hop = 0
  <2>1. DiscardedFrames(rate, hop, size) = excess
    BY <1>2, <1>3, <1>5
  <2> QED
    BY <1>1, <1>5, <2>1
<1>6. CASE excess > 0 /\ hop # 0
  <2> DEFINE whole == ((excess + hop - 1) \div hop) * hop
  <2>1. DiscardedFrames(rate, hop, size) = whole
    BY <1>2, <1>3, <1>6
  <2>2. excess \in Nat
    BY <1>2, <1>6
  <2> HIDE DEF excess
  <2>3. whole \in Nat /\ whole >= excess
    BY <1>6, <2>2, WholeHopsCover
  <2>4. excess = size - maximum
    BY DEF excess
  <2> HIDE DEF whole, maximum
  <2>5. DiscardedFrames(rate, hop, size) \in Nat
    BY <2>1, <2>3
  <2>6. size - DiscardedFrames(rate, hop, size) <= maximum
    BY <1>1, <2>1, <2>2, <2>3, <2>4
  <2> QED
    BY <2>5, <2>6 DEF maximum
<1> QED
  BY <1>2, <1>4, <1>5, <1>6
-----------------------------------------------------------------------------
\* The values that stand for no capture and no callback have the types of theirs.
LEMMA NothingIsTyped == Nothing \in Captures /\ NoCallback \in Playbacks
<1>1. 0 \in 0 .. Generations - 1
  BY WorkerAssumption
<1> QED
  BY <1>1 DEF Nothing, NoCallback, Captures, Playbacks

\* A new worker has its types.
LEMMA InitTypeOK == Init => TypeOK
<1> SUFFICES ASSUME Init PROVE TypeOK
  OBVIOUS
<1>1. generation \in 0 .. Generations - 1
  BY WorkerAssumption DEF Init
<1>2. captured \in Captures /\ callback \in Playbacks
  BY NothingIsTyped DEF Init
<1>3. /\ configured \in BOOLEAN
      /\ has_completed_conversion \in BOOLEAN
      /\ stopping \in BOOLEAN
      /\ discontinuity \in BOOLEAN
      /\ playback_started \in BOOLEAN
      /\ playback_gain \in BOOLEAN
      /\ gap \in BOOLEAN
  BY DEF Init
<1> QED
  BY <1>1, <1>2, <1>3 DEF Init, TypeOK, Threads

\* A reset keeps the types.
LEMMA ResetTypeOK ==
  ASSUME TypeOK, NEW o \in Options, reset(o)
  PROVE  TypeOK'
<1>1. o.initial \in Nat /\ o.maximum \in Nat
  BY WorkerAssumption
<1>2. generation' \in 0 .. Generations - 1
  BY LaterIsGeneration DEF reset, TypeOK
<1>3. thread' \in Threads
  BY DEF reset, notify_one, TypeOK, Threads
<1>4. tail_of' \in {"none", "pending", "last", "lost"} /\ partner' \in {"none", "pending", "last", "lost"}
  BY DEF reset, Orphaned, TypeOK
<1> QED
  BY <1>1, <1>2, <1>3, <1>4 DEF reset, TypeOK, formatVars, callerVars

\* A submit keeps the types: what it discards is never more than there is.
LEMMA SubmitTypeOK ==
  ASSUME TypeOK, NEW fmt \in Formats, NEW frames \in Callbacks, submit(fmt, frames)
  PROVE  TypeOK'
<1> DEFINE reformatted == fmt.rate # sample_rate \/ fmt.channels # channels
           hop         == conversion_frame_count(fmt.rate, active_chunk_duration_ms)
           appended    == (IF reformatted THEN 0 ELSE input) + frames
           discarded   == DiscardedFrames(fmt.rate, hop, appended)
           bumps       == GenerationBumps(reformatted, discarded)
<1>1. fmt.rate \in Nat /\ fmt.channels \in Nat /\ frames \in Nat
  BY WorkerAssumption
<1>2. appended \in Nat /\ hop \in Nat
  <2>1. hop \in Nat
    BY <1>1, HopIsNat DEF TypeOK
  <2>2. appended \in Nat
    BY <1>1 DEF TypeOK
  <2> QED
    BY <2>1, <2>2
<1>3. discarded \in Nat
  <2> HIDE DEF appended, hop
  <2> QED
    BY <1>1, <1>2, DiscardedBringsBack
<1>4. bumps \in Nat
  BY DEF GenerationBumps
<1>5. generation' \in 0 .. Generations - 1
  <2>1. generation' = IF bumps > 0 THEN Later(bumps) ELSE generation
    BY DEF submit
  <2> HIDE DEF bumps
  <2> QED
    BY <1>4, <2>1, LaterIsGeneration DEF TypeOK
<1>6. input' \in Nat
  <2>1. input' = IF discarded <= appended THEN appended - discarded ELSE 0
    BY DEF submit
  <2> HIDE DEF discarded, appended
  <2> QED
    BY <1>2, <1>3, <2>1
<1>7. output' \in Nat
  BY DEF submit, TypeOK
<1>8. /\ playback_gain' \in BOOLEAN
      /\ playback_started' \in BOOLEAN
      /\ discontinuity' \in BOOLEAN
      /\ gap' \in BOOLEAN
  BY DEF submit, TypeOK
<1>9. tail_of' \in {"none", "pending", "last", "lost"} /\ partner' \in {"none", "pending", "last", "lost"}
  BY DEF submit, Orphaned, TypeOK
<1>10. thread' \in Threads
  BY DEF submit, notify_one, TypeOK, Threads
<1>11. /\ sample_rate' = fmt.rate
       /\ channels' = fmt.channels
       /\ audio' = "submitted"
       /\ callback' = [frames |-> frames, rate |-> fmt.rate, channels |-> fmt.channels,
                       generation |-> 0]
       /\ UNCHANGED <<settingVars, has_completed_conversion, stopping, captured, tail, stopper>>
  BY DEF submit
<1>12. callback' \in Playbacks
  BY <1>1, <1>11, WorkerAssumption DEF Playbacks
<1> QED
  BY <1>1, <1>5, <1>6, <1>7, <1>8, <1>9, <1>10, <1>11, <1>12 DEF TypeOK, settingVars

\* The audio thread keeps the types: receive never takes more than there is.
LEMMA AudioTypeOK ==
  ASSUME TypeOK, AudioThread
  PROVE  TypeOK'
<1>1. ASSUME NEW fmt \in Formats, NEW frames \in Callbacks, submit(fmt, frames)
      PROVE  TypeOK'
  BY <1>1, SubmitTypeOK
<1>2. ASSUME NEW fmt \in Formats, NEW frames \in Callbacks, SubmitIgnored(fmt, frames)
      PROVE  TypeOK'
  <2>1. callback' \in Playbacks
    BY <1>2, WorkerAssumption DEF SubmitIgnored, Playbacks
  <2> QED
    BY <1>2, <2>1 DEF SubmitIgnored, TypeOK, settingVars, formatVars, flowVars, playVars, threadVars
<1>3. CASE ReceiveNothing
  <2>1. playback_started' \in BOOLEAN /\ playback_gain' \in BOOLEAN
    BY <1>3 DEF ReceiveNothing, TypeOK
  <2> QED
    BY <1>3, <2>1, NothingIsTyped
       DEF ReceiveNothing, TypeOK, settingVars, formatVars, flowVars, threadVars
<1>4. CASE receive
  <2>1. callback.frames * channels \in Nat
    BY ProductIsNat DEF TypeOK, Playbacks
  <2>2. output' \in Nat
    BY <1>4, <2>1 DEF receive, OutputCovers, TypeOK
  <2>3. callback' \in Playbacks
    BY <1>4 DEF receive, TypeOK, Playbacks
  <2> QED
    BY <1>4, <2>2, <2>3 DEF receive, TypeOK, settingVars, formatVars, threadVars
<1>5. CASE ReceiveDone
  <2>1. thread' \in Threads
    BY <1>5 DEF ReceiveDone, notify_one, TypeOK, Threads
  <2>2. playback_gain' \in BOOLEAN
    BY <1>5 DEF ReceiveDone, GainIsCurrent
  <2> QED
    BY <1>5, <2>1, <2>2, NothingIsTyped
       DEF ReceiveDone, TypeOK, settingVars, formatVars, flowVars
<1> QED
  BY <1>1, <1>2, <1>3, <1>4, <1>5 DEF AudioThread

\* The conversion thread keeps the types: it takes a hop only if there is one.
LEMMA ConversionTypeOK ==
  ASSUME TypeOK, ConversionThread
  PROVE  TypeOK'
<1>1. CASE ThreadStops \/ ThreadBlocks
  BY <1>1 DEF ThreadStops, ThreadBlocks, TypeOK, Threads, settingVars, formatVars, flowVars,
              playVars, callerVars
<1>2. CASE Capture
  <2>1. Hop \in Nat /\ Hop <= input
    BY <1>2, HopsAreNat, PartsAreNat DEF Capture, WorkReady, InputReady, TypeOK
  <2>2. input' \in Nat
    BY <1>2, <2>1 DEF Capture, TypeOK
  <2>3. captured' \in Captures
    <3>1. options.fits \in BOOLEAN
      <4>1. CASE options \in Options
        <5>1. options \in [initial : Nat \ {0}, maximum : Nat \ {0}, fits : BOOLEAN]
          BY <4>1, WorkerAssumption
        <5> QED
          BY <5>1
      <4>2. CASE options = NoOptions
        BY <4>2 DEF NoOptions
      <4> QED
        BY <4>1, <4>2 DEF TypeOK
    <3> QED
      BY <1>2, <2>1, <3>1 DEF Capture, TypeOK, Captures
  <2>4. /\ tail' \in Nat
        /\ tail_of' \in {"none", "pending", "last", "lost"}
        /\ gap' \in BOOLEAN
    BY <1>2 DEF Capture, TypeOK
  <2>5. /\ thread' \in Threads /\ discontinuity' \in BOOLEAN
        /\ UNCHANGED <<settingVars, formatVars, output, generation, playVars, partner,
                       callerVars, has_completed_conversion, stopping>>
    BY <1>2 DEF Capture, Threads
  <2> QED
    BY <2>2, <2>3, <2>4, <2>5 DEF TypeOK, settingVars, formatVars, playVars, callerVars
<1>3. CASE SettingsTooLong
  BY <1>3, NothingIsTyped
     DEF SettingsTooLong, TypeOK, Threads, settingVars, formatVars, flowVars, playVars, callerVars
<1>9. CASE ConversionFails
  BY <1>9, NothingIsTyped
     DEF ConversionFails, TypeOK, Threads, settingVars, formatVars, flowVars, playVars, callerVars
<1>4. CASE Stitch
  <2>1. overlap_frames(captured.rate) * captured.channels \in Nat
    BY PartsAreNat, ProductIsNat DEF TypeOK, Captures
  <2> QED
    BY <1>4, <2>1 DEF Stitch, TypeOK, Threads, settingVars, formatVars, flowVars, playVars, callerVars
<1>5. CASE DropBlock
  BY <1>5, NothingIsTyped
     DEF DropBlock, TypeOK, Threads, settingVars, formatVars, flowVars,
         playVars, callerVars
<1>6. CASE AppendBlock
  <2>1. captured.hop * captured.channels \in Nat /\ 4 * captured.hop * captured.channels \in Nat
    <3>1. captured.hop \in Nat /\ captured.channels \in Nat /\ 4 * captured.hop \in Nat
      BY DEF TypeOK, Captures
    <3> QED
      BY <3>1, ProductIsNat
  <2>2. output' \in Nat
    BY <1>6, <2>1 DEF AppendBlock, Appended, TypeOK
  <2> QED
    BY <1>6, <2>2 DEF AppendBlock, TypeOK, Threads, settingVars, formatVars, playVars, callerVars
<1>7. CASE KeepPace
  BY <1>7, NothingIsTyped
     DEF KeepPace, TypeOK, Threads, settingVars, formatVars, flowVars, playVars, callerVars
<1>8. CASE GrowBlock
  BY <1>8, NothingIsTyped
     DEF GrowBlock, kGrowthMs, TypeOK, Threads, formatVars, flowVars, playVars, callerVars
<1> QED
  BY <1>1, <1>2, <1>3, <1>4, <1>5, <1>6, <1>7, <1>8, <1>9 DEF ConversionThread

\* The counts of samples never go below zero, nor does anything else lose its type.
THEOREM TypeCorrect == Spec => []TypeOK
<1>1. TypeOK /\ [Next]_vars => TypeOK'
  <2> SUFFICES ASSUME TypeOK, [Next]_vars PROVE TypeOK'
    OBVIOUS
  <2>1. CASE AudioThread
    BY <2>1, AudioTypeOK
  <2>2. CASE ConversionThread
    BY <2>2, ConversionTypeOK
  <2>3. CASE SpuriousWakeup
    BY <2>3 DEF SpuriousWakeup, TypeOK, Threads, settingVars, formatVars, flowVars, playVars,
                callerVars
  <2>4. ASSUME NEW o \in Options, reset(o) PROVE TypeOK'
    BY <2>4, ResetTypeOK
  <2>5. CASE StoppingThread
    <3>1. CASE StopFlag
      BY <3>1 DEF StopFlag, TypeOK, settingVars, formatVars, flowVars, playVars, threadVars
    <3>2. CASE StopNotify
      BY <3>2 DEF StopNotify, notify_one, TypeOK, Threads, settingVars, formatVars, flowVars, playVars
    <3>3. CASE StopJoin
      BY <3>3 DEF StopJoin, TypeOK, settingVars, formatVars, flowVars, playVars, threadVars
    <3> QED
      BY <2>5, <3>1, <3>2, <3>3 DEF StoppingThread
  <2>6. CASE UNCHANGED vars
    BY <2>6 DEF vars, TypeOK, settingVars, formatVars, flowVars, playVars, threadVars, callerVars
  <2> QED
    BY <2>1, <2>2, <2>3, <2>4, <2>5, <2>6 DEF Next, Stopped
<1> QED
  BY InitTypeOK, <1>1, PTL DEF Spec
-----------------------------------------------------------------------------
\* A thread that blocks although there is work is about to be notified: there is
\* no interleaving in which the worker sleeps on audio that it could convert.
THEOREM WakeupsAreNotLost == Spec => []NoLostWakeup
<1>1. Init => NoLostWakeup
  BY DEF Init, NoLostWakeup
<1>2. NoLostWakeup /\ [Next]_vars => NoLostWakeup'
  <2> SUFFICES ASSUME NoLostWakeup, [Next]_vars PROVE NoLostWakeup'
    OBVIOUS
  <2>1. ASSUME NEW o \in Options, reset(o) PROVE NoLostWakeup'
    BY <2>1 DEF reset, notify_one, NoLostWakeup
  <2>2. ASSUME NEW fmt \in Formats, NEW frames \in Callbacks, submit(fmt, frames)
        PROVE  NoLostWakeup'
    BY <2>2 DEF submit, notify_one, NoLostWakeup
  <2>3. ASSUME NEW fmt \in Formats, NEW frames \in Callbacks, SubmitIgnored(fmt, frames)
        PROVE  NoLostWakeup'
    BY <2>3 DEF SubmitIgnored, NoLostWakeup, WorkReady, InputReady, OutputRoom, Hop, settingVars,
                formatVars, flowVars, threadVars
  <2>4. CASE ReceiveNothing
    BY <2>4 DEF ReceiveNothing, NoLostWakeup, WorkReady, InputReady, OutputRoom, Hop, settingVars,
                formatVars, flowVars, threadVars
  <2>5. CASE receive
    BY <2>5 DEF receive, NoLostWakeup
  <2>6. CASE ReceiveDone
    BY <2>6 DEF ReceiveDone, notify_one, NoLostWakeup
  <2>7. CASE ThreadBlocks
    BY <2>7 DEF ThreadBlocks, NoLostWakeup, WorkReady, InputReady, OutputRoom, Hop, settingVars,
                formatVars, flowVars
  <2>8. ASSUME \/ ThreadStops \/ Capture \/ SettingsTooLong \/ ConversionFails \/ Stitch
               \/ DropBlock \/ AppendBlock \/ KeepPace \/ GrowBlock \/ SpuriousWakeup
        PROVE  NoLostWakeup'
    <3>1. thread' # "blocked"
      BY <2>8 DEF ThreadStops, Capture, SettingsTooLong, ConversionFails, Stitch, DropBlock,
                  AppendBlock, KeepPace, GrowBlock, SpuriousWakeup
    <3> QED
      BY <3>1 DEF NoLostWakeup
  <2>9. CASE StopFlag
    BY <2>9 DEF StopFlag, NoLostWakeup
  <2>10. CASE StopNotify
    BY <2>10 DEF StopNotify, notify_one, NoLostWakeup
  <2>11. CASE StopJoin
    BY <2>11 DEF StopJoin, NoLostWakeup, threadVars
  <2>12. CASE UNCHANGED vars
    BY <2>12 DEF vars, NoLostWakeup, WorkReady, InputReady, OutputRoom, Hop, settingVars,
                 formatVars, flowVars, threadVars, callerVars
  <2> QED
    BY <2>1, <2>2, <2>3, <2>4, <2>5, <2>6, <2>7, <2>8, <2>9, <2>10, <2>11, <2>12
       DEF Next, AudioThread, ConversionThread, StoppingThread, Stopped
<1> QED
  BY <1>1, <1>2, PTL DEF Spec
-----------------------------------------------------------------------------
\* The parts of a step that leave the stream alone.
StreamUnchanged ==
  UNCHANGED <<output, generation, sample_rate, channels, active_chunk_duration_ms,
              startup_chunk_duration_ms, stopping, discontinuity, playback_started,
              captured, tail, tail_of>>

\* A step that touches nothing of the stream keeps StreamInv.
LEMMA StreamFrame ==
  ASSUME StreamInv, StreamUnchanged, InFlight' => InFlight,
         thread' = "convert" => thread = "convert",
         audio' = "playing" => audio = "playing" /\ callback' = callback
  PROVE  StreamInv'
<1>1. /\ Current' = Current
      /\ Hop' = Hop
      /\ StartupHop' = StartupHop
  BY DEF StreamUnchanged, Current, Hop, StartupHop
<1>2. FlightMatches'
  BY <1>1 DEF StreamInv, FlightMatches, StreamUnchanged
<1>3. StaleIsAnnounced' /\ LostIsAnnounced'
  BY <1>1 DEF StreamInv, StaleIsAnnounced, LostIsAnnounced, StreamUnchanged
<1>4. TailMatches'
  BY DEF StreamInv, TailMatches, StreamUnchanged
<1>5. PlayingHasStarted'
  BY DEF StreamInv, PlayingHasStarted, GainIsCurrent, StreamUnchanged
<1>6. WholeBlocks'
  BY <1>1 DEF StreamInv, WholeBlocks, StreamUnchanged
<1> QED
  BY <1>2, <1>3, <1>4, <1>5, <1>6 DEF StreamInv

\* A step of the monitor that starts a new generation leaves no block in flight and
\* no callback that could mistake itself for current.
LEMMA BumpIsNoticed ==
  ASSUME generation' \notin Compared, UNCHANGED captured, callback' = callback \/ audio' # "playing",
         InFlight' => InFlight, audio' = "playing" => audio = "playing"
  PROVE  /\ InFlight' => ~Current'
         /\ audio' = "playing" => ~GainIsCurrent'
<1>1. ASSUME InFlight' PROVE ~Current'
  <2>1. captured.generation \in Compared
    BY <1>1 DEF InFlight, Compared
  <2> QED
    BY <2>1 DEF Current
<1>2. ASSUME audio' = "playing" PROVE ~GainIsCurrent'
  <2>1. callback.generation \in Compared /\ callback' = callback
    BY <1>2 DEF Compared
  <2> QED
    BY <2>1 DEF GainIsCurrent
<1> QED
  BY <1>1, <1>2

\* A notification wakes a blocked thread, and no block is in flight by that.
LEMMA NotifyKeepsFlight ==
  ASSUME thread' = notify_one
  PROVE  (InFlight' <=> InFlight) /\ (thread' = "convert" => thread = "convert")
BY DEF notify_one, InFlight

\* A reset keeps StreamInv, for the new generation differs from those compared.
LEMMA ResetStreamInv ==
  ASSUME TypeOK, StreamInv, NEW o \in Options, reset(o)
  PROVE  StreamInv'
<1>1. /\ generation' \notin Compared
      /\ UNCHANGED <<captured, sample_rate, channels, tail, audio, callback, stopping>>
      /\ thread' = notify_one
      /\ discontinuity' = TRUE
      /\ output' = 0
      /\ playback_started' = FALSE
      /\ active_chunk_duration_ms' = o.initial
      /\ startup_chunk_duration_ms' = o.initial
  BY DEF reset, formatVars, callerVars
<1>2. /\ InFlight' => ~Current'
      /\ audio' = "playing" => ~GainIsCurrent'
  BY <1>1, BumpIsNoticed, NotifyKeepsFlight
<1>3. FlightMatches' /\ StaleIsAnnounced'
  BY <1>1, <1>2 DEF FlightMatches, StaleIsAnnounced
<1>4. LostIsAnnounced'
  BY <1>1, <1>2 DEF LostIsAnnounced, InFlight
<1>5. TailMatches' /\ PlayingHasStarted'
  BY <1>1, <1>2 DEF TailMatches, PlayingHasStarted
<1>6. WholeBlocks'
  <2>1. o.initial \in Nat
    BY WorkerAssumption
  <2> QED
    BY <1>1, <2>1 DEF WholeBlocks
<1> QED
  BY <1>3, <1>4, <1>5, <1>6 DEF StreamInv

\* A submit keeps StreamInv: a new format or an overflow makes a new generation.
LEMMA SubmitStreamInv ==
  ASSUME TypeOK, StreamInv, NEW fmt \in Formats, NEW frames \in Callbacks, submit(fmt, frames)
  PROVE  StreamInv'
<1> DEFINE reformatted == fmt.rate # sample_rate \/ fmt.channels # channels
           hop         == conversion_frame_count(fmt.rate, active_chunk_duration_ms)
           appended    == (IF reformatted THEN 0 ELSE input) + frames
           bumps       == GenerationBumps(reformatted, DiscardedFrames(fmt.rate, hop, appended))
<1>1. /\ bumps > 0 => Later(bumps) \notin Compared
      /\ generation' = IF bumps > 0 THEN Later(bumps) ELSE generation
      /\ output' = IF reformatted THEN 0 ELSE output
      /\ playback_started' = (playback_started /\ ~reformatted)
      /\ discontinuity' = (discontinuity \/ bumps > 0)
      /\ tail_of' = IF reformatted THEN Orphaned(tail_of) ELSE tail_of
      /\ sample_rate' = fmt.rate
      /\ channels' = fmt.channels
      /\ thread' = notify_one
      /\ audio' = "submitted"
      /\ UNCHANGED <<active_chunk_duration_ms, startup_chunk_duration_ms, stopping, captured, tail>>
  BY DEF submit, settingVars
<1>2. reformatted => bumps > 0
  BY DEF GenerationBumps
<1>3. (InFlight' <=> InFlight) /\ (thread' = "convert" => thread = "convert")
  BY <1>1, NotifyKeepsFlight
<1> HIDE DEF bumps
<1>4. CASE bumps > 0
  <2>1. InFlight' => ~Current'
    BY <1>1, <1>3, <1>4, BumpIsNoticed
  <2>2. FlightMatches' /\ StaleIsAnnounced'
    BY <1>1, <1>4, <2>1 DEF FlightMatches, StaleIsAnnounced
  <2>3. LostIsAnnounced'
    BY <1>1, <1>4, <2>1 DEF LostIsAnnounced, InFlight
  <2>4. TailMatches' /\ PlayingHasStarted'
    BY <1>1, <1>4 DEF TailMatches, PlayingHasStarted
  <2>5. WholeBlocks'
    <3>1. CASE reformatted
      BY <1>1, <3>1 DEF StreamInv, WholeBlocks
    <3>2. CASE ~reformatted
      BY <1>1, <3>2 DEF StreamInv, WholeBlocks, StartupHop
    <3> QED
      BY <3>1, <3>2
  <2> QED
    BY <2>2, <2>3, <2>4, <2>5 DEF StreamInv
<1>5. CASE ~(bumps > 0)
  <2>1. ~reformatted
    BY <1>2, <1>5
  <2>2. StreamUnchanged
    <3>1. /\ generation' = generation
          /\ output' = output
          /\ tail_of' = tail_of
          /\ sample_rate' = sample_rate
          /\ channels' = channels
      BY <1>1, <1>5, <2>1
    <3>2. discontinuity' = discontinuity /\ playback_started' = playback_started
      BY <1>1, <1>5, <2>1 DEF TypeOK
    <3> QED
      BY <1>1, <3>1, <3>2 DEF StreamUnchanged
  <2> QED
    BY <1>1, <1>3, <2>2, StreamFrame
<1> QED
  BY <1>4, <1>5

\* A receive keeps StreamInv: it takes output only, or ends playback.
LEMMA ReceiveStreamInv ==
  ASSUME TypeOK, StreamInv, ReceiveNothing \/ receive \/ ReceiveDone
  PROVE  StreamInv'
<1>1. CASE ReceiveNothing
  <2>1. /\ UNCHANGED <<output, generation, sample_rate, channels, active_chunk_duration_ms,
                       startup_chunk_duration_ms, stopping, discontinuity, captured, tail,
                       tail_of, thread>>
        /\ audio' = "idle"
    BY <1>1 DEF ReceiveNothing, settingVars, formatVars, flowVars, threadVars
  <2>2. playback_started => playback_started'
    BY <1>1 DEF ReceiveNothing
  <2>3. Current' = Current /\ Hop' = Hop /\ StartupHop' = StartupHop /\ InFlight' = InFlight
    BY <2>1 DEF Current, Hop, StartupHop, InFlight
  <2>4. FlightMatches' /\ StaleIsAnnounced' /\ LostIsAnnounced' /\ TailMatches'
    BY <2>1, <2>3 DEF StreamInv, FlightMatches, StaleIsAnnounced, LostIsAnnounced, TailMatches
  <2>5. PlayingHasStarted' /\ WholeBlocks'
    BY <2>1, <2>2, <2>3 DEF StreamInv, PlayingHasStarted, WholeBlocks
  <2> QED
    BY <2>4, <2>5 DEF StreamInv
<1>2. CASE receive
  <2>1. /\ UNCHANGED <<generation, sample_rate, channels, active_chunk_duration_ms,
                       startup_chunk_duration_ms, stopping, discontinuity, captured, tail,
                       tail_of, thread>>
        /\ output' = output - callback.frames * channels
        /\ playback_started' = TRUE
    BY <1>2 DEF receive, settingVars, formatVars, threadVars
  <2>2. Current' = Current /\ Hop' = Hop /\ StartupHop' = StartupHop /\ InFlight' = InFlight
    BY <2>1 DEF Current, Hop, StartupHop, InFlight
  <2>3. output' \in Int /\ output' <= output
    <3>1. callback.frames * channels \in Nat
      BY ProductIsNat DEF TypeOK, Playbacks
    <3> QED
      BY <2>1, <3>1 DEF TypeOK
  <2>4. FlightMatches'
    <3>1. captured.hop * captured.channels \in Nat
      BY ProductIsNat DEF TypeOK, Captures
    <3>2. SUFFICES ASSUME InFlight, Current
                   PROVE  /\ captured.rate = sample_rate
                          /\ captured.channels = channels
                          /\ captured.hop = Hop
                          /\ output' <= captured.hop * captured.channels
      BY <2>1, <2>2 DEF FlightMatches
    <3>3. /\ captured.rate = sample_rate
          /\ captured.channels = channels
          /\ captured.hop = Hop
          /\ output <= captured.hop * captured.channels
      BY <3>2 DEF StreamInv, FlightMatches
    <3>4. output' <= captured.hop * captured.channels
      BY <2>3, <3>1, <3>3 DEF TypeOK
    <3> QED
      BY <3>3, <3>4
  <2>5. StaleIsAnnounced' /\ LostIsAnnounced' /\ TailMatches'
    BY <2>1, <2>2 DEF StreamInv, StaleIsAnnounced, LostIsAnnounced, TailMatches
  <2>6. PlayingHasStarted' /\ WholeBlocks'
    BY <2>1, <2>2 DEF StreamInv, PlayingHasStarted, WholeBlocks
  <2> QED
    BY <2>4, <2>5, <2>6 DEF StreamInv
<1>3. CASE ReceiveDone
  <2>1. (InFlight' <=> InFlight) /\ (thread' = "convert" => thread = "convert")
    BY <1>3, NotifyKeepsFlight DEF ReceiveDone
  <2>2. StreamUnchanged /\ audio' = "idle"
    BY <1>3 DEF ReceiveDone, StreamUnchanged, settingVars, formatVars, flowVars
  <2> QED
    BY <2>1, <2>2, StreamFrame
<1> QED
  BY <1>1, <1>2, <1>3

\* A capture establishes what FlightMatches says of the block in flight.
LEMMA CaptureStreamInv ==
  ASSUME TypeOK, StreamInv, Capture
  PROVE  StreamInv'
<1>1. /\ captured'.rate = sample_rate
      /\ captured'.channels = channels
      /\ captured'.hop = Hop
      /\ captured'.generation = generation
      /\ UNCHANGED <<output, generation, sample_rate, channels, active_chunk_duration_ms,
                     startup_chunk_duration_ms, stopping, playback_started, audio, callback>>
      /\ discontinuity' = FALSE
      /\ tail' = IF AssemblerIsReset THEN 0 ELSE tail
      /\ tail_of' = IF AssemblerIsReset THEN "none" ELSE tail_of
      /\ OutputRoom
      /\ ~stopping
  BY DEF Capture, WorkReady, settingVars, formatVars, playVars, callerVars
<1>2. Current' /\ Hop' = Hop /\ StartupHop' = StartupHop
  BY <1>1 DEF Current, Hop, StartupHop
<1>3. FlightMatches' /\ StaleIsAnnounced'
  BY <1>1, <1>2 DEF FlightMatches, StaleIsAnnounced, OutputRoom
<1>4. tail_of' # "lost"
  BY <1>1 DEF StreamInv, LostIsAnnounced, AssemblerIsReset
<1>5. LostIsAnnounced'
  BY <1>4 DEF LostIsAnnounced
<1>6. TailMatches'
  BY <1>1 DEF StreamInv, TailMatches, AssemblerIsReset
<1>7. PlayingHasStarted' /\ WholeBlocks'
  BY <1>1, <1>2 DEF StreamInv, PlayingHasStarted, GainIsCurrent, WholeBlocks
<1> QED
  BY <1>3, <1>5, <1>6, <1>7 DEF StreamInv

\* An answer, or a failure, leaves a tail of the captured generation or none.
LEMMA StitchStreamInv ==
  ASSUME TypeOK, StreamInv, Stitch
  PROVE  StreamInv'
<1>1. /\ UNCHANGED <<output, generation, sample_rate, channels, active_chunk_duration_ms,
                     startup_chunk_duration_ms, stopping, discontinuity, playback_started,
                     captured, audio, callback>>
      /\ thread = "convert"
      /\ thread' = "commit"
      /\ tail' = overlap_frames(captured.rate) * captured.channels
      /\ tail_of' = "pending"
  BY DEF Stitch, settingVars, formatVars, flowVars, playVars, callerVars
<1>2. InFlight /\ InFlight' /\ Current' = Current /\ Hop' = Hop /\ StartupHop' = StartupHop
  BY <1>1 DEF InFlight, Current, Hop, StartupHop
<1>3. FlightMatches' /\ StaleIsAnnounced' /\ LostIsAnnounced'
  BY <1>1, <1>2 DEF StreamInv, FlightMatches, StaleIsAnnounced, LostIsAnnounced
<1>4. TailMatches'
  <2> SUFFICES ASSUME ~discontinuity
               PROVE  tail' = overlap_frames(sample_rate) * channels
    BY <1>1 DEF TailMatches
  <2>1. captured.rate = sample_rate /\ captured.channels = channels
    BY <1>2 DEF StreamInv, StaleIsAnnounced, FlightMatches
  <2> QED
    BY <1>1, <2>1
<1>5. PlayingHasStarted' /\ WholeBlocks'
  BY <1>1, <1>2 DEF StreamInv, PlayingHasStarted, GainIsCurrent, WholeBlocks
<1> QED
  BY <1>3, <1>4, <1>5 DEF StreamInv

\* The parts of a step after which no block is in flight.
LEMMA LandFrame ==
  ASSUME StreamInv, ~InFlight', TailMatches', WholeBlocks',
         UNCHANGED <<generation, playback_started, audio, callback>>,
         tail_of' = "lost" => discontinuity' \/ stopping'
  PROVE  StreamInv'
<1>1. FlightMatches' /\ StaleIsAnnounced'
  BY DEF FlightMatches, StaleIsAnnounced
<1>2. LostIsAnnounced'
  BY DEF LostIsAnnounced, InFlight
<1>3. PlayingHasStarted'
  BY DEF StreamInv, PlayingHasStarted, GainIsCurrent
<1> QED
  BY <1>1, <1>2, <1>3 DEF StreamInv

\* The steps that give the block in flight up.
LEMMA GiveUpStreamInv ==
  ASSUME TypeOK, StreamInv, SettingsTooLong \/ ConversionFails \/ DropBlock \/ KeepPace
  PROVE  StreamInv'
<1>1. /\ UNCHANGED <<output, generation, sample_rate, channels, active_chunk_duration_ms,
                     startup_chunk_duration_ms, stopping, discontinuity, playback_started,
                     audio, callback>>
      /\ thread' = "ready"
  BY DEF SettingsTooLong, ConversionFails, DropBlock, KeepPace, settingVars, formatVars, flowVars,
         playVars, callerVars
<1>2. tail' \in {0, tail}
  BY DEF SettingsTooLong, ConversionFails, DropBlock, KeepPace
<1>3. tail_of' = "lost" => discontinuity \/ stopping
  <2>1. CASE DropBlock
    <3>1. InFlight /\ CaptureIsStale
      BY <2>1 DEF DropBlock, InFlight
    <3>2. Current => stopping
      BY <3>1 DEF CaptureIsStale, Current, StreamInv, FlightMatches
    <3> QED
      BY <3>1, <3>2 DEF StreamInv, StaleIsAnnounced
  <2>2. CASE SettingsTooLong \/ ConversionFails \/ KeepPace
    BY <2>2 DEF SettingsTooLong, ConversionFails, KeepPace, StreamInv, LostIsAnnounced
  <2> QED
    BY <2>1, <2>2
<1>4. ~InFlight'
  BY <1>1 DEF InFlight
<1>5. TailMatches'
  BY <1>1, <1>2 DEF StreamInv, TailMatches
<1>6. WholeBlocks'
  BY <1>1 DEF StreamInv, WholeBlocks, StartupHop
<1> QED
  BY <1>1, <1>3, <1>4, <1>5, <1>6, LandFrame

\* A block that is still wanted joins an output that holds at most one like it.
LEMMA AppendFits ==
  ASSUME TypeOK, StreamInv, AppendBlock
  PROVE  /\ captured.hop = Hop
         /\ output <= Hop * channels
         /\ output' = output + Hop * channels
<1>1. /\ captured.hop = Hop
      /\ captured.channels = channels
      /\ output <= captured.hop * captured.channels
  BY DEF AppendBlock, CaptureIsStale, StreamInv, FlightMatches, InFlight, Current
<1>2. output' = Appended(output, Hop * channels, 4 * Hop * channels)
  BY <1>1 DEF AppendBlock
<1>3. Hop * channels \in Nat /\ 4 * Hop * channels = 4 * (Hop * channels)
  BY HopsAreNat, ProductIsNat DEF TypeOK
<1> DEFINE block == Hop * channels
<1>4. output \in Nat /\ block \in Nat /\ output <= block
  BY <1>1, <1>3 DEF TypeOK
<1>5. output' = Appended(output, block, 4 * block)
  BY <1>2, <1>3
<1> HIDE DEF block
<1>6. output' = output + block
  BY <1>4, <1>5 DEF Appended
<1> QED
  BY <1>1, <1>6 DEF block

\* An append, or the refusal of one, keeps StreamInv.
LEMMA AppendStreamInv ==
  ASSUME TypeOK, StreamInv, AppendBlock
  PROVE  StreamInv'
<1>1. /\ UNCHANGED <<generation, sample_rate, channels, active_chunk_duration_ms,
                     startup_chunk_duration_ms, stopping, discontinuity, playback_started,
                     tail, audio, callback>>
      /\ thread' = "pace"
      /\ tail_of' = "last"
  BY DEF AppendBlock, settingVars, formatVars, playVars, callerVars
<1>2. ~InFlight'
  BY <1>1 DEF InFlight
<1>3. TailMatches'
  BY <1>1 DEF StreamInv, TailMatches
<1>4. WholeBlocks'
  <2>1. StartupHop * channels <= Hop * channels
    <3>1. StartupHop <= Hop
      BY HopMonotone DEF StreamInv, WholeBlocks, TypeOK, StartupHop, Hop
    <3> QED
      BY <3>1, HopsAreNat, ProductMonotone DEF TypeOK
  <2>2. StartupHop * channels \in Nat /\ Hop * channels \in Nat
    BY HopsAreNat, ProductIsNat DEF TypeOK
  <2>3. output' >= StartupHop * channels
    BY <2>1, <2>2, AppendFits DEF TypeOK
  <2>4. StartupHop' = StartupHop
    BY <1>1 DEF StartupHop
  <2> QED
    BY <1>1, <2>3, <2>4 DEF StreamInv, WholeBlocks
<1> QED
  BY <1>1, <1>2, <1>3, <1>4, LandFrame

\* A growth keeps StreamInv, as no block is in flight then.
LEMMA GrowStreamInv ==
  ASSUME TypeOK, StreamInv, GrowBlock
  PROVE  StreamInv' /\ active_chunk_duration_ms <= active_chunk_duration_ms'
<1>1. /\ UNCHANGED <<output, generation, sample_rate, channels, startup_chunk_duration_ms,
                     stopping, discontinuity, playback_started, tail, tail_of, audio, callback>>
      /\ thread' = "ready"
  BY DEF GrowBlock, settingVars, formatVars, flowVars, playVars, callerVars
<1>2. active_chunk_duration_ms <= active_chunk_duration_ms'
  BY DEF GrowBlock, kGrowthMs, TypeOK
<1>3. ~InFlight' /\ (tail_of' = "lost" => discontinuity' \/ stopping')
  BY <1>1 DEF InFlight, StreamInv, LostIsAnnounced
<1>4. TailMatches'
  BY <1>1 DEF StreamInv, TailMatches
<1>5. WholeBlocks'
  <2>1. startup_chunk_duration_ms <= active_chunk_duration_ms'
    BY <1>2 DEF GrowBlock, kGrowthMs, TypeOK, StreamInv, WholeBlocks
  <2> QED
    BY <1>1, <2>1 DEF StreamInv, WholeBlocks, StartupHop
<1> QED
  BY <1>1, <1>2, <1>3, <1>4, <1>5, LandFrame

\* Every step of the conversion thread keeps StreamInv.
LEMMA ConversionStreamInv ==
  ASSUME TypeOK, StreamInv, ConversionThread \/ SpuriousWakeup
  PROVE  StreamInv'
<1>1. CASE ThreadStops \/ ThreadBlocks \/ SpuriousWakeup
  <2>1. StreamUnchanged /\ UNCHANGED <<audio, callback>> /\ thread' \in {"ready", "blocked", "done"}
    BY <1>1 DEF ThreadStops, ThreadBlocks, SpuriousWakeup, StreamUnchanged, settingVars,
                formatVars, flowVars, playVars, callerVars
  <2> QED
    BY <2>1, StreamFrame DEF InFlight
<1>2. CASE Capture
  BY <1>2, CaptureStreamInv
<1>3. CASE SettingsTooLong \/ ConversionFails \/ DropBlock \/ KeepPace
  BY <1>3, GiveUpStreamInv
<1>4. CASE Stitch
  BY <1>4, StitchStreamInv
<1>5. CASE AppendBlock
  BY <1>5, AppendStreamInv
<1>6. CASE GrowBlock
  BY <1>6, GrowStreamInv
<1> QED
  BY <1>1, <1>2, <1>3, <1>4, <1>5, <1>6 DEF ConversionThread

\* Stopping keeps StreamInv.
LEMMA StoppingStreamInv ==
  ASSUME TypeOK, StreamInv, StoppingThread
  PROVE  StreamInv'
<1>1. CASE StopFlag
  <2>1. /\ UNCHANGED <<output, generation, sample_rate, channels, active_chunk_duration_ms,
                       startup_chunk_duration_ms, discontinuity, playback_started, captured,
                       tail, tail_of, thread, audio, callback>>
        /\ stopping' = TRUE
    BY <1>1 DEF StopFlag, settingVars, formatVars, flowVars, playVars, threadVars
  <2>2. Current' = Current /\ InFlight' = InFlight /\ Hop' = Hop /\ StartupHop' = StartupHop
    BY <2>1 DEF Current, InFlight, Hop, StartupHop
  <2>3. FlightMatches' /\ StaleIsAnnounced' /\ LostIsAnnounced'
    BY <2>1, <2>2 DEF StreamInv, FlightMatches, StaleIsAnnounced, LostIsAnnounced
  <2>4. TailMatches' /\ PlayingHasStarted' /\ WholeBlocks'
    BY <2>1, <2>2 DEF StreamInv, TailMatches, PlayingHasStarted, GainIsCurrent, WholeBlocks
  <2> QED
    BY <2>3, <2>4 DEF StreamInv
<1>2. CASE StopNotify
  <2>1. StreamUnchanged /\ UNCHANGED <<audio, callback>> /\ thread' = notify_one
    BY <1>2 DEF StopNotify, StreamUnchanged, settingVars, formatVars, flowVars, playVars
  <2> QED
    BY <2>1, NotifyKeepsFlight, StreamFrame
<1>3. CASE StopJoin
  <2>1. StreamUnchanged /\ UNCHANGED <<audio, callback, thread>>
    BY <1>3 DEF StopJoin, StreamUnchanged, settingVars, formatVars, flowVars, playVars, threadVars
  <2> QED
    BY <2>1, StreamFrame DEF InFlight
<1> QED
  BY <1>1, <1>2, <1>3 DEF StoppingThread

\* Every step of the audio thread keeps StreamInv.
LEMMA AudioStreamInv ==
  ASSUME TypeOK, StreamInv, AudioThread
  PROVE  StreamInv'
<1>1. ASSUME NEW fmt \in Formats, NEW frames \in Callbacks, submit(fmt, frames)
      PROVE  StreamInv'
  BY <1>1, SubmitStreamInv
<1>2. ASSUME NEW fmt \in Formats, NEW frames \in Callbacks, SubmitIgnored(fmt, frames)
      PROVE  StreamInv'
  <2>1. StreamUnchanged /\ thread' = thread /\ audio' = "submitted"
    BY <1>2 DEF SubmitIgnored, StreamUnchanged, settingVars, formatVars, flowVars, playVars, threadVars
  <2> QED
    BY <2>1, StreamFrame DEF InFlight
<1> QED
  BY <1>1, <1>2, ReceiveStreamInv DEF AudioThread

\* Every step keeps StreamInv.
LEMMA StepStreamInv ==
  ASSUME TypeOK, StreamInv, [Next]_vars
  PROVE  StreamInv'
<1>1. CASE UNCHANGED vars
  <2>1. StreamUnchanged /\ UNCHANGED <<audio, callback, thread>>
    BY <1>1 DEF vars, StreamUnchanged, settingVars, formatVars, flowVars, playVars, threadVars,
                callerVars
  <2> QED
    BY <2>1, StreamFrame DEF InFlight
<1>2. CASE \E o \in Options : reset(o)
  BY <1>2, ResetStreamInv
<1> QED
  BY <1>1, <1>2, AudioStreamInv, ConversionStreamInv, StoppingStreamInv DEF Next, Stopped

\* StreamInv holds of a new worker.
LEMMA InitStreamInv == Init => StreamInv
<1> SUFFICES ASSUME Init PROVE StreamInv
  OBVIOUS
<1>1. FlightMatches /\ StaleIsAnnounced /\ LostIsAnnounced
  BY DEF Init, FlightMatches, StaleIsAnnounced, LostIsAnnounced, InFlight
<1>2. TailMatches /\ PlayingHasStarted /\ WholeBlocks
  BY DEF Init, TailMatches, PlayingHasStarted, WholeBlocks
<1> QED
  BY <1>1, <1>2 DEF StreamInv

\* Between its capture and its commit a block is either still what the monitor wants
\* and has room for, or a discontinuity is announced; whatever the others do meanwhile.
THEOREM StreamIsConsistent == Spec => []StreamInv
<1>1. TypeOK /\ StreamInv /\ [Next]_vars => StreamInv'
  BY StepStreamInv
<1> QED
  BY TypeCorrect, InitStreamInv, <1>1, PTL DEF Spec
-----------------------------------------------------------------------------
\* The steps that touch no queue, no format, no block size and no block in flight.
QuietStep ==
  /\ UNCHANGED <<input, output, sample_rate, channels, active_chunk_duration_ms,
                 startup_chunk_duration_ms, generation, discontinuity, gap,
                 playback_started, playback_gain>>
  /\ InFlight' => thread' = thread /\ UNCHANGED <<captured, tail, partner>>

\* A step is one of those that change the flow, or it leaves the flow alone.
LEMMA StepsAreQuiet ==
  ASSUME [Next]_vars
  PROVE  \/ \E o \in Options : reset(o)
         \/ \E fmt \in Formats, frames \in Callbacks : submit(fmt, frames)
         \/ ReceiveNothing \/ receive \/ ReceiveDone
         \/ Capture \/ Stitch \/ AppendBlock \/ GrowBlock
         \/ QuietStep
<1>1. ASSUME NEW fmt \in Formats, NEW frames \in Callbacks, SubmitIgnored(fmt, frames)
      PROVE  QuietStep
  BY <1>1 DEF SubmitIgnored, QuietStep, settingVars, formatVars, flowVars, playVars, threadVars
<1>2. ASSUME \/ ThreadStops \/ ThreadBlocks \/ SpuriousWakeup \/ SettingsTooLong
             \/ ConversionFails \/ DropBlock \/ KeepPace
      PROVE  QuietStep
  BY <1>2 DEF ThreadStops, ThreadBlocks, SpuriousWakeup, SettingsTooLong, ConversionFails,
              DropBlock, KeepPace, QuietStep, InFlight, settingVars, formatVars, flowVars, playVars
<1>3. CASE StopNotify
  BY <1>3 DEF StopNotify, notify_one, QuietStep, InFlight, settingVars, formatVars, flowVars, playVars
<1>4. CASE StopFlag \/ StopJoin
  BY <1>4 DEF StopFlag, StopJoin, QuietStep, settingVars, formatVars, flowVars, playVars, threadVars
<1>5. CASE UNCHANGED vars
  BY <1>5 DEF vars, QuietStep, settingVars, formatVars, flowVars, playVars, threadVars
<1> QED
  BY <1>1, <1>2, <1>3, <1>4, <1>5 DEF Next, AudioThread, ConversionThread, StoppingThread, Stopped

\* Audio lost between the assembler's history and the next window is announced, so
\* the thread never converts a window that joins audio which was never adjacent.
THEOREM HistoryStaysContiguous == Spec => []HistoryContiguous
<1>1. Init => HistoryContiguous
  BY DEF Init, HistoryContiguous
<1>2. HistoryContiguous /\ [Next]_vars => HistoryContiguous'
  <2> SUFFICES ASSUME HistoryContiguous, [Next]_vars PROVE HistoryContiguous'
    OBVIOUS
  <2>1. ASSUME NEW o \in Options, reset(o) PROVE HistoryContiguous'
    BY <2>1 DEF reset, HistoryContiguous
  <2>2. ASSUME NEW fmt \in Formats, NEW frames \in Callbacks, submit(fmt, frames)
        PROVE  HistoryContiguous'
    <3> DEFINE reformatted == fmt.rate # sample_rate \/ fmt.channels # channels
               hop         == conversion_frame_count(fmt.rate, active_chunk_duration_ms)
               appended    == (IF reformatted THEN 0 ELSE input) + frames
               discarded   == DiscardedFrames(fmt.rate, hop, appended)
               bumps       == GenerationBumps(reformatted, discarded)
    <3>1. /\ discontinuity' = (discontinuity \/ bumps > 0)
          /\ gap' = (gap \/ reformatted \/ discarded > 0)
      BY <2>2 DEF submit
    <3>2. reformatted \/ discarded > 0 => bumps > 0
      BY DEF GenerationBumps
    <3> HIDE DEF bumps, reformatted, discarded
    <3> QED
      BY <3>1, <3>2 DEF HistoryContiguous
  <2>3. CASE Capture
    BY <2>3 DEF Capture, AssemblerIsReset, HistoryContiguous
  <2>4. ASSUME ReceiveNothing \/ receive \/ ReceiveDone \/ Stitch \/ AppendBlock \/ GrowBlock \/ QuietStep
        PROVE  HistoryContiguous'
    BY <2>4 DEF ReceiveNothing, receive, ReceiveDone, Stitch, AppendBlock, GrowBlock, QuietStep,
                HistoryContiguous, flowVars, threadVars
  <2> QED
    BY <2>1, <2>2, <2>3, <2>4, StepsAreQuiet
<1> QED
  BY <1>1, <1>2, PTL DEF Spec

\* A tail is cross-faded into the block that follows the one it ends, or not at all:
\* what a dropped or cleared block leaves behind is never heard.
THEOREM SplicesAreSeamless == Spec => []SeamlessSplice
<1>1. Init => SeamlessSplice
  BY DEF Init, SeamlessSplice
<1>2. TypeOK /\ StreamInv /\ SeamlessSplice /\ [Next]_vars => SeamlessSplice'
  <2> SUFFICES ASSUME TypeOK, StreamInv, SeamlessSplice, [Next]_vars PROVE SeamlessSplice'
    OBVIOUS
  <2>1. ASSUME NEW o \in Options, reset(o) PROVE SeamlessSplice'
    <3>1. /\ generation' \notin Compared /\ UNCHANGED <<captured, audio, callback>>
          /\ thread' = notify_one
      BY <2>1 DEF reset, callerVars
    <3> QED
      BY <3>1, NotifyKeepsFlight, BumpIsNoticed DEF SeamlessSplice, InFlight, Current
  <2>2. ASSUME NEW fmt \in Formats, NEW frames \in Callbacks, submit(fmt, frames)
        PROVE  SeamlessSplice'
    <3> DEFINE reformatted == fmt.rate # sample_rate \/ fmt.channels # channels
               hop         == conversion_frame_count(fmt.rate, active_chunk_duration_ms)
               appended    == (IF reformatted THEN 0 ELSE input) + frames
               bumps       == GenerationBumps(reformatted, DiscardedFrames(fmt.rate, hop, appended))
    <3>1. /\ bumps > 0 => Later(bumps) \notin Compared
          /\ generation' = IF bumps > 0 THEN Later(bumps) ELSE generation
          /\ partner' = IF reformatted THEN Orphaned(partner) ELSE partner
          /\ thread' = notify_one
          /\ audio' = "submitted"
          /\ UNCHANGED captured
      BY <2>2 DEF submit
    <3>2. reformatted => bumps > 0
      BY DEF GenerationBumps
    <3> HIDE DEF bumps, reformatted
    <3>3. CASE bumps > 0
      BY <3>1, <3>3, NotifyKeepsFlight, BumpIsNoticed DEF SeamlessSplice, InFlight, Current
    <3>4. CASE ~(bumps > 0)
      BY <3>1, <3>2, <3>4 DEF SeamlessSplice, notify_one
    <3> QED
      BY <3>3, <3>4
  <2>3. CASE Stitch
    BY <2>3 DEF Stitch, flowVars, StreamInv, LostIsAnnounced, SeamlessSplice, Current
  <2>4. CASE ReceiveDone
    BY <2>4 DEF ReceiveDone, notify_one, flowVars, SeamlessSplice
  <2>5. ASSUME ReceiveNothing \/ receive PROVE SeamlessSplice'
    BY <2>5 DEF ReceiveNothing, receive, flowVars, threadVars, SeamlessSplice
  <2>6. ASSUME Capture \/ AppendBlock \/ GrowBlock PROVE SeamlessSplice'
    BY <2>6 DEF Capture, AppendBlock, GrowBlock, SeamlessSplice
  <2>7. CASE QuietStep
    BY <2>7 DEF QuietStep, InFlight, SeamlessSplice
  <2> QED
    BY <2>1, <2>2, <2>3, <2>4, <2>5, <2>6, <2>7, StepsAreQuiet
<1> QED
  BY TypeCorrect, StreamIsConsistent, <1>1, <1>2, PTL DEF Spec
-----------------------------------------------------------------------------
\* Twice a product of natural numbers, however it is parenthesised.
LEMMA DoubleIsNat ==
  ASSUME NEW a \in Nat, NEW b \in Nat
  PROVE  2 * a * b \in Nat /\ 2 * a * b = 2 * (a * b)
<1>1. a * b \in Nat /\ 2 * a * b = 2 * (a * b)
  BY ProductIsNat
<1> QED
  BY <1>1

\* Multiplication is monotone in its left operand.
LEMMA ScaledMonotone ==
  ASSUME NEW a \in Nat, NEW b \in Nat, NEW c \in Nat, b <= c
  PROVE  b * a <= c * a
  OBVIOUS

\* When a block grows, so do its hops, but the startup buffer stays.
LEMMA BlocksGrow ==
  ASSUME TypeOK, StreamInv, GrowBlock
  PROVE  /\ Hop \in Nat /\ Hop' \in Nat /\ Hop <= Hop'
         /\ Hop * channels <= Hop' * channels
         /\ StartupHop' = StartupHop
         /\ UNCHANGED <<input, output, sample_rate, channels, playback_started>>
<1>1. UNCHANGED <<input, output, sample_rate, channels, playback_started, startup_chunk_duration_ms>>
  BY DEF GrowBlock, formatVars, flowVars, playVars
<1>2. /\ active_chunk_duration_ms' \in Nat
      /\ active_chunk_duration_ms <= active_chunk_duration_ms'
  BY GrowStreamInv DEF GrowBlock, kGrowthMs, TypeOK
<1>3. Hop \in Nat /\ Hop' \in Nat /\ Hop <= Hop'
  BY <1>1, <1>2, HopIsNat, HopMonotone DEF TypeOK, Hop
<1>4. Hop * channels <= Hop' * channels
  <2>1. channels \in Nat
    BY DEF TypeOK
  <2> QED
    BY <1>3, <2>1, ScaledMonotone
<1> QED
  BY <1>1, <1>3, <1>4 DEF StartupHop

\* The thread looks at the room in output when it captures and appends much later; what
\* it appends keeps output within two of the hops that are current then.
THEOREM OutputIsBounded == Spec => []OutputBounded
<1>1. Init => OutputBounded
  <2>1. ASSUME Init PROVE OutputBounded
    <3>1. Hop \in Nat /\ output = 0 /\ channels = 0
      BY <2>1, InitTypeOK, HopsAreNat DEF Init
    <3> QED
      BY <3>1 DEF OutputBounded
  <2> QED
    BY <2>1
<1>2. TypeOK /\ StreamInv /\ OutputBounded /\ [Next]_vars => OutputBounded'
  <2> SUFFICES ASSUME TypeOK, StreamInv, OutputBounded, [Next]_vars PROVE OutputBounded'
    OBVIOUS
  <2>0. Hop * channels \in Nat /\ output \in Nat /\ 2 * Hop * channels = 2 * (Hop * channels)
    BY HopsAreNat, ProductIsNat DEF TypeOK
  <2> DEFINE room == Hop * channels
  <2>b. OutputBounded <=> output <= 2 * room
    BY <2>0 DEF OutputBounded
  <2>1. ASSUME output' = 0, TypeOK' PROVE OutputBounded'
    <3>1. Hop' \in Nat /\ channels' \in Nat
      <4>1. channels' \in Nat /\ sample_rate' \in Nat /\ active_chunk_duration_ms' \in Nat
        BY <2>1 DEF TypeOK
      <4> QED
        BY <4>1, HopIsNat DEF Hop
    <3>2. 2 * Hop' * channels' \in Nat
      BY <3>1, DoubleIsNat
    <3> QED
      BY <2>1, <3>2 DEF OutputBounded
  <2>2. ASSUME NEW o \in Options, reset(o) PROVE OutputBounded'
    BY <2>2, <2>1, ResetTypeOK DEF reset
  <2>3. ASSUME NEW fmt \in Formats, NEW frames \in Callbacks, submit(fmt, frames)
        PROVE  OutputBounded'
    <3>1. CASE fmt.rate # sample_rate \/ fmt.channels # channels
      BY <2>3, <2>1, <3>1, SubmitTypeOK DEF submit
    <3>2. CASE ~(fmt.rate # sample_rate \/ fmt.channels # channels)
      BY <2>3, <3>2 DEF submit, OutputBounded, Hop, settingVars
    <3> QED
      BY <3>1, <3>2
  <2>4. CASE receive
    <3>1. callback.frames * channels \in Nat
      BY ProductIsNat DEF TypeOK, Playbacks
    <3>2. output' = output - callback.frames * channels /\ room' = room
      BY <2>4 DEF receive, settingVars, formatVars, Hop
    <3>3. OutputBounded' <=> output' <= 2 * room
      <4>1. Hop' = Hop /\ channels' = channels
        BY <2>4 DEF receive, settingVars, formatVars, Hop
      <4> QED
        BY <2>0, <4>1 DEF OutputBounded
    <3> HIDE DEF room
    <3> QED
      BY <2>0, <2>b, <3>1, <3>2, <3>3 DEF room
  <2>5. CASE AppendBlock
    <3>1. output <= room /\ output' = output + room
      BY <2>5, AppendFits
    <3>2. Hop' = Hop /\ channels' = channels
      BY <2>5 DEF AppendBlock, settingVars, formatVars, Hop
    <3>3. output' <= 2 * room
      <4> HIDE DEF room
      <4> QED
        BY <2>0, <3>1 DEF room
    <3> QED
      BY <2>0, <3>2, <3>3 DEF OutputBounded
  <2>6. CASE GrowBlock
    <3> DEFINE larger == Hop' * channels
    <3>1. room <= larger /\ output' = output /\ channels' = channels /\ Hop' \in Nat
      BY <2>6, BlocksGrow
    <3>2. larger \in Nat /\ 2 * Hop' * channels = 2 * larger
      BY <3>1, ProductIsNat, DoubleIsNat DEF TypeOK
    <3> HIDE DEF room, larger
    <3>3. output' <= 2 * larger
      BY <2>0, <2>b, <3>1, <3>2 DEF room
    <3> QED
      BY <3>1, <3>2, <3>3 DEF OutputBounded
  <2>7. ASSUME ReceiveNothing \/ ReceiveDone \/ Capture \/ Stitch \/ QuietStep
        PROVE  OutputBounded'
    <3>1. UNCHANGED <<output, sample_rate, channels, active_chunk_duration_ms>>
      BY <2>7 DEF ReceiveNothing, ReceiveDone, Capture, Stitch, QuietStep, settingVars,
                  formatVars, flowVars
    <3> QED
      BY <3>1 DEF OutputBounded, Hop
  <2> QED
    BY <2>2, <2>3, <2>4, <2>5, <2>6, <2>7, StepsAreQuiet
<1> QED
  BY TypeCorrect, StreamIsConsistent, <1>1, <1>2, PTL DEF Spec

\* Playback that waits for its initial output leaves the thread room to make it: never
\* does each wait for the other, whatever the two block durations have become.
THEOREM FlowNeverDeadlocks == Spec => []NoFlowDeadlock
<1>1. Init => NoFlowDeadlock
  <2>1. ASSUME Init PROVE NoFlowDeadlock
    <3>1. Hop \in Nat /\ output = 0 /\ channels = 0
      BY <2>1, InitTypeOK, HopsAreNat DEF Init
    <3> QED
      BY <3>1 DEF NoFlowDeadlock, OutputRoom
  <2> QED
    BY <2>1
<1>2. TypeOK /\ StreamInv /\ NoFlowDeadlock /\ [Next]_vars => NoFlowDeadlock'
  <2> SUFFICES ASSUME TypeOK, StreamInv, NoFlowDeadlock, [Next]_vars PROVE NoFlowDeadlock'
    OBVIOUS
  <2>0. Hop * channels \in Nat /\ StartupHop * channels \in Nat /\ output \in Nat
    BY HopsAreNat, ProductIsNat DEF TypeOK
  <2>1. ASSUME output' = 0, TypeOK' PROVE NoFlowDeadlock'
    <3>1. sample_rate' \in Nat /\ active_chunk_duration_ms' \in Nat /\ channels' \in Nat
      BY <2>1 DEF TypeOK
    <3>2. Hop' * channels' \in Nat
      BY <3>1, HopIsNat, ProductIsNat DEF Hop
    <3> QED
      BY <2>1, <3>2 DEF NoFlowDeadlock, OutputRoom
  <2>2. ASSUME NEW o \in Options, reset(o) PROVE NoFlowDeadlock'
    BY <2>2, <2>1, ResetTypeOK DEF reset
  <2>3. ASSUME NEW fmt \in Formats, NEW frames \in Callbacks, submit(fmt, frames)
        PROVE  NoFlowDeadlock'
    <3>1. CASE fmt.rate # sample_rate \/ fmt.channels # channels
      BY <2>3, <2>1, <3>1, SubmitTypeOK DEF submit
    <3>2. CASE ~(fmt.rate # sample_rate \/ fmt.channels # channels)
      BY <2>3, <3>2 DEF submit, NoFlowDeadlock, OutputRoom, StartupFilled, Hop, StartupHop, settingVars
    <3> QED
      BY <3>1, <3>2
  <2>4. CASE receive
    BY <2>4 DEF receive, NoFlowDeadlock
  <2>5. CASE ReceiveNothing
    <3>1. UNCHANGED <<output, sample_rate, channels, active_chunk_duration_ms, startup_chunk_duration_ms>>
      BY <2>5 DEF ReceiveNothing, settingVars, formatVars, flowVars
    <3>2. playback_started => playback_started'
      BY <2>5 DEF ReceiveNothing
    <3> QED
      BY <3>1, <3>2 DEF NoFlowDeadlock, OutputRoom, StartupFilled, Hop, StartupHop
  <2>6. CASE AppendBlock
    <3> DEFINE room == Hop * channels  startup == StartupHop * channels
    <3>1. /\ output <= room /\ output' = output + room
          /\ UNCHANGED <<channels, playback_started>> /\ Hop' = Hop /\ StartupHop' = StartupHop
      BY <2>6, AppendFits DEF AppendBlock, settingVars, formatVars, playVars, Hop, StartupHop
    <3>2. startup <= room
      <4>1. StartupHop <= Hop
        BY HopMonotone DEF StreamInv, WholeBlocks, TypeOK, StartupHop, Hop
      <4> QED
        BY <4>1, HopsAreNat, ProductMonotone DEF TypeOK
    <3>3. StartupHop * kInitialOutputBlocks * channels = 2 * startup
      BY HopsAreNat DEF TypeOK, kInitialOutputBlocks
    <3>4. ~playback_started => output = 0 \/ output >= startup
      BY DEF StreamInv, WholeBlocks
    <3>5. ~playback_started => output' <= room \/ output' >= 2 * startup
      <4> HIDE DEF room, startup
      <4> QED
        BY <2>0, <3>1, <3>2, <3>4 DEF room, startup
    <3> QED
      BY <3>1, <3>3, <3>5 DEF NoFlowDeadlock, OutputRoom, StartupFilled
  <2>7. CASE GrowBlock
    <3> DEFINE room == Hop * channels  larger == Hop' * channels
    <3>1. /\ room <= larger /\ UNCHANGED <<output, channels, playback_started>> /\ Hop' \in Nat
          /\ StartupHop' = StartupHop
      BY <2>7, BlocksGrow
    <3>2. larger \in Nat
      BY <3>1, ProductIsNat DEF TypeOK
    <3>3. output <= room => output <= larger
      <4> HIDE DEF room, larger
      <4> QED
        BY <2>0, <3>1, <3>2 DEF room
    <3> QED
      BY <3>1, <3>3 DEF NoFlowDeadlock, OutputRoom, StartupFilled
  <2>8. ASSUME ReceiveDone \/ Capture \/ Stitch \/ QuietStep
        PROVE  NoFlowDeadlock'
    <3>1. UNCHANGED <<output, sample_rate, channels, active_chunk_duration_ms,
                      startup_chunk_duration_ms, playback_started>>
      BY <2>8 DEF ReceiveDone, Capture, Stitch, QuietStep, settingVars, formatVars, flowVars, playVars
    <3> QED
      BY <3>1 DEF NoFlowDeadlock, OutputRoom, StartupFilled, Hop, StartupHop
  <2> QED
    BY <2>2, <2>3, <2>4, <2>5, <2>6, <2>7, <2>8, StepsAreQuiet
<1> QED
  BY TypeCorrect, StreamIsConsistent, <1>1, <1>2, PTL DEF Spec

\* submit never leaves more input than two of the current hops and the look-ahead,
\* and no other step lets the bound shrink under the audio that already waits.
THEOREM InputIsBounded == Spec => []InputBounded
<1>1. Init => InputBounded
  <2>1. ASSUME Init PROVE InputBounded
    <3>1. Hop \in Nat /\ sample_rate \in Nat /\ input = 0
      BY <2>1, InitTypeOK, HopsAreNat DEF Init, TypeOK
    <3> QED
      BY <3>1, PartsAreNat DEF InputBounded, MaximumSamples
  <2> QED
    BY <2>1
<1>2. TypeOK /\ StreamInv /\ InputBounded /\ [Next]_vars => InputBounded'
  <2> SUFFICES ASSUME TypeOK, StreamInv, InputBounded, [Next]_vars PROVE InputBounded'
    OBVIOUS
  <2>1. Hop \in Nat /\ lookahead_frames(sample_rate) \in Nat /\ input \in Nat
    BY HopsAreNat, PartsAreNat DEF TypeOK
  <2>2. ASSUME NEW o \in Options, reset(o) PROVE InputBounded'
    <3>1. sample_rate' \in Nat /\ active_chunk_duration_ms' \in Nat /\ input' = 0
      BY <2>2, ResetTypeOK DEF reset, TypeOK
    <3>2. Hop' \in Nat /\ lookahead_frames(sample_rate') \in Nat
      BY <3>1, HopIsNat, PartsAreNat DEF Hop
    <3> QED
      BY <3>1, <3>2 DEF InputBounded, MaximumSamples
  <2>3. ASSUME NEW fmt \in Formats, NEW frames \in Callbacks, submit(fmt, frames)
        PROVE  InputBounded'
    <3> DEFINE reformatted == fmt.rate # sample_rate \/ fmt.channels # channels
               hop         == conversion_frame_count(fmt.rate, active_chunk_duration_ms)
               appended    == (IF reformatted THEN 0 ELSE input) + frames
               discarded   == DiscardedFrames(fmt.rate, hop, appended)
    <3>1. /\ input' = IF discarded <= appended THEN appended - discarded ELSE 0
          /\ sample_rate' = fmt.rate
          /\ active_chunk_duration_ms' = active_chunk_duration_ms
      BY <2>3 DEF submit, settingVars
    <3>2. fmt.rate \in Nat /\ hop \in Nat /\ appended \in Nat
      <4>1. fmt.rate \in Nat /\ frames \in Nat
        BY WorkerAssumption
      <4>2. hop \in Nat
        BY <4>1, HopIsNat DEF TypeOK
      <4>3. appended \in Nat
        BY <4>1 DEF TypeOK
      <4> QED
        BY <4>1, <4>2, <4>3
    <3>3. Hop' = hop
      BY <3>1 DEF Hop
    <3> HIDE DEF hop, appended
    <3>4. /\ discarded \in Nat
          /\ appended - discarded <= MaximumSamples(fmt.rate, hop)
          /\ MaximumSamples(fmt.rate, hop) \in Nat
      <4>1. MaximumSamples(fmt.rate, hop) \in Nat
        BY <3>2, PartsAreNat DEF MaximumSamples
      <4> QED
        BY <3>2, <4>1, DiscardedBringsBack
    <3> HIDE DEF discarded
    <3>5. input' <= MaximumSamples(fmt.rate, hop)
      BY <3>1, <3>2, <3>4
    <3> QED
      BY <3>1, <3>3, <3>5 DEF InputBounded
  <2>4. CASE Capture
    <3>1. input' = input - Hop /\ UNCHANGED <<sample_rate, active_chunk_duration_ms>>
      BY <2>4 DEF Capture, settingVars, formatVars
    <3>2. Hop' = Hop /\ lookahead_frames(sample_rate') = lookahead_frames(sample_rate)
      BY <3>1 DEF Hop
    <3> QED
      BY <2>1, <3>1, <3>2 DEF InputBounded, MaximumSamples
  <2>5. CASE GrowBlock
    <3>1. Hop' \in Nat /\ Hop <= Hop' /\ input' = input /\ sample_rate' = sample_rate
      BY <2>5, BlocksGrow
    <3> QED
      BY <2>1, <3>1 DEF InputBounded, MaximumSamples
  <2>6. ASSUME ReceiveNothing \/ receive \/ ReceiveDone \/ Stitch \/ AppendBlock \/ QuietStep
        PROVE  InputBounded'
    <3>1. UNCHANGED <<input, sample_rate, active_chunk_duration_ms>>
      BY <2>6 DEF ReceiveNothing, receive, ReceiveDone, Stitch, AppendBlock, QuietStep,
                  settingVars, formatVars, flowVars
    <3> QED
      BY <3>1 DEF InputBounded, Hop
  <2> QED
    BY <2>2, <2>3, <2>4, <2>5, <2>6, StepsAreQuiet
<1> QED
  BY TypeCorrect, StreamIsConsistent, <1>1, <1>2, PTL DEF Spec

\* No backlog on either side of the conversion thread grows without limit.
THEOREM BacklogsAreBounded == Spec => []BacklogsBounded
<1>1. InputBounded /\ OutputBounded => BacklogsBounded
  BY DEF BacklogsBounded
<1> QED
  BY <1>1, InputIsBounded, OutputIsBounded, PTL

\* The window is copied into a request of fixed size before its own size is checked:
\* for no rate and no block duration is it larger than that request.
THEOREM RequestsFit == Spec => []RequestFits
<1>1. Init => RequestFits
  BY DEF Init, RequestFits
<1>2. TypeOK /\ RequestFits /\ [Next]_vars => RequestFits'
  <2> SUFFICES ASSUME TypeOK, RequestFits, [Next]_vars PROVE RequestFits'
    OBVIOUS
  <2>1. CASE Capture
    <3>1. Hop > 0 /\ captured'.rate = sample_rate /\ captured'.hop = Hop
      BY <2>1 DEF Capture, WorkReady
    <3>2. window_frames(sample_rate, Hop) * kPcmBytes <= MaxInputBytes
      BY <3>1, WindowFits DEF Hop, TypeOK
    <3> QED
      BY <3>1, <3>2 DEF RequestFits
  <2>2. ASSUME \/ \E o \in Options : reset(o)
               \/ \E fmt \in Formats, frames \in Callbacks : submit(fmt, frames)
               \/ ReceiveDone
        PROVE  RequestFits'
    <3>1. thread' = notify_one /\ captured' = captured
      BY <2>2 DEF reset, submit, ReceiveDone
    <3> QED
      BY <3>1, NotifyKeepsFlight DEF RequestFits
  <2>3. ASSUME ReceiveNothing \/ receive PROVE RequestFits'
    BY <2>3 DEF ReceiveNothing, receive, threadVars, RequestFits
  <2>4. ASSUME Stitch \/ AppendBlock \/ GrowBlock PROVE RequestFits'
    BY <2>4 DEF Stitch, AppendBlock, GrowBlock, RequestFits
  <2>5. CASE QuietStep
    BY <2>5 DEF QuietStep, InFlight, RequestFits
  <2> QED
    BY <2>1, <2>2, <2>3, <2>4, <2>5, StepsAreQuiet
<1> QED
  BY TypeCorrect, <1>1, <1>2, PTL DEF Spec

\* stitch indexes the tail by the overlap of the block it fades without asking for its
\* size: the tail has it, or is empty, across every change of format and every failure.
THEOREM TailsFit == Spec => []TailFitsOverlap
<1>1. Init => TailFitsOverlap
  BY DEF Init, TailFitsOverlap
<1>2. StreamInv /\ TailFitsOverlap /\ [Next]_vars => TailFitsOverlap'
  <2> SUFFICES ASSUME StreamInv, TailFitsOverlap, [Next]_vars PROVE TailFitsOverlap'
    OBVIOUS
  <2>1. CASE Capture
    BY <2>1 DEF Capture, AssemblerIsReset, StreamInv, TailMatches, TailFitsOverlap
  <2>2. ASSUME \/ \E o \in Options : reset(o)
               \/ \E fmt \in Formats, frames \in Callbacks : submit(fmt, frames)
               \/ ReceiveDone
        PROVE  TailFitsOverlap'
    <3>1. thread' = notify_one /\ captured' = captured /\ tail' = tail
      BY <2>2 DEF reset, submit, ReceiveDone
    <3> QED
      BY <3>1, NotifyKeepsFlight DEF TailFitsOverlap
  <2>3. ASSUME ReceiveNothing \/ receive PROVE TailFitsOverlap'
    BY <2>3 DEF ReceiveNothing, receive, threadVars, TailFitsOverlap
  <2>4. ASSUME Stitch \/ AppendBlock \/ GrowBlock PROVE TailFitsOverlap'
    BY <2>4 DEF Stitch, AppendBlock, GrowBlock, TailFitsOverlap
  <2>5. CASE QuietStep
    BY <2>5 DEF QuietStep, InFlight, TailFitsOverlap
  <2> QED
    BY <2>1, <2>2, <2>3, <2>4, <2>5, StepsAreQuiet
<1> QED
  BY StreamIsConsistent, <1>1, <1>2, PTL DEF Spec

\* Nothing that is indexed or copied unseen is too short, whatever changed before.
THEOREM BuffersAreLongEnough == Spec => []BuffersFit
<1>1. TailFitsOverlap /\ RequestFits => BuffersFit
  BY DEF BuffersFit
<1> QED
  BY <1>1, TailsFit, RequestsFit, PTL

\* A callback that is still copying when a new stream begins does not hand its gain to
\* that stream: until playback starts the gain is zero, so the stream fades in.
THEOREM StreamsFadeIn == Spec => []SilentUntilStarted
<1>1. Init => SilentUntilStarted
  BY DEF Init, SilentUntilStarted
<1>2. StreamInv /\ SilentUntilStarted /\ [Next]_vars => SilentUntilStarted'
  <2> SUFFICES ASSUME StreamInv, SilentUntilStarted, [Next]_vars PROVE SilentUntilStarted'
    OBVIOUS
  <2>1. ASSUME NEW o \in Options, reset(o) PROVE SilentUntilStarted'
    BY <2>1 DEF reset, SilentUntilStarted
  <2>2. ASSUME NEW fmt \in Formats, NEW frames \in Callbacks, submit(fmt, frames)
        PROVE  SilentUntilStarted'
    BY <2>2 DEF submit, SilentUntilStarted
  <2>3. ASSUME ReceiveNothing \/ receive PROVE SilentUntilStarted'
    BY <2>3 DEF ReceiveNothing, receive, SilentUntilStarted
  <2>4. CASE ReceiveDone
    BY <2>4 DEF ReceiveDone, StreamInv, PlayingHasStarted, SilentUntilStarted
  <2>5. ASSUME Capture \/ Stitch \/ AppendBlock \/ GrowBlock \/ QuietStep
        PROVE  SilentUntilStarted'
    BY <2>5 DEF Capture, Stitch, AppendBlock, GrowBlock, QuietStep, playVars, SilentUntilStarted
  <2> QED
    BY <2>1, <2>2, <2>3, <2>4, <2>5, StepsAreQuiet
<1> QED
  BY StreamIsConsistent, <1>1, <1>2, PTL DEF Spec
-----------------------------------------------------------------------------
\* One or two generations later is never the same generation again.
LEMMA LaterDiffers ==
  ASSUME generation \in 0 .. Generations - 1, NEW n \in {1, 2}
  PROVE  Later(n) # generation
<1> DEFINE q == (generation + n) \div Generations
           r == (generation + n) % Generations
<1>1. Generations \in Nat /\ Generations > 2 /\ generation \in Nat /\ n \in Nat
  BY WorkerAssumption
<1>2. q \in Nat /\ r \in 0 .. Generations - 1 /\ generation + n = q * Generations + r
  BY <1>1
<1> HIDE DEF q, r
<1>3. SUFFICES ASSUME r = generation PROVE FALSE
  BY DEF Later, r
<1>4. n = q * Generations
  BY <1>1, <1>2, <1>3
<1>5. CASE q = 0
  BY <1>1, <1>4, <1>5
<1>6. CASE q >= 1
  <2>1. q * Generations = Generations + (q - 1) * Generations /\ (q - 1) * Generations \in Nat
    BY <1>1, <1>2, <1>6
  <2> QED
    BY <1>1, <1>4, <2>1
<1> QED
  BY <1>2, <1>5, <1>6

\* What a step moves, if it moves nothing.
Still == Brought = 0 /\ Taken = 0 /\ Added = 0 /\ Played = 0

\* The steps that touch no queue move no audio.
LEMMA QuietStepsAreStill ==
  ASSUME \/ \E fmt \in Formats, frames \in Callbacks : SubmitIgnored(fmt, frames)
         \/ ReceiveNothing \/ ReceiveDone
         \/ ThreadStops \/ ThreadBlocks \/ SpuriousWakeup \/ SettingsTooLong
         \/ ConversionFails \/ Stitch \/ DropBlock \/ KeepPace \/ GrowBlock
         \/ StoppingThread \/ UNCHANGED vars
  PROVE  Still /\ input' = input /\ output' = output
<1>1. ASSUME NEW fmt \in Formats, NEW frames \in Callbacks, SubmitIgnored(fmt, frames)
      PROVE  Still /\ input' = input /\ output' = output
  BY <1>1 DEF SubmitIgnored, Still, Brought, Taken, Added, Played, flowVars, threadVars
<1>2. CASE ReceiveNothing \/ ReceiveDone
  BY <1>2 DEF ReceiveNothing, ReceiveDone, notify_one, Still, Brought, Taken, Added, Played,
              flowVars, threadVars
<1>3. CASE \/ ThreadStops \/ ThreadBlocks \/ SpuriousWakeup \/ SettingsTooLong
           \/ ConversionFails \/ Stitch \/ DropBlock \/ KeepPace \/ GrowBlock
  BY <1>3 DEF ThreadStops, ThreadBlocks, SpuriousWakeup, SettingsTooLong, ConversionFails,
              Stitch, DropBlock, KeepPace, GrowBlock, Still, Brought, Taken, Added, Played,
              flowVars, callerVars
<1>4. CASE StoppingThread
  BY <1>4 DEF StoppingThread, StopFlag, StopNotify, StopJoin, notify_one, Still, Brought,
              Taken, Added, Played, flowVars, threadVars
<1>5. CASE UNCHANGED vars
  BY <1>5 DEF vars, Still, Brought, Taken, Added, Played, flowVars, threadVars, callerVars
<1> QED
  BY <1>1, <1>2, <1>3, <1>4, <1>5

\* As long as the generation stays, what a callback brings reaches input, what leaves
\* input is converted, what is appended reaches output whole, and what leaves output is
\* played: whatever was discarded or trimmed shows in a new generation.
THEOREM NothingIsLostSilently == Spec => AudioIsConserved
<1>1. TypeOK /\ StreamInv /\ [Next]_vars => [Conserves]_vars
  <2> SUFFICES ASSUME TypeOK, StreamInv, [Next]_vars, generation' = generation
               PROVE  input' = input + Brought - Taken /\ output' = output + Added - Played
    BY DEF Conserves
  <2>1. input \in Nat /\ output \in Nat /\ generation \in 0 .. Generations - 1
    BY DEF TypeOK
  <2>2. ASSUME NEW o \in Options, reset(o) PROVE FALSE
    BY <2>1, <2>2, LaterDiffers DEF reset
  <2>3. ASSUME NEW fmt \in Formats, NEW frames \in Callbacks, submit(fmt, frames)
        PROVE  /\ input' = input + frames /\ output' = output
               /\ Brought = frames /\ Taken = 0 /\ Added = 0 /\ Played = 0
    <3> DEFINE reformatted == fmt.rate # sample_rate \/ fmt.channels # channels
               hop         == conversion_frame_count(fmt.rate, active_chunk_duration_ms)
               appended    == (IF reformatted THEN 0 ELSE input) + frames
               discarded   == DiscardedFrames(fmt.rate, hop, appended)
               bumps       == GenerationBumps(reformatted, discarded)
    <3>1. /\ generation' = IF bumps > 0 THEN Later(bumps) ELSE generation
          /\ input' = IF discarded <= appended THEN appended - discarded ELSE 0
          /\ output' = IF reformatted THEN 0 ELSE output
      BY <2>3, Zenon DEF submit
    <3>2. frames \in Nat /\ appended \in Nat /\ discarded \in Nat
      <4>1. frames \in Nat /\ fmt.rate \in Nat /\ active_chunk_duration_ms \in Nat
        BY WorkerAssumption DEF TypeOK
      <4>2. hop \in Nat
        BY <4>1, HopIsNat
      <4>3. appended \in Nat
        BY <2>1, <4>1
      <4> HIDE DEF hop, appended
      <4> QED
        BY <4>1, <4>2, <4>3, DiscardedBringsBack
    <3>3. ~reformatted /\ discarded = 0
      <4> HIDE DEF reformatted, discarded
      <4>1. bumps \in {0, 1, 2} /\ (bumps = 0 => ~reformatted /\ ~(discarded > 0))
        BY DEF GenerationBumps
      <4> HIDE DEF bumps
      <4>2. bumps = 0
        BY <2>1, <3>1, <4>1, LaterDiffers
      <4> QED
        BY <3>2, <4>1, <4>2
    <3>4. input' = input + frames /\ output' = output
      <4>1. appended = input + frames
        BY <3>3
      <4> HIDE DEF reformatted, discarded, appended
      <4> QED
        BY <2>1, <3>1, <3>2, <3>3, <4>1
    <3>5. Brought = frames /\ Taken = 0 /\ Added = 0 /\ Played = 0
      BY <2>3 DEF submit, notify_one, Brought, Taken, Added, Played
    <3> QED
      BY <3>4, <3>5
  <2>4. CASE receive
    <3>1. callback.frames * channels \in Nat
      BY ProductIsNat DEF TypeOK, Playbacks
    <3>2. /\ output' = output - callback.frames * channels /\ input' = input
          /\ Brought = 0 /\ Taken = 0 /\ Added = 0 /\ Played = callback.frames * channels
      BY <2>4 DEF receive, threadVars, Brought, Taken, Added, Played
    <3> QED
      BY <2>1, <3>1, <3>2
  <2>5. CASE Capture
    <3>1. Hop \in Nat
      BY HopsAreNat
    <3>2. /\ input' = input - Hop /\ output' = output
          /\ Brought = 0 /\ Taken = Hop /\ Added = 0 /\ Played = 0
      BY <2>5 DEF Capture, callerVars, Brought, Taken, Added, Played
    <3> QED
      BY <2>1, <3>1, <3>2
  <2>6. CASE AppendBlock
    <3>1. output' = output + Hop * channels /\ captured.hop = Hop /\ captured.channels = channels
      BY <2>6, AppendFits DEF AppendBlock, CaptureIsStale
    <3>2. Hop * channels \in Nat
      BY HopsAreNat, ProductIsNat DEF TypeOK
    <3>3. Brought = 0 /\ Taken = 0 /\ Added = captured.hop * captured.channels /\ Played = 0
      BY <2>6 DEF AppendBlock, callerVars, Brought, Taken, Added, Played
    <3>4. input' = input
      BY <2>6 DEF AppendBlock
    <3> QED
      BY <2>1, <3>1, <3>2, <3>3, <3>4
  <2>7. ASSUME Still, input' = input, output' = output
        PROVE  input' = input + Brought - Taken /\ output' = output + Added - Played
    BY <2>1, <2>7 DEF Still
  <2>8. ASSUME NEW fmt \in Formats, NEW frames \in Callbacks, submit(fmt, frames)
        PROVE  input' = input + Brought - Taken /\ output' = output + Added - Played
    <3>1. frames \in Nat
      BY WorkerAssumption
    <3> QED
      BY <2>1, <2>3, <2>8, <3>1
  <2>9. \/ \E o \in Options : reset(o)
        \/ \E fmt \in Formats, frames \in Callbacks : submit(fmt, frames)
        \/ receive \/ Capture \/ AppendBlock
        \/ Still /\ input' = input /\ output' = output
    BY QuietStepsAreStill DEF Next, AudioThread, ConversionThread, Stopped
  <2> QED
    BY <2>2, <2>4, <2>5, <2>6, <2>7, <2>8, <2>9
<1> QED
  BY TypeCorrect, StreamIsConsistent, <1>1, PTL DEF Spec, AudioIsConserved
-----------------------------------------------------------------------------
\* Every step in time is a step of the worker.
LEMMA PacingStepIsAStep ==
  ASSUME [PacingNext]_pacingVars
  PROVE  [Next]_vars
<1>1. CASE Configure
  BY <1>1 DEF Configure, Next
<1>2. CASE Submit
  BY <1>2 DEF Submit, Next, AudioThread
<1>3. CASE Receive
  BY <1>3 DEF Receive, Next, AudioThread
<1>4. CASE Request \/ Answer \/ Block \/ Commit \/ Pace
  BY <1>4 DEF Request, Answer, Block, Commit, Pace, Next, ConversionThread
<1>5. CASE UNCHANGED pacingVars
  BY <1>5 DEF pacingVars
<1> QED
  BY <1>1, <1>2, <1>3, <1>4, <1>5 DEF PacingNext

\* Whatever a conversion lasts, a worker in time is a worker: all that is said of
\* every interleaving holds in particular for the one that time brings about.
THEOREM PacingIsAWorker == PacingSpec => Spec
<1>1. PacingInit => Init
  BY DEF PacingInit
<1>2. [PacingNext]_pacingVars => [Next]_vars
  BY PacingStepIsAStep
<1> QED
  BY <1>1, <1>2, PTL DEF PacingSpec, Spec

\* The block is configured and grows up to the maximum of some options.
WithinOptions ==
  /\ sample_rate # 0 => \E fmt \in Formats : sample_rate = fmt.rate
  /\ configured =>
       /\ active_chunk_duration_ms <= maximum_chunk_duration_ms
       /\ \E o \in Options : maximum_chunk_duration_ms = o.maximum
  /\ thread = "convert" =>
       \E fmt \in Formats, o \in Options :
         /\ captured.rate = fmt.rate
         /\ captured.hop <= conversion_frame_count(fmt.rate, o.maximum)

\* A hop is never longer than the options allow at the rate of its audio.
LEMMA HopsAreWithinOptions == Spec => []WithinOptions
<1>1. Init => WithinOptions
  BY DEF Init, WithinOptions
<1>2. TypeOK /\ WithinOptions /\ [Next]_vars => WithinOptions'
  <2> SUFFICES ASSUME TypeOK, WithinOptions, [Next]_vars PROVE WithinOptions'
    OBVIOUS
  <2>1. ASSUME NEW o \in Options, reset(o) PROVE WithinOptions'
    <3>1. o.initial <= o.maximum
      BY WorkerAssumption
    <3> QED
      BY <2>1, <3>1 DEF reset, notify_one, formatVars, WithinOptions
  <2>2. ASSUME NEW fmt \in Formats, NEW frames \in Callbacks, submit(fmt, frames)
        PROVE  WithinOptions'
    BY <2>2 DEF submit, notify_one, settingVars, WithinOptions
  <2>3. CASE Capture
    <3>1. PICK fmt \in Formats, o \in Options :
            sample_rate = fmt.rate /\ maximum_chunk_duration_ms = o.maximum
              /\ active_chunk_duration_ms <= o.maximum
      BY <2>3 DEF Capture, WorkReady, WithinOptions
    <3>2. sample_rate \in Nat /\ active_chunk_duration_ms \in Nat /\ o.maximum \in Nat
      BY <3>1 DEF TypeOK
    <3>3. Hop <= conversion_frame_count(fmt.rate, o.maximum)
      BY <3>1, <3>2, HopMonotone DEF Hop
    <3>4. captured'.rate = fmt.rate /\ captured'.hop = Hop
      BY <2>3, <3>1 DEF Capture
    <3> QED
      BY <2>3, <3>3, <3>4 DEF Capture, settingVars, formatVars, WithinOptions
  <2>4. CASE GrowBlock
    <3>1. active_chunk_duration_ms' <= maximum_chunk_duration_ms
      BY <2>4 DEF GrowBlock, TypeOK
    <3> QED
      BY <2>4, <3>1 DEF GrowBlock, formatVars, WithinOptions
  <2>5. ASSUME \/ \E fmt \in Formats, frames \in Callbacks : SubmitIgnored(fmt, frames)
               \/ ReceiveNothing \/ receive \/ ReceiveDone
               \/ ThreadStops \/ ThreadBlocks \/ SpuriousWakeup \/ SettingsTooLong
               \/ ConversionFails \/ Stitch \/ DropBlock \/ AppendBlock \/ KeepPace
               \/ StoppingThread \/ UNCHANGED vars
        PROVE  /\ UNCHANGED <<sample_rate, configured, active_chunk_duration_ms,
                              maximum_chunk_duration_ms>>
               /\ thread' = "convert" => thread = "convert" /\ captured' = captured
    BY <2>5 DEF SubmitIgnored, ReceiveNothing, receive, ReceiveDone, ThreadStops,
                ThreadBlocks, SpuriousWakeup, SettingsTooLong, ConversionFails, Stitch,
                DropBlock, AppendBlock, KeepPace, StoppingThread, StopFlag, StopNotify,
                StopJoin, notify_one, settingVars, formatVars, threadVars, vars
  <2>6. \/ \E o \in Options : reset(o)
        \/ \E fmt \in Formats, frames \in Callbacks : submit(fmt, frames)
        \/ Capture \/ GrowBlock
        \/ /\ UNCHANGED <<sample_rate, configured, active_chunk_duration_ms,
                          maximum_chunk_duration_ms>>
           /\ thread' = "convert" => thread = "convert" /\ captured' = captured
    BY <2>5 DEF Next, AudioThread, ConversionThread, Stopped
  <2> QED
    BY <2>1, <2>2, <2>3, <2>4, <2>6 DEF WithinOptions
<1> QED
  BY TypeCorrect, <1>1, <1>2, PTL DEF Spec

\* A quotient is bounded by what its dividend is bounded by.
LEMMA QuotientIsBounded ==
  ASSUME NEW a \in Nat, NEW b \in Nat \ {0}, NEW k \in Nat, a <= b * k
  PROVE  /\ a \div b \in Nat /\ a % b \in Nat
         /\ a \div b <= k
         /\ a \div b = k => a % b = 0
<1>1. PICK q \in Int, r \in Int : q = a \div b /\ r = a % b
  OBVIOUS
<1>2. a = b * q + r /\ 0 <= r /\ r < b
  BY <1>1
<1>3. q >= 0
  <2> SUFFICES ASSUME q < 0 PROVE FALSE
    OBVIOUS
  <2>1. b * q <= -b
    <3>1. q + 1 <= 0
      OBVIOUS
    <3>2. b * (q + 1) <= 0
      BY <3>1
    <3>3. b * (q + 1) = b * q + b
      OBVIOUS
    <3> QED
      BY <3>2, <3>3
  <2> QED
    BY <1>2, <2>1
<1>4. q <= k
  <2> SUFFICES ASSUME q > k PROVE FALSE
    OBVIOUS
  <2>1. b * (q - k) >= b
    BY q - k >= 1
  <2>2. b * (q - k) = b * q - b * k
    OBVIOUS
  <2> QED
    BY <1>2, <2>1, <2>2
<1>5. q = k => r = 0
  BY <1>2
<1> QED
  BY <1>1, <1>2, <1>3, <1>4, <1>5

\* So is a quotient that is rounded.
LEMMA RoundedIsBounded ==
  ASSUME NEW a \in Nat, NEW b \in Nat \ {0}, NEW k \in Nat, a <= b * k
  PROVE  Rounded(a, b) \in Nat /\ Rounded(a, b) <= k
<1>1. /\ a \div b \in Nat /\ a % b \in Nat
      /\ a \div b <= k
      /\ a \div b = k => a % b = 0
  BY QuotientIsBounded
<1> DEFINE floor == a \div b
           rest  == a % b
<1>2. Rounded(a, b) = IF 2 * rest < b \/ (2 * rest = b /\ floor % 2 = 0)
                      THEN floor ELSE floor + 1
  BY DEF Rounded
<1> HIDE DEF floor, rest
<1>3. floor \in Nat /\ rest \in Nat /\ floor <= k /\ (floor = k => rest = 0)
  BY <1>1 DEF floor, rest
<1>4. Rounded(a, b) \in {floor, floor + 1}
  BY <1>2
<1>5. floor = k => Rounded(a, b) = floor
  BY <1>2, <1>3
<1> QED
  BY <1>3, <1>4, <1>5

\* The window around a block of so many milliseconds lasts no more than that and
\* its context of 100 ms ...
LEMMA WindowLasts ==
  ASSUME NEW rate \in Nat, NEW ms \in Nat
  PROVE  /\ window_frames(rate, conversion_frame_count(rate, ms)) \in Nat
         /\ 1000 * window_frames(rate, conversion_frame_count(rate, ms)) <= rate * (ms + 100)
<1> DEFINE hop    == conversion_frame_count(rate, ms)
           frames == frame_count_for_duration(rate, ms)
<1>1. hop \in Nat /\ frames \in Nat
  BY HopIsNat, FramesIsNat
<1>2. hop <= frames
  <2> DEFINE context  == frame_count_for_duration(rate, kStreamHistoryMs + kStreamLookaheadMs)
             capacity == MaxInputBytes \div kPcmBytes
  <2>1. context \in Nat /\ capacity \in Nat
    BY PartsAreNat, MaxInputBytesAssumption DEF kPcmBytes
  <2>2. hop = IF ms <= 0 \/ capacity <= context THEN 0
              ELSE IF frames <= capacity - context THEN frames ELSE capacity - context
    BY DEF conversion_frame_count
  <2> HIDE DEF context, capacity, frames, hop
  <2> QED
    BY <1>1, <2>1, <2>2
<1>3. rate * ms \in Nat /\ rate * (ms + 100) = rate * ms + rate * 100
  OBVIOUS
<1>4. 1000 * frames <= rate * ms
  BY <1>3 DEF frame_count_for_duration
<1>5. /\ context_frames(rate) \in Nat /\ lookahead_frames(rate) \in Nat
      /\ 1000 * context_frames(rate) <= rate * 40
      /\ 1000 * lookahead_frames(rate) <= rate * 60
  BY PartsAreNat DEF context_frames, lookahead_frames, frame_count_for_duration,
     kStreamHistoryMs, kStreamLookaheadMs, kStreamOverlapMs, kStreamSearchMs
<1>6. window_frames(rate, hop) = context_frames(rate) + hop + lookahead_frames(rate)
  BY DEF window_frames
<1> HIDE DEF hop, frames
<1>7. window_frames(rate, hop) \in Nat /\ 1000 * window_frames(rate, hop) <= rate * (ms + 100)
  BY <1>1, <1>2, <1>3, <1>4, <1>5, <1>6
<1> QED
  BY <1>7 DEF hop

\* ... at the rate of inference as well ...
LEMMA InferenceLasts ==
  ASSUME NEW rate \in Nat \ {0}, NEW frames \in Nat, NEW ms \in Nat,
         1000 * frames <= rate * ms
  PROVE  /\ InferenceSamples(rate, frames) \in Nat
         /\ InferenceSamples(rate, frames) <= 16 * ms
<1>1. PICK q \in Int, r \in Int : q = frames \div rate /\ r = frames % rate
  OBVIOUS
<1>2. frames = rate * q + r /\ 0 <= r /\ r < rate
  BY <1>1
<1>3. q \in Nat
  <2>1. frames <= rate * frames
    <3>1. (rate - 1) * frames \in Nat
      BY rate - 1 \in Nat, ProductIsNat
    <3>2. rate * frames = (rate - 1) * frames + frames
      OBVIOUS
    <3> QED
      BY <3>1, <3>2
  <2> QED
    BY <1>1, <2>1, QuotientIsBounded
<1>4. r \in Nat /\ 16000 * r \in Nat /\ 16000 * q \in Nat
  BY <1>2, <1>3
<1>5. 16000 * r <= rate * (16 * ms - 16000 * q)
  <2>1. rate * (16 * ms - 16000 * q) = 16 * (rate * ms) - 16000 * (rate * q)
    BY <1>3
  <2>2. rate * ms \in Nat /\ rate * q \in Nat
    BY <1>3, ProductIsNat
  <2> QED
    BY <1>2, <1>4, <2>1, <2>2
<1>6. 16 * ms - 16000 * q \in Nat
  <2> SUFFICES ASSUME 16 * ms - 16000 * q < 0 PROVE FALSE
    BY <1>3
  <2> DEFINE d == 16 * ms - 16000 * q
  <2>1. d \in Int /\ d <= -1
    BY <1>3
  <2>2. rate * d <= -rate
    <3>1. rate * (d + 1) <= 0
      BY <2>1
    <3>2. rate * (d + 1) = rate * d + rate
      OBVIOUS
    <3> QED
      BY <3>1, <3>2
  <2> QED
    BY <1>4, <1>5, <2>1, <2>2
<1>7. /\ Rounded(16000 * r, rate) \in Nat
      /\ Rounded(16000 * r, rate) <= 16 * ms - 16000 * q
  BY <1>4, <1>5, <1>6, RoundedIsBounded
<1>8. InferenceSamples(rate, frames) = 16000 * q + Rounded(16000 * r, rate)
  BY <1>1 DEF InferenceSamples, kInferenceRate
<1> QED
  BY <1>3, <1>4, <1>6, <1>7, <1>8

\* ... and makes one frame of the network every 10 ms.
LEMMA NetworkLasts ==
  ASSUME NEW rate \in Nat \ {0}, NEW hop \in Nat, NEW missing \in Nat, NEW ms \in Nat,
         window_frames(rate, hop) \in Nat,
         1000 * window_frames(rate, hop) <= rate * (ms + 100)
  PROVE  /\ NetworkFrames(rate, hop, missing) \in Nat
         /\ NetworkFrames(rate, hop, missing) <= (ms + 100) \div 10
<1> DEFINE samples == InferenceSamples(rate, window_frames(rate, hop))
<1>1. samples \in Nat /\ samples <= 16 * (ms + 100)
  <2>1. PICK frames \in Nat, longest \in Nat :
          frames = window_frames(rate, hop) /\ longest = ms + 100
    OBVIOUS
  <2>2. 1000 * frames <= rate * longest
    BY <2>1
  <2>3. /\ InferenceSamples(rate, frames) \in Nat
        /\ InferenceSamples(rate, frames) <= 16 * longest
    BY <2>2, InferenceLasts
  <2> QED
    BY <2>1, <2>3
<1>2. NetworkFrames(rate, hop, missing) =
        IF missing <= samples \div 160 THEN samples \div 160 - missing ELSE 0
  BY DEF NetworkFrames, kNetworkWindow
<1> HIDE DEF samples
<1> QED
  BY <1>1, <1>2

\* The answer to a window that lasts no more than the longest block of any options
\* and its context, at the rate that is asked for, fits the response.
LongestAnswersFit ==
  \A fmt \in Formats, o \in Options :
    \A frames \in 0 .. (o.maximum + 100) \div 10 :
      ~ExceedsResponse(Rounded(frames * AnswerRate(fmt.rate), kNetworkRate))

\* The worker process never rejects its own answer if it would not reject the
\* longest one: growth, clamps, formats and resets bring about none that is longer,
\* whatever the network makes of it and whatever rate is asked for. (The filter
\* offers a maximum at which it would.)
THEOREM BlocksAreAnswered ==
  ASSUME LongestAnswersFit
  PROVE  PacingSpec => []GrownBlocksAreAnswered
<1>1. TypeOK /\ WithinOptions => GrownBlocksAreAnswered
  <2> SUFFICES ASSUME TypeOK, WithinOptions, thread = "convert", NEW missing \in Missing
               PROVE  ~ExceedsResponse(AnswerFrames(captured.rate, captured.hop, missing))
    BY DEF GrownBlocksAreAnswered, Answered
  <2>1. PICK fmt \in Formats, o \in Options :
          /\ captured.rate = fmt.rate
          /\ captured.hop <= conversion_frame_count(fmt.rate, o.maximum)
    BY DEF WithinOptions
  <2>2. PICK rate \in Nat \ {0}, ms \in Nat, hop \in Nat :
          rate = fmt.rate /\ ms = o.maximum /\ hop = captured.hop
    BY WorkerAssumption DEF TypeOK, Captures
  <2>3. /\ window_frames(rate, hop) \in Nat
        /\ 1000 * window_frames(rate, hop) <= rate * (ms + 100)
    <3>1. /\ window_frames(rate, conversion_frame_count(rate, ms)) \in Nat
          /\ 1000 * window_frames(rate, conversion_frame_count(rate, ms)) <= rate * (ms + 100)
      BY WindowLasts
    <3>2. /\ conversion_frame_count(rate, ms) \in Nat
          /\ context_frames(rate) \in Nat /\ lookahead_frames(rate) \in Nat
          /\ hop <= conversion_frame_count(rate, ms)
          /\ rate * (ms + 100) \in Nat
      <4>1. conversion_frame_count(rate, ms) \in Nat
        BY HopIsNat
      <4>2. context_frames(rate) \in Nat /\ lookahead_frames(rate) \in Nat
        BY PartsAreNat
      <4>3. ms + 100 \in Nat
        OBVIOUS
      <4>4. rate * (ms + 100) \in Nat
        BY <4>3, ProductIsNat
      <4> QED
        BY <2>1, <2>2, <4>1, <4>2, <4>4
    <3> QED
      BY <3>1, <3>2 DEF window_frames
  <2>4. missing \in Nat
    BY PacingAssumption
  <2>5. NetworkFrames(rate, hop, missing) \in 0 .. (ms + 100) \div 10
    <3>1. /\ NetworkFrames(rate, hop, missing) \in Nat
          /\ NetworkFrames(rate, hop, missing) <= (ms + 100) \div 10
      BY <2>3, <2>4, NetworkLasts
    <3> QED
      BY <3>1
  <2>6. ~ExceedsResponse(Rounded(NetworkFrames(rate, hop, missing) * AnswerRate(rate), kNetworkRate))
    BY <2>2, <2>5 DEF LongestAnswersFit
  <2> QED
    BY <2>1, <2>2, <2>6 DEF AnswerFrames
<1> QED
  BY TypeCorrect, HopsAreWithinOptions, PacingIsAWorker, <1>1, PTL

\* In the build, audio of up to 48 kHz in blocks of less than 4 s is always
\* answered, unless a rate above 48 kHz is asked for.
THEOREM BlocksBelowFourSecondsAreAnswered ==
  ASSUME MaxOutputBytes = 768 * 1024,
         \A fmt \in Formats : fmt.rate <= 48000,
         ResampleRate <= 48000, ModelRate <= 48000,
         \A o \in Options : o.maximum <= 3990
  PROVE  PacingSpec => []GrownBlocksAreAnswered
<1>1. LongestAnswersFit
  <2> SUFFICES ASSUME NEW fmt \in Formats, NEW o \in Options,
                      NEW frames \in 0 .. (o.maximum + 100) \div 10
               PROVE  ~ExceedsResponse(Rounded(frames * AnswerRate(fmt.rate), kNetworkRate))
    BY DEF LongestAnswersFit
  <2>1. frames \in Nat /\ frames <= 409
    <3>1. o.maximum \in Nat /\ o.maximum <= 3990
      BY WorkerAssumption
    <3> QED
      BY <3>1
  <2>2. PICK rate \in Nat : rate = AnswerRate(fmt.rate) /\ rate <= 48000
    <3>1. fmt.rate \in Nat /\ fmt.rate <= 48000
      BY WorkerAssumption
    <3>2. AnswerRate(fmt.rate) \in {ResampleRate, fmt.rate, ModelRate}
      BY DEF AnswerRate
    <3> QED
      BY <3>1, <3>2, PacingAssumption
  <2>3. frames * rate \in Nat /\ frames * rate <= 409 * 48000
    <3>1. frames * rate <= frames * 48000
      BY <2>1, <2>2, ProductMonotone
    <3> QED
      BY <2>1, <2>2, <3>1, ProductIsNat
  <2>4. /\ Rounded(frames * rate, kNetworkRate) \in Nat
        /\ Rounded(frames * rate, kNetworkRate) <= 409 * 480
    BY <2>3, RoundedIsBounded DEF kNetworkRate
  <2> QED
    BY <2>2, <2>4 DEF ExceedsResponse, kFloatBytes
<1> QED
  BY <1>1, BlocksAreAnswered
=============================================================================
