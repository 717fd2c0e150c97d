-------------------------- MODULE ConversionWorker --------------------------
(***************************************************************************)
(* One ConversionWorker of the filter: the monitor (everything guarded by  *)
(* Impl::mutex), the conversion thread that runs Impl::run, and the        *)
(* threads that call the monitor:                                          *)
(*                                                                         *)
(*   - the audio thread calls submit and then receive for every callback;  *)
(*   - a settings thread calls reset;                                      *)
(*   - one thread calls stop (that only one does is WorkerRegistry's job). *)
(*                                                                         *)
(* A critical section is one action, because everything between lock and   *)
(* unlock is invisible to the other threads; code between two critical     *)
(* sections of one operation is where the others interleave. reset may     *)
(* run at any point, as the class allows; the filter is stricter.          *)
(*                                                                         *)
(* Samples are counted, never valued. Two ghosts say what the counts       *)
(* forget: gap (has audio been lost between the assembler's history and    *)
(* the front of input?) and tail_of (which block did the tail come from?). *)
(***************************************************************************)
EXTENDS StreamTiming

CONSTANTS
  Formats,          \* the [rate, channels] in which audio may arrive
  Callbacks,        \* the sizes in frames of an audio callback
  Options,          \* the ConversionOptions that reset may be given
  Generations       \* how many values a stream generation has, 2^64 in the build

\* One call makes at most two new generations, which do not wrap around to the old one.
ASSUME WorkerAssumption ==
  /\ Formats \subseteq [rate : Nat \ {0}, channels : Nat \ {0}]
  /\ Callbacks \subseteq Nat \ {0}
  /\ Options \subseteq [initial : Nat \ {0}, maximum : Nat \ {0}, fits : BOOLEAN]
  /\ \A o \in Options : o.initial <= o.maximum
  /\ Generations \in Nat \ 0 .. 2

\* kInitialOutputBlocks, and the step by which a slow block grows.
kInitialOutputBlocks == 2
kGrowthMs == 250

VARIABLES
  \* The monitor.
  options, input, output, sample_rate, channels, generation,
  active_chunk_duration_ms, startup_chunk_duration_ms, maximum_chunk_duration_ms,
  configured, has_completed_conversion, stopping, discontinuity,
  playback_started, playback_gain,
  \* The conversion thread: where it is, what it captured, its tail.
  thread, captured, tail, tail_of, partner, gap,
  \* The audio thread and the stopping thread.
  audio, callback, stopper

settingVars == <<options, active_chunk_duration_ms, startup_chunk_duration_ms,
                 maximum_chunk_duration_ms, configured>>
formatVars  == <<sample_rate, channels>>
flowVars    == <<input, output, generation, discontinuity>>
playVars    == <<playback_started, playback_gain>>
threadVars  == <<thread, captured, tail, tail_of, partner, gap>>
callerVars  == <<audio, callback, stopper>>
vars == <<settingVars, formatVars, flowVars, playVars, threadVars, callerVars,
          has_completed_conversion, stopping>>

NoOptions == [initial |-> 500, maximum |-> 2000, fits |-> TRUE]
Nothing   == [rate |-> 0, channels |-> 0, generation |-> 0, hop |-> 0,
              first |-> FALSE, fits |-> TRUE]
NoCallback == [frames |-> 0, rate |-> 0, channels |-> 0, generation |-> 0]

\* The hop of a block that is captured now, and of the blocks playback waits for.
Hop         == conversion_frame_count(sample_rate, active_chunk_duration_ms)
StartupHop  == conversion_frame_count(sample_rate, startup_chunk_duration_ms)
OutputRoom  == output <= Hop * channels
InputReady  == input >= Hop + lookahead_frames(sample_rate)

\* Mutant: the wait forgets that the worker may be stopping.
WorkReadyIgnoringStop ==
  /\ configured
  /\ sample_rate # 0
  /\ channels # 0
  /\ Hop > 0
  /\ InputReady
  /\ OutputRoom

\* Mutant: the wait does not look at how much output is queued.
WorkReadyIgnoringOutput ==
  \/ stopping
  \/ /\ configured
     /\ sample_rate # 0
     /\ channels # 0
     /\ Hop > 0
     /\ InputReady

\* The predicate of work_ready.wait in Impl::run.
WorkReady ==
  \/ stopping
  \/ /\ configured
     /\ sample_rate # 0
     /\ channels # 0
     /\ Hop > 0
     /\ InputReady
     /\ OutputRoom

\* work_ready.notify_one(): wakes the thread if it blocks, else is lost.
notify_one == IF thread = "blocked" THEN "ready" ELSE thread

\* A generation that is n later. The bound: a generation is not used again while
\* a conversion or a callback still compares with it (2^64 bumps in the build).
Later(n) == (generation + n) % Generations
Compared ==
  (IF thread \in {"convert", "commit"} THEN {captured.generation} ELSE {})
    \cup (IF audio = "playing" THEN {callback.generation} ELSE {})

\* What clearing output does to a block whose tail was to be continued.
Orphaned(of) == IF of = "last" THEN "lost" ELSE of
-----------------------------------------------------------------------------
Init ==
  /\ options = NoOptions
  /\ input = 0
  /\ output = 0
  /\ sample_rate = 0
  /\ channels = 0
  /\ generation = 0
  /\ active_chunk_duration_ms = 500
  /\ startup_chunk_duration_ms = 500
  /\ maximum_chunk_duration_ms = 2000
  /\ configured = FALSE
  /\ has_completed_conversion = FALSE
  /\ stopping = FALSE
  /\ discontinuity = TRUE
  /\ playback_started = FALSE
  /\ playback_gain = FALSE
  /\ thread = "ready"
  /\ captured = Nothing
  /\ tail = 0
  /\ tail_of = "none"
  /\ partner = "none"
  /\ gap = TRUE
  /\ audio = "idle"
  /\ callback = NoCallback
  /\ stopper = "none"

\* ConversionWorker::reset: take new options and start a new generation. It
\* leaves the format alone, and does nothing once the worker is stopping.
reset(o) ==
  /\ ~stopping
  /\ Later(1) \notin Compared
  /\ options' = o
  /\ active_chunk_duration_ms' = o.initial
  /\ startup_chunk_duration_ms' = o.initial
  /\ maximum_chunk_duration_ms' = o.maximum
  /\ input' = 0
  /\ output' = 0
  /\ playback_gain' = FALSE
  /\ playback_started' = FALSE
  /\ generation' = Later(1)
  /\ configured' = TRUE
  /\ has_completed_conversion' = FALSE
  /\ discontinuity' = TRUE
  /\ gap' = TRUE
  /\ tail_of' = Orphaned(tail_of)
  /\ partner' = Orphaned(partner)
  /\ thread' = notify_one
  /\ UNCHANGED <<formatVars, stopping, captured, tail, callerVars>>
-----------------------------------------------------------------------------
\* Mutant: room for one hop only.
MaximumSamplesOneHop(rate, hop) == hop + lookahead_frames(rate)

\* The audio that may wait for conversion: two hops and the look-ahead.
MaximumSamples(rate, hop) == 2 * hop + lookahead_frames(rate)

\* Mutant: the number of hops is rounded down.
DiscardedFramesRoundedDown(rate, hop, size) ==
  LET excess == size - MaximumSamples(rate, hop)
  IN  IF excess <= 0 THEN 0 ELSE IF hop = 0 THEN excess ELSE (excess \div hop) * hop

\* Frames that submit discards from an input of the given size: whole hops, as
\* many as bring it back under the maximum.
DiscardedFrames(rate, hop, size) ==
  LET excess == size - MaximumSamples(rate, hop)
  IN  IF excess <= 0 THEN 0
      ELSE IF hop = 0 THEN excess
      ELSE ((excess + hop - 1) \div hop) * hop

\* Mutant: discarding input does not start a new generation.
GenerationBumpsOnFormat(reformatted, discarded) == IF reformatted THEN 1 ELSE 0

GenerationBumps(reformatted, discarded) ==
  (IF reformatted THEN 1 ELSE 0) + (IF discarded > 0 THEN 1 ELSE 0)

\* ConversionWorker::submit when the worker is unconfigured or stopping.
SubmitIgnored(fmt, frames) ==
  /\ audio = "idle"
  /\ ~configured \/ stopping
  /\ audio' = "submitted"
  /\ callback' = [frames |-> frames, rate |-> fmt.rate, channels |-> fmt.channels,
                  generation |-> 0]
  /\ UNCHANGED <<settingVars, formatVars, flowVars, playVars, threadVars, stopper,
                 has_completed_conversion, stopping>>

\* ConversionWorker::submit otherwise: a new format clears both queues, the
\* audio is appended, and what exceeds the bound is discarded from the front.
\* Either event makes a new generation.
submit(fmt, frames) ==
  /\ audio = "idle"
  /\ configured
  /\ ~stopping
  /\ LET reformatted == fmt.rate # sample_rate \/ fmt.channels # channels
         hop         == conversion_frame_count(fmt.rate, active_chunk_duration_ms)
         appended    == (IF reformatted THEN 0 ELSE input) + frames
         discarded   == DiscardedFrames(fmt.rate, hop, appended)
         bumps       == GenerationBumps(reformatted, discarded)
     IN  /\ bumps > 0 => Later(bumps) \notin Compared
         /\ generation' = IF bumps > 0 THEN Later(bumps) ELSE generation
         /\ input' = IF discarded <= appended THEN appended - discarded ELSE 0
         /\ output' = IF reformatted THEN 0 ELSE output
         /\ playback_gain' = (playback_gain /\ ~reformatted)
         /\ playback_started' = (playback_started /\ ~reformatted)
         /\ discontinuity' = (discontinuity \/ bumps > 0)
         /\ gap' = (gap \/ reformatted \/ discarded > 0)
         /\ tail_of' = IF reformatted THEN Orphaned(tail_of) ELSE tail_of
         /\ partner' = IF reformatted THEN Orphaned(partner) ELSE partner
  /\ sample_rate' = fmt.rate
  /\ channels' = fmt.channels
  /\ thread' = notify_one
  /\ audio' = "submitted"
  /\ callback' = [frames |-> frames, rate |-> fmt.rate, channels |-> fmt.channels,
                  generation |-> 0]
  /\ UNCHANGED <<settingVars, has_completed_conversion, stopping, captured, tail,
                 stopper>>
-----------------------------------------------------------------------------
\* Mutant: playback starts after two blocks of the duration active now.
StartupFilledWithActive == output >= Hop * kInitialOutputBlocks * channels

\* Enough output to start playing: two blocks of the duration it started with.
StartupFilled ==
  output >= StartupHop * kInitialOutputBlocks * channels

\* Mutant: receive does not look for an underflow.
NeverUnderflows == TRUE

OutputCovers == output >= callback.frames * channels

\* ConversionWorker::receive, first critical section: leave the callback
\* silent while playback has not started or output has run dry, ...
ReceiveNothing ==
  /\ audio = "submitted"
  /\ \/ /\ callback.channels # channels \/ (~playback_started /\ ~StartupFilled)
        /\ UNCHANGED <<playback_started, playback_gain>>
     \/ /\ callback.channels = channels
        /\ playback_started \/ StartupFilled
        /\ ~OutputCovers
        /\ playback_started' = TRUE
        /\ playback_gain' = FALSE
  /\ audio' = "idle"
  /\ callback' = NoCallback
  /\ UNCHANGED <<settingVars, formatVars, flowVars, threadVars, stopper,
                 has_completed_conversion, stopping>>

\* ... or take the samples of the callback out of output.
receive ==
  /\ audio = "submitted"
  /\ callback.channels = channels
  /\ playback_started \/ StartupFilled
  /\ OutputCovers
  /\ playback_started' = TRUE
  /\ output' = output - callback.frames * channels
  /\ callback' = [callback EXCEPT !.generation = generation]
  /\ audio' = "playing"
  /\ UNCHANGED <<settingVars, formatVars, input, generation, discontinuity,
                 playback_gain, threadVars, stopper, has_completed_conversion,
                 stopping>>

\* Mutant: the gain is written back whatever happened meanwhile.
GainIsCurrentAlways == TRUE

GainIsCurrent == generation = callback.generation

\* Mutant: receive does not notify after it has made room in output.
ReceiveDoneQuietly ==
  /\ audio = "playing"
  /\ playback_gain' = (playback_gain \/ GainIsCurrent)
  /\ audio' = "idle"
  /\ callback' = NoCallback
  /\ UNCHANGED <<settingVars, formatVars, flowVars, playback_started, threadVars,
                 stopper, has_completed_conversion, stopping>>

\* receive, second critical section: the gain reached while copying is kept
\* if the generation is still the one played; then the thread is notified.
ReceiveDone ==
  /\ audio = "playing"
  /\ playback_gain' = (playback_gain \/ GainIsCurrent)
  /\ thread' = notify_one
  /\ audio' = "idle"
  /\ callback' = NoCallback
  /\ UNCHANGED <<settingVars, formatVars, flowVars, playback_started, captured, tail,
                 tail_of, partner, gap, stopper, has_completed_conversion, stopping>>
-----------------------------------------------------------------------------
\* Impl::run, the wait: stop, block, or take a window out of input. A pending
\* discontinuity resets the assembler before its history is used.
ThreadStops ==
  /\ thread = "ready"
  /\ stopping
  /\ thread' = "done"
  /\ UNCHANGED <<settingVars, formatVars, flowVars, playVars, captured, tail, tail_of,
                 partner, gap, callerVars, has_completed_conversion, stopping>>

ThreadBlocks ==
  /\ thread = "ready"
  /\ ~WorkReady
  /\ thread' = "blocked"
  /\ UNCHANGED <<settingVars, formatVars, flowVars, playVars, captured, tail, tail_of,
                 partner, gap, callerVars, has_completed_conversion, stopping>>

SpuriousWakeup ==
  /\ thread = "blocked"
  /\ thread' = "ready"
  /\ UNCHANGED <<settingVars, formatVars, flowVars, playVars, captured, tail, tail_of,
                 partner, gap, callerVars, has_completed_conversion, stopping>>

\* Mutant: Impl::run clears the flag without resetting the assembler.
AssemblerIsKept == FALSE

AssemblerIsReset == discontinuity

Capture ==
  /\ thread = "ready"
  /\ WorkReady
  /\ ~stopping
  /\ captured' = [rate |-> sample_rate, channels |-> channels, generation |-> generation,
                  hop |-> Hop, first |-> ~has_completed_conversion,
                  fits |-> options.fits]
  /\ input' = input - Hop
  /\ discontinuity' = FALSE
  /\ gap' = (gap /\ ~AssemblerIsReset)
  /\ tail' = IF AssemblerIsReset THEN 0 ELSE tail
  /\ tail_of' = IF AssemblerIsReset THEN "none" ELSE tail_of
  /\ thread' = "convert"
  /\ UNCHANGED <<settingVars, formatVars, output, generation, playVars, partner,
                 callerVars, has_completed_conversion, stopping>>

\* A setting that does not fit the request: the window is given up, and the
\* assembler keeps the history it has just advanced over that window.
SettingsTooLong ==
  /\ thread = "convert"
  /\ ~captured.fits
  /\ thread' = "ready"
  /\ captured' = Nothing
  /\ UNCHANGED <<settingVars, formatVars, flowVars, playVars, tail, tail_of, partner,
                 gap, callerVars, has_completed_conversion, stopping>>

\* rvc_ipc_convert fails, times out or answers with audio that cannot be
\* decoded or stitched: the assembler is reset, the generation is not.
ConversionFails ==
  /\ thread = "convert"
  /\ captured.fits
  /\ thread' = "ready"
  /\ captured' = Nothing
  /\ tail' = 0
  /\ tail_of' = "none"
  /\ UNCHANGED <<settingVars, formatVars, flowVars, playVars, partner, gap, callerVars,
                 has_completed_conversion, stopping>>

\* The window came back: stitch fades the old tail into the block and keeps
\* the end of it as the new tail.
Stitch ==
  /\ thread = "convert"
  /\ captured.fits
  /\ overlap_frames(captured.rate) >= 2
  /\ partner' = tail_of
  /\ tail' = overlap_frames(captured.rate) * captured.channels
  /\ tail_of' = "pending"
  /\ thread' = "commit"
  /\ UNCHANGED <<settingVars, formatVars, flowVars, playVars, captured, gap, callerVars,
                 has_completed_conversion, stopping>>
-----------------------------------------------------------------------------
\* Does the monitor still want what was captured?
CaptureIsStale ==
  \/ stopping
  \/ generation # captured.generation
  \/ sample_rate # captured.rate
  \/ channels # captured.channels

DropBlock ==
  /\ thread = "commit"
  /\ CaptureIsStale
  /\ tail_of' = "lost"
  /\ partner' = "none"
  /\ captured' = Nothing
  /\ thread' = "ready"
  /\ UNCHANGED <<settingVars, formatVars, flowVars, playVars, tail, gap, callerVars,
                 has_completed_conversion, stopping>>

\* output.append, after discarding what would exceed four hops.
Appended(size, block, maximum) ==
  LET excess == size + block - maximum
      kept   == IF excess <= 0 THEN size
                ELSE IF excess <= size THEN size - excess ELSE 0
  IN  kept + block

AppendBlock ==
  /\ thread = "commit"
  /\ ~CaptureIsStale
  /\ output' = Appended(output, captured.hop * captured.channels,
                        4 * captured.hop * captured.channels)
  /\ has_completed_conversion' = TRUE
  /\ tail_of' = "last"
  /\ partner' = "none"
  /\ thread' = "pace"
  /\ UNCHANGED <<settingVars, formatVars, input, generation, discontinuity, playVars,
                 captured, tail, gap, callerVars, stopping>>

\* Conversion kept up with real time, or it was the first: no growth.
KeepPace ==
  /\ thread = "pace"
  /\ thread' = "ready"
  /\ captured' = Nothing
  /\ UNCHANGED <<settingVars, formatVars, flowVars, playVars, tail, tail_of, partner, gap,
                 callerVars, has_completed_conversion, stopping>>

\* Slower than real time: the block grows, in a critical section of its own
\* that does not look at the generation.
GrowBlock ==
  /\ thread = "pace"
  /\ ~captured.first
  /\ active_chunk_duration_ms < maximum_chunk_duration_ms
  /\ active_chunk_duration_ms' =
       IF active_chunk_duration_ms + kGrowthMs <= maximum_chunk_duration_ms
       THEN active_chunk_duration_ms + kGrowthMs
       ELSE maximum_chunk_duration_ms
  /\ thread' = "ready"
  /\ captured' = Nothing
  /\ UNCHANGED <<options, startup_chunk_duration_ms, maximum_chunk_duration_ms,
                 configured, formatVars, flowVars, playVars, tail, tail_of, partner, gap,
                 callerVars, has_completed_conversion, stopping>>
-----------------------------------------------------------------------------
\* Impl::stop: raise the flag, notify after unlocking, join the thread.
StopFlag ==
  /\ stopper = "none"
  /\ stopper' = "flagged"
  /\ stopping' = TRUE
  /\ UNCHANGED <<settingVars, formatVars, flowVars, playVars, threadVars, audio, callback,
                 has_completed_conversion>>

StopNotify ==
  /\ stopper = "flagged"
  /\ stopper' = "joining"
  /\ thread' = notify_one
  /\ UNCHANGED <<settingVars, formatVars, flowVars, playVars, captured, tail, tail_of,
                 partner, gap, audio, callback, has_completed_conversion, stopping>>

StopJoin ==
  /\ stopper = "joining"
  /\ thread = "done"
  /\ stopper' = "joined"
  /\ UNCHANGED <<settingVars, formatVars, flowVars, playVars, threadVars, audio, callback,
                 has_completed_conversion, stopping>>

\* The worker is stopped: nothing needs to happen any more.
Stopped ==
  /\ stopper = "joined"
  /\ UNCHANGED vars
-----------------------------------------------------------------------------
AudioThread ==
  \/ \E fmt \in Formats, frames \in Callbacks : submit(fmt, frames)
  \/ \E fmt \in Formats, frames \in Callbacks : SubmitIgnored(fmt, frames)
  \/ ReceiveNothing
  \/ receive
  \/ ReceiveDone

ConversionThread ==
  \/ ThreadStops
  \/ ThreadBlocks
  \/ Capture
  \/ SettingsTooLong
  \/ ConversionFails
  \/ Stitch
  \/ DropBlock
  \/ AppendBlock
  \/ KeepPace
  \/ GrowBlock

StoppingThread == StopFlag \/ StopNotify \/ StopJoin

Next ==
  \/ AudioThread
  \/ ConversionThread
  \/ SpuriousWakeup
  \/ \E o \in Options : reset(o)
  \/ StoppingThread
  \/ Stopped

Spec == Init /\ [][Next]_vars

\* Threads that are running keep running: the conversion thread between its
\* waits (an exchange ends within its timeout), and a stop once it has begun.
\* Nobody has to deliver audio, reset, or begin to stop.
Fairness ==
  /\ WF_vars(ConversionThread)
  /\ WF_vars(StopNotify)
  /\ WF_vars(StopJoin)

FairSpec == Spec /\ Fairness
-----------------------------------------------------------------------------
Threads == {"ready", "blocked", "convert", "commit", "pace", "done"}
Captures == [rate : Nat, channels : Nat, generation : 0 .. Generations - 1, hop : Nat,
             first : BOOLEAN, fits : BOOLEAN]
Playbacks == [frames : Nat, rate : Nat, channels : Nat, generation : 0 .. Generations - 1]

\* Every variable has its type. The counts are the point: input and output never
\* go below zero, so no critical section takes samples that are not there.
TypeOK ==
  /\ options \in Options \cup {NoOptions}
  /\ input \in Nat
  /\ output \in Nat
  /\ sample_rate \in Nat
  /\ channels \in Nat
  /\ generation \in 0 .. Generations - 1
  /\ active_chunk_duration_ms \in Nat
  /\ startup_chunk_duration_ms \in Nat
  /\ maximum_chunk_duration_ms \in Nat
  /\ configured \in BOOLEAN
  /\ has_completed_conversion \in BOOLEAN
  /\ stopping \in BOOLEAN
  /\ discontinuity \in BOOLEAN
  /\ playback_started \in BOOLEAN
  /\ playback_gain \in BOOLEAN
  /\ thread \in Threads
  /\ captured \in Captures
  /\ tail \in Nat
  /\ tail_of \in {"none", "pending", "last", "lost"}
  /\ partner \in {"none", "pending", "last", "lost"}
  /\ gap \in BOOLEAN
  /\ audio \in {"idle", "submitted", "playing"}
  /\ callback \in Playbacks
  /\ stopper \in {"none", "flagged", "joining", "joined"}

\* Audio that waits for conversion stays under two hops and the look-ahead,
\* whatever block sizes, resets and format changes submit has to cope with.
InputBounded == input <= MaximumSamples(sample_rate, Hop)

\* Converted audio that waits for playback stays within two of the current hops.
\* The thread looks at the room when it captures and appends much later, and the
\* hop may change meanwhile; the trim to four hops in Impl::run is never needed.
OutputBounded == output <= 2 * Hop * channels

\* Neither side of the conversion thread falls behind without limit: what waits
\* for it and what it has made stay bounded by the hop of the moment.
BacklogsBounded == InputBounded /\ OutputBounded

\* If the thread blocks although there is work, whoever made the work still owes
\* a notify_one: receive after its second critical section, or stop.
NoLostWakeup ==
  thread = "blocked" /\ WorkReady => audio = "playing" \/ stopper = "flagged"

\* A block that will be appended was never cross-faded with the tail of a block
\* that listeners do not hear: one dropped at the commit, or cleared from output.
SeamlessSplice ==
  thread = "commit" /\ partner = "lost" => generation # captured.generation

\* Audio lost between the assembler's history and the front of input is always
\* announced by discontinuity, so no window joins audio that was never adjacent.
HistoryContiguous == gap => discontinuity

\* Playback that waits for its initial output and a thread that waits for room in
\* output never wait for each other, even after the block has grown.
NoFlowDeadlock ==
  ~playback_started /\ ~StartupFilled => OutputRoom

\* A stream that has not started playing has no gain: its first samples fade in
\* even when the callback that finishes last belongs to the stream before.
SilentUntilStarted == playback_gain => playback_started

\* The tail that stitch reads has the size of the overlap it is about to fade, or
\* is empty: stitch indexes it without asking.
TailFitsOverlap ==
  thread = "convert" => tail \in {0, overlap_frames(captured.rate) * captured.channels}

\* A window always fits the buffer of a request, into which it is copied before
\* rvc_ipc_convert looks at its size.
RequestFits ==
  thread = "convert" =>
    window_frames(captured.rate, captured.hop) * kPcmBytes <= MaxInputBytes

\* What is indexed and copied without a look at its size has the right one, after
\* any sequence of format changes, resets and grown blocks.
BuffersFit == TailFitsOverlap /\ RequestFits

\* What a step brings to input and takes from it, and adds to output and plays.
Brought ==
  IF audio = "idle" /\ audio' = "submitted" /\ configured /\ ~stopping
  THEN callback'.frames ELSE 0
Taken  == IF thread = "ready" /\ thread' = "convert" THEN captured'.hop ELSE 0
Added  == IF thread = "commit" /\ thread' = "pace" THEN captured.hop * captured.channels ELSE 0
Played ==
  IF audio = "submitted" /\ audio' = "playing" THEN callback.frames * callback.channels ELSE 0

\* No audio is lost as long as the generation stays. submit may discard input, and
\* Impl::run may trim output to make room for a block that was captured long ago and
\* whose hop need not be the current one; neither goes unnoticed.
Conserves ==
  generation' = generation =>
    /\ input' = input + Brought - Taken
    /\ output' = output + Added - Played

AudioIsConserved == [][Conserves]_vars

\* stop returns: the thread comes back from whatever it is doing and sees the flag.
StopJoins == stopper = "flagged" ~> stopper = "joined"

\* Conversion starts at the initial block duration ("conversion starts at %d ms
\* and can grow to %d ms", rvc-filter.cpp:273): until the first conversion after
\* a reset completes, the block has not grown.
FirstBlockAtInitial ==
  ~has_completed_conversion => active_chunk_duration_ms = startup_chunk_duration_ms
-----------------------------------------------------------------------------
\* What makes the properties above inductive: how the monitor relates to the
\* block in flight, between the capture and the commit.
InFlight == thread \in {"convert", "commit"}
Current  == generation = captured.generation

\* As long as nothing started a new generation, the monitor still looks as it did
\* when the block was captured, and has room for it.
FlightMatches ==
  InFlight /\ Current =>
    /\ captured.rate = sample_rate
    /\ captured.channels = channels
    /\ captured.hop = Hop
    /\ output <= captured.hop * captured.channels

\* A new generation is a discontinuity, and so is a tail whose block is lost,
\* unless no block follows because the worker stops.
StaleIsAnnounced == InFlight /\ ~Current => discontinuity
LostIsAnnounced ==
  /\ tail_of = "lost" => discontinuity \/ stopping
  /\ thread = "convert" /\ tail_of = "lost" => ~Current

TailMatches == ~discontinuity => tail \in {0, overlap_frames(sample_rate) * channels}

PlayingHasStarted == audio = "playing" /\ GainIsCurrent => playback_started

\* Blocks only grow, and output is made of whole ones until playback starts.
WholeBlocks ==
  /\ startup_chunk_duration_ms <= active_chunk_duration_ms
  /\ ~playback_started => output = 0 \/ output >= StartupHop * channels

\* The invariant by which the properties are proved: whatever reset, submit and
\* the thread's own growth do meanwhile, a block that is still wanted fits.
StreamInv ==
  /\ FlightMatches
  /\ StaleIsAnnounced
  /\ LostIsAnnounced
  /\ TailMatches
  /\ PlayingHasStarted
  /\ WholeBlocks
=============================================================================
