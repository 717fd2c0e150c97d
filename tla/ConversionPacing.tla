------------------------- MODULE ConversionPacing -------------------------
(***************************************************************************)
(* A ConversionWorker in time. Nothing but the audio callbacks measures    *)
(* time in a filter that runs, so they are the clock: each one brings      *)
(* Callback frames, and a conversion lasts a number of them. One filter,   *)
(* one format, one configuration; the inference takes a fixed overhead     *)
(* and a share of the audio it converts, and its answer has a length. The  *)
(* thread is fast compared with a callback except while it converts.       *)
(*                                                                         *)
(* Every step is a step of ConversionWorker: the question here is what its *)
(* rules amount to once somebody has to be in time.                        *)
(***************************************************************************)
EXTENDS ConversionWorker

CONSTANTS
  Overheads,        \* callbacks that a conversion lasts, whatever its size
  Load,             \* and its share of the length of the hop, in percent
  Missing,          \* by how many of its frames the network may fall short of a window
  ResampleRate,     \* options.resample_sr: the rate of the answer, 0 for that of the input
  ModelRate,        \* vc.tgt_sr
  MaxOutputBytes    \* Settings.max_output_bytes, 768 * 1024 in the build

ASSUME PacingAssumption ==
  /\ Overheads \subseteq Nat
  /\ Load \in Nat
  /\ Missing \subseteq Nat
  /\ ResampleRate \in Nat
  /\ ModelRate \in Nat \ {0}
  /\ MaxOutputBytes \in Nat

VARIABLES
  overhead,         \* of this worker process
  left              \* callbacks until the answer arrives

pacingVars == <<vars, overhead, left>>

PacingInit ==
  /\ Init
  /\ overhead \in Overheads
  /\ left = 0

Callback == CHOOSE frames \in Callbacks : TRUE

\* Callbacks that pass between the request for a hop and its answer.
ConversionCallbacks(hop) == overhead + (hop * Load) \div (100 * Callback)

\* realtime_factor > 1.0
SlowerThanRealtime(hop) == ConversionCallbacks(hop) * Callback > hop

\* sizeof(float): the audio that handle measures is not yet PCM.
kFloatBytes == 4

\* "Converted audio exceeds the IPC buffer."
ExceedsResponse(frames) == frames * kFloatBytes > MaxOutputBytes

\* The rate at which HuBERT listens, pipeline.window (10 ms of it), and how many
\* frames of the network a second holds.
kInferenceRate   == 16000
kNetworkWindow   == 160
kNetworkRate     == 100
kMinResampleRate == 16000

\* round(a / b), which rounds halves to even.
Rounded(a, b) ==
  LET floor == a \div b
      twice == 2 * (a % b)
  IN  IF twice < b \/ (twice = b /\ floor % 2 = 0) THEN floor ELSE floor + 1

\* round(frames * 16000 / rate): a window at the rate of inference. (The product
\* is taken apart, here and in DecodedFrames, to fit the 32 bits of TLC.)
InferenceSamples(rate, frames) ==
  kInferenceRate * (frames \div rate)
    + Rounded(kInferenceRate * (frames % rate), rate)

\* length = min(features.shape[1], len(samples) // pipeline.window)
NetworkFrames(rate, hop, missing) ==
  LET length == InferenceSamples(rate, window_frames(rate, hop)) \div kNetworkWindow
  IN  IF missing <= length THEN length - missing ELSE 0

\* The filter asks for the rate of its input unless resample_sr is set; a rate
\* below 16 kHz leaves the answer at that of the model.
AnswerRate(rate) ==
  LET resample_sr == IF ResampleRate > 0 THEN ResampleRate ELSE rate
  IN  IF resample_sr >= kMinResampleRate THEN resample_sr ELSE ModelRate

\* The samples that the worker process makes of a window ...
AnswerFrames(rate, hop, missing) ==
  Rounded(NetworkFrames(rate, hop, missing) * AnswerRate(rate), kNetworkRate)

\* ... and the frames that decode_to_input_format makes of them.
DecodedFrames(rate, hop, answer) ==
  LET resampled == IF rate = AnswerRate(rate) THEN answer
                   ELSE rate * (answer \div AnswerRate(rate))
                          + (rate * (answer % AnswerRate(rate))) \div AnswerRate(rate)
      window    == window_frames(rate, hop)
  IN  IF resampled < window THEN resampled ELSE window

Answered == thread = "convert" /\ left = 0
-----------------------------------------------------------------------------
Configure ==
  /\ ~configured
  /\ \E o \in Options : reset(o)
  /\ UNCHANGED <<overhead, left>>

\* A callback comes when the thread has nothing to do at once.
Submit ==
  /\ configured
  /\ thread = "blocked" \/ (thread = "convert" /\ left > 0)
  /\ \E fmt \in Formats, frames \in Callbacks : submit(fmt, frames)
  /\ left' = IF thread = "convert" THEN left - 1 ELSE left
  /\ UNCHANGED overhead

Receive ==
  /\ ReceiveNothing \/ receive \/ ReceiveDone
  /\ UNCHANGED <<overhead, left>>

Request ==
  /\ Capture
  /\ left' = ConversionCallbacks(Hop)
  /\ UNCHANGED overhead

Answer ==
  /\ Answered
  /\ \E missing \in Missing :
       LET answer  == AnswerFrames(captured.rate, captured.hop, missing)
           decoded == DecodedFrames(captured.rate, captured.hop, answer)
       IN  IF \/ ExceedsResponse(answer)
              \/ decoded < stitch_frames(captured.rate, captured.hop)
           THEN ConversionFails
           ELSE Stitch
  /\ UNCHANGED <<overhead, left>>

Block ==
  /\ ThreadBlocks
  /\ UNCHANGED <<overhead, left>>

Commit ==
  /\ DropBlock \/ AppendBlock
  /\ UNCHANGED <<overhead, left>>

Pace ==
  /\ thread = "pace"
  /\ IF /\ SlowerThanRealtime(captured.hop)
        /\ ~captured.first
        /\ active_chunk_duration_ms < maximum_chunk_duration_ms
     THEN GrowBlock
     ELSE KeepPace
  /\ UNCHANGED <<overhead, left>>

PacingNext ==
  \/ Configure
  \/ Submit
  \/ Receive
  \/ Request
  \/ Answer
  \/ Block
  \/ Commit
  \/ Pace

\* Audio keeps coming, the worker process answers, and the thread is scheduled.
PacingSpec == PacingInit /\ [][PacingNext]_pacingVars /\ WF_pacingVars(PacingNext)
-----------------------------------------------------------------------------
\* Converted audio is heard again and again: nothing in the rules about room,
\* overflow, generations and growth brings a worker to a standstill.
KeepsPlaying == []<>(audio = "playing")

\* "Inference slower than realtime; increasing conversion block" (rvc-filter-
\* conversion.cpp:440): the block grows until it is fast enough or the largest.
SlowConversionGrows ==
  <>[](~SlowerThanRealtime(Hop) \/ active_chunk_duration_ms = maximum_chunk_duration_ms)

\* However far the block has grown ("can grow to %d ms", rvc-filter.cpp:273), the
\* worker process does not reject the audio that it was asked for, as long as the
\* network makes of the window.
GrownBlocksAreAnswered ==
  Answered =>
    \A missing \in Missing :
      ~ExceedsResponse(AnswerFrames(captured.rate, captured.hop, missing))
=============================================================================
