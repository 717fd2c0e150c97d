----------------------------- MODULE VoiceStream -----------------------------
(***************************************************************************)
(* The way of the audio through both processes, by positions: the          *)
(* conversion thread takes windows out of input, the worker process        *)
(* resamples and filters them next to those it had before, and what comes  *)
(* back is stitched to the block before. Each side keeps state about the   *)
(* last window it saw. What makes it hard is that the two need not have    *)
(* seen the same one: conversions fail before or after the state of the    *)
(* worker process has moved, requests that the filter gave up are served   *)
(* later, in any order, and settings drop the models with their streams    *)
(* and the locks under which these are used.                               *)
(***************************************************************************)
EXTENDS StreamAssembler

CONSTANTS
  Rate,             \* samples per second
  Durations,        \* the lengths of a block in ms, as it grows
  Skips,            \* how many samples may be lost at a discontinuity
  Lags,             \* what the resamplers hold back at most, [input, output], 0 at equal rates
  Shortfalls,       \* by how much the model's result may be shorter than its window
  MaxWindows,       \* bound: windows taken
  MaxGenerations    \* bound: generations

Context   == context_frames(Rate)
Lookahead == lookahead_frames(Rate)
Overlap   == overlap_frames(Rate)
Search    == search_frames(Rate)

\* A resampler never holds back more than the look-ahead.
ASSUME VoiceStreamAssumption ==
  /\ Rate \in Nat \ {0}
  /\ Durations \subseteq Nat \ {0}
  /\ Skips \subseteq Nat
  /\ Lags \subseteq [input : 0 .. Lookahead, output : 0 .. Lookahead]
  /\ Shortfalls \subseteq Nat
  /\ MaxWindows \in Nat
  /\ MaxGenerations \in Nat \ {0}

VARIABLES
  lags,
  \* The monitor: the position at the front of input, the generation, the flag.
  front, generation, discontinuity, duration,
  \* The conversion thread: where it is, its assembler, and its locals.
  thread, assembler, captured, converted,
  \* The worker process: requests it has not served, and its stream.
  requests, server,
  \* Ghosts: where the generation began, what is heard, and whether it is well.
  began, block, disturbed

monitorVars == <<front, generation, discontinuity, duration>>
threadVars  == <<thread, assembler, captured, converted>>
serverVars  == <<requests, server>>
ghostVars   == <<began, block, disturbed>>
vars == <<lags, monitorVars, threadVars, serverVars, ghostVars>>

NoCapture == [number |-> 0, generation |-> 0, first |-> 0, hop |-> 0]
Hop(ms) == conversion_frame_count(Rate, ms)

\* The context and the look-ahead are the 100 ms by which the worker process looks
\* for an overlap, and there is a cross-fade: true of every rate that OBS offers.
ASSUME RateAssumption ==
  /\ Context + Lookahead = Rate \div 10
  /\ Overlap >= 2

\* The search covers what is held back of the output, and all that is held back
\* stays in what has to come back of the look-ahead.
ASSUME LagsAssumption ==
  \A lag \in Lags : lag.output <= Search /\ lag.input + lag.output < Overlap + Search

\* A block is no shorter than its look-ahead: durations are at least 250 ms.
ASSUME BlocksAssumption ==
  \A ms \in Durations : Hop(ms) = 0 \/ Hop(ms) >= Lookahead

\* AudioStreamSchema(generation), with a new filter. The last fields are ghosts: did
\* the last window go on where the one before had ended, and have two conversions
\* used the stream at once?
NewStream(g) ==
  [generation |-> g, input_resampler |-> NewResampler, output_resampler |-> NewResampler,
   filter_input |-> <<>>, continued |-> FALSE, tangled |-> FALSE]

\* No model has a stream of this filter.
Forgotten == NewStream(0)

\* A stream that two conversions have used at once. What it holds is any mixture of
\* their windows; nothing is said of it.
TangledStream(g) == [NewStream(g) EXCEPT !.tangled = TRUE]

Init ==
  /\ lags \in Lags
  /\ front = 1
  /\ generation = 1
  /\ discontinuity = TRUE
  /\ duration \in Durations
  /\ thread = "ready"
  /\ assembler = NoStream
  /\ captured = NoCapture
  /\ converted = <<>>
  /\ requests = {}
  /\ server = Forgotten
  /\ began = 1
  /\ block = <<>>
  /\ disturbed = FALSE
-----------------------------------------------------------------------------
\* A reset, a new format, or discarded input: a new generation, whose audio is
\* later than all before it.
Discontinue ==
  /\ generation < MaxGenerations
  /\ generation' = generation + 1
  /\ discontinuity' = TRUE
  /\ \E skip \in Skips : front' = front + skip /\ began' = front + skip
  /\ duration' \in Durations
  /\ block' = <<>>
  /\ disturbed' = FALSE
  /\ UNCHANGED <<lags, threadVars, serverVars>>

\* The assembler when a window is captured: new after a discontinuity.
AssemblerAtCapture == IF discontinuity THEN NoStream ELSE assembler

\* Impl::run, from the capture to the request: the window is a hop and its
\* look-ahead, of which the look-ahead stays in input.
Capture ==
  LET hop    == Hop(duration)
      input  == [i \in 1 .. hop + Lookahead |-> front + i - 1]
      taken  == window(AssemblerAtCapture, input, hop, Context)
      number == captured.number + 1
  IN  /\ thread = "ready"
      /\ captured.number < MaxWindows
      /\ hop > 0
      /\ front' = front + hop
      /\ discontinuity' = FALSE
      /\ assembler' = taken.stream
      /\ captured' = [number |-> number, generation |-> generation, first |-> front,
                    hop |-> hop]
      /\ requests' = requests \cup {[number |-> number, generation |-> generation,
                                     window |-> taken.result,
                                     overtaken |-> FALSE, tangled |-> FALSE]}
      /\ thread' = "waiting"
      /\ UNCHANGED <<lags, generation, duration, converted, server, ghostVars>>
-----------------------------------------------------------------------------
\* Mutant: convert keeps the stream of another generation.
StreamOfAny(request) == IF server = Forgotten THEN NewStream(request.generation) ELSE server

\* RVCInference.convert: a new generation has a new stream.
StreamOf(request) ==
  IF server.generation = request.generation THEN server
  ELSE NewStream(request.generation)

\* Mutant: the results are said to overlap as far as their windows do.
StatedOverlapWhole(stream) == Least(Len(stream.filter_input), Rate \div 10)

\* What infer_window states as the overlap of its results: 40 ms, or nothing
\* before the filter has seen a window.
StatedOverlap(stream) == Least(Len(stream.filter_input), (Rate * 40) \div 1000)

\* infer_window up to the inference: resample to 16 kHz, and filter. Content is
\* what tells both where the windows overlap.
Prepared(stream, samples, holds) ==
  LET resampled == resample(stream.input_resampler, samples, Rate, lags.input, holds, 0)
  IN  [result |-> resampled.result,
       stream |-> [stream EXCEPT
                     !.input_resampler = resampled.resampler,
                     !.filter_input = resampled.result,
                     !.continued = FilterContinues(stream.filter_input, resampled.result, Rate)]]

\* The rest: the model makes a sample of every sample, but only as far as HuBERT has
\* features, which end before the window does. That is resampled to the rate of the
\* request.
Inferred(stream, prepared, short, holds) ==
  LET inferred  == First(prepared.result, Len(prepared.result) - short)
      resampled == resample(stream.output_resampler, inferred, Rate, lags.output, holds,
                            StatedOverlap(stream))
  IN  [result |-> resampled.result,
       stream |-> [prepared.stream EXCEPT !.output_resampler = resampled.resampler]]

\* An answer nobody waits for is lost, but its window has moved the stream on.
Awaited(request) == thread = "waiting" /\ request.number = captured.number

Answer(request, result) ==
  IF Awaited(request) THEN converted' = result /\ thread' = "answered"
  ELSE UNCHANGED <<converted, thread>>

\* One request is served under the lock of its model, with nobody else at its stream.
\* It may fail before or after the inference.
Serve(request) ==
  LET stream == StreamOf(request)
  IN  /\ ~stream.tangled
      /\ \/ UNCHANGED server /\ Answer(request, <<>>)
         \/ \E input \in 0 .. lags.input :
              LET prepared == Prepared(stream, request.window, input)
              IN  \/ server' = prepared.stream /\ Answer(request, <<>>)
                  \/ \E output \in 0 .. lags.output, short \in Shortfalls :
                       LET inferred == Inferred(stream, prepared, short, output)
                       IN  server' = inferred.stream /\ Answer(request, inferred.result)
      /\ requests' = requests \ {request}
      /\ disturbed' = (disturbed \/ ~Awaited(request))
      /\ UNCHANGED <<lags, monitorVars, assembler, captured, began, block>>

\* convert looks its lock up before it waits for it, and the model after. So two
\* conversions of one stream may be at work at once, one with a lock from before a
\* reset that overtook it and one with a lock from after it.
IsTangled(request) ==
  \/ request.tangled
  \/ StreamOf(request).tangled
  \/ \E other \in requests \ {request} :
       /\ other.generation = request.generation
       /\ request.overtaken \/ other.overtaken

\* One of them ends: its answer has the length of the window, if it is one, and the
\* stream, if it is still that of the model, is of no use.
Tangle(request) ==
  /\ IsTangled(request)
  /\ \/ Answer(request, [i \in DOMAIN request.window |-> Mixed])
     \/ Answer(request, <<>>)
  /\ server' \in {server, TangledStream(request.generation)}
  /\ requests' = {[other EXCEPT !.tangled = @ \/ other.generation = request.generation] :
                    other \in requests \ {request}}
  /\ disturbed' = TRUE
  /\ UNCHANGED <<lags, monitorVars, assembler, captured, began, block>>

\* Settings of any filter drop all models and locks, or sixteen other streams drop
\* this one.
Forget ==
  /\ server # Forgotten \/ requests # {}
  /\ server' = Forgotten
  /\ requests' = {[request EXCEPT !.overtaken = TRUE] : request \in requests}
  /\ disturbed' = TRUE
  /\ UNCHANGED <<lags, monitorVars, threadVars, began, block>>
-----------------------------------------------------------------------------
\* Mutant: a failure keeps the tail.
AssemblerAfterFailureKept == assembler

AssemblerAfterFailure == NoStream

\* The exchange timed out or failed, or its answer cannot be used: the assembler
\* is reset, but the generation, and so the stream of the worker process, stays.
ConversionFails ==
  /\ \/ thread = "waiting"
     \/ /\ thread = "answered"
        /\ \/ converted = <<>>
           \/ ~Stitches(converted, captured.hop, Context, Overlap, Search)
  /\ assembler' = AssemblerAfterFailure
  /\ converted' = <<>>
  /\ disturbed' = TRUE
  /\ thread' = "ready"
  /\ UNCHANGED <<lags, monitorVars, captured, serverVars, began, block>>

\* stitch, and the second critical section: the block is heard unless there is a
\* new generation. Then it may have grown.
Stitched(offset) == stitch(assembler, converted, captured.hop, Context, Overlap, offset)

CanStitch ==
  /\ thread = "answered"
  /\ Stitches(converted, captured.hop, Context, Overlap, Search)
  /\ thread' = "ready"
  /\ converted' = <<>>
  /\ UNCHANGED <<lags, front, generation, discontinuity, captured, serverVars, began,
                 disturbed>>

Stitch(heard) ==
  \E offset \in Offsets(assembler.tail, converted, Context, Overlap, Search) :
    /\ assembler' = Stitched(offset).stream
    /\ block' = IF heard THEN Stitched(offset).result ELSE block

DropBlock ==
  /\ CanStitch
  /\ generation # captured.generation
  /\ Stitch(FALSE)
  /\ UNCHANGED duration

AppendBlock ==
  /\ CanStitch
  /\ generation = captured.generation
  /\ Stitch(TRUE)
  /\ duration' \in {ms \in Durations : ms >= duration}
-----------------------------------------------------------------------------
Next ==
  \/ Discontinue
  \/ Capture
  \/ \E request \in requests : Serve(request) \/ Tangle(request)
  \/ Forget
  \/ ConversionFails
  \/ DropBlock
  \/ AppendBlock

Spec == Init /\ [][Next]_vars
-----------------------------------------------------------------------------
\* Every variable has its type, and every buffer its size: an answer is never longer
\* than its window, whatever the resamplers hold back, repeat, pad and cut.
TypeOK ==
  /\ lags \in Lags
  /\ front \in Nat
  /\ generation \in 1 .. MaxGenerations
  /\ discontinuity \in BOOLEAN
  /\ duration \in Durations
  /\ thread \in {"ready", "waiting", "answered"}
  /\ Len(assembler.history) \in {0, Context}
  /\ Len(assembler.tail) \in {0, Overlap}
  /\ Len(converted) <= window_frames(Rate, captured.hop)
  /\ captured.number \in 0 .. MaxWindows
  /\ captured.generation \in 0 .. generation
  /\ \A request \in requests : request.number <= captured.number
  /\ server.generation \in 0 .. generation
  /\ disturbed \in BOOLEAN

\* What is heard of a stream is audio of that stream. Neither the stream of the
\* worker process, nor the assembler, nor a late answer carries a sample over
\* from before the discontinuity, whatever fails and in whatever order.
NothingFromBefore ==
  \A i \in DOMAIN block : block[i] \in {Silence, Mixed} \/ block[i] >= began

\* As long as nothing disturbs a stream, every window after its first one goes on
\* in the worker process where the one before ended: no filter starts anew, which
\* would be a click in each block.
WindowsContinue ==
  thread = "answered" /\ converted # <<>> /\ block # <<>> /\ ~disturbed => server.continued

\* The tail that is faded into a block is the neighbour of that block: it is at
\* most the search and what the resamplers hold back away from the position at which
\* the block begins, so a window that failed in between has taken its tail with it.
TailAdjoins ==
  thread = "answered" =>
    \A i \in DOMAIN assembler.tail :
      assembler.tail[i] # Mixed =>
        assembler.tail[i] - (captured.first + i - 1) \in -(lags.input + lags.output) .. Search

\* The voice stays where it belongs. A sample that is heard alone, behind what the
\* resampler held back, is at most the search and what both hold back away from the
\* position that it is played for: whatever fails, no offset of the search, no window
\* that is repeated from an older result and nothing that a resampler holds back,
\* pads or cuts adds up to a drift.
InPlace ==
  AppendBlock =>
    \A i \in DOMAIN block' :
      i > lags.output /\ block'[i] # Mixed =>
        block'[i] - (captured.first + i - 1) \in -(lags.input + lags.output) .. Search

VoiceStaysInPlace == [][InPlace]_vars

\* The stream that is heard is the one HeardStream promises.
Heard == INSTANCE HeardStream WITH Fade <- Overlap, slack <- lags.input
HeardAsPromised == Heard!Spec
=============================================================================
