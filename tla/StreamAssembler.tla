-------------------------- MODULE StreamAssembler --------------------------
(***************************************************************************)
(* StreamAssembler of the filter and StreamingResampler,                   *)
(* StreamingHighpassFilter of the worker process: what turns a stream into *)
(* windows that overlap, and windows back into a stream.                   *)
(*                                                                         *)
(* A sample is its position in the stream, so that a result tells where    *)
(* every sample of it came from: filters and voice conversion change how a *)
(* sample sounds, and delay it, but it remains the sample at its position. *)
(* No two positions sound alike, hence equal content is equal positions,   *)
(* and the correlation of two slices is best where they are equal.         *)
(***************************************************************************)
EXTENDS StreamTiming, Sequences

Silence == 0
Mixed   == -1     \* two positions heard at once, or a sample nothing is known of

First(s, n) == SubSeq(s, 1, n)
Final(s, n) == SubSeq(s, Len(s) - n + 1, Len(s))
Drop(s, n)  == SubSeq(s, n + 1, Len(s))
Least(a, b) == IF a <= b THEN a ELSE b
-----------------------------------------------------------------------------
\* StreamAssembler::reset.
NoStream == [history |-> <<>>, tail |-> <<>>]

History(stream, context) ==
  IF Len(stream.history) = context THEN stream.history
  ELSE [i \in 1 .. context |-> Silence]

\* The history that precedes the next window: what precedes its first new sample.
NextHistory(result, hop, context) == SubSeq(result, hop + 1, hop + context)

\* StreamAssembler::window: the history, then the input. The history moves on by
\* a hop, whatever becomes of the window.
window(stream, input, hop, context) ==
  LET result == History(stream, context) \o input
  IN  [result |-> result,
       stream |-> [stream EXCEPT !.history = NextHistory(result, hop, context)]]
-----------------------------------------------------------------------------
Slice(converted, from, n) == SubSeq(converted, from + 1, from + n)

\* Mutant: the last shift is not tried.
OffsetsShort(tail, converted, context, overlap, search) ==
  LET exact == {shift \in 0 .. search - 1 :
                  Slice(converted, context + shift, overlap) = tail}
  IN  IF Len(tail) # overlap THEN {0} ELSE IF exact = {} THEN 0 .. search ELSE exact

\* Where the search may find the tail: at the first shift where it is, and
\* anywhere if it is nowhere. Without a tail there is no search.
Offsets(tail, converted, context, overlap, search) ==
  LET exact == {shift \in 0 .. search :
                  Slice(converted, context + shift, overlap) = tail}
  IN  IF Len(tail) # overlap THEN {0}
      ELSE IF exact = {} THEN 0 .. search
      ELSE {shift \in exact : \A other \in exact : shift <= other}

\* The cross-fade, in which both are heard, unless they are the same or one is silent.
Faded(previous, own) == IF previous \in {own, Silence} THEN own ELSE Mixed

\* What follows the block in the window, to be faded into the next block.
NextTail(converted, hop, context, overlap, offset) ==
  Slice(converted, context + offset + hop, overlap)

\* StreamAssembler::stitch, for one of the offsets; too short a window fails.
Stitches(converted, hop, context, overlap, search) ==
  overlap >= 2 /\ Len(converted) >= context + hop + overlap + search

stitch(stream, converted, hop, context, overlap, offset) ==
  LET own         == Slice(converted, context + offset, hop)
      previous(i) == IF stream.tail = <<>> THEN Silence ELSE stream.tail[i]
  IN  [result |-> [i \in 1 .. hop |-> IF i <= overlap
                                      THEN Faded(previous(i), own[i])
                                      ELSE own[i]],
       stream |-> [stream EXCEPT !.tail = NextTail(converted, hop, context, overlap, offset)]]
-----------------------------------------------------------------------------
\* A StreamingResampler: the samples that the stream of the library still holds
\* back, and the previous window before and after. The library (soxr, quality HQ)
\* returns what it has finished, so how much it holds back differs from call to call,
\* and is lag at most. A lag of 0 stands for equal rates. Durations are the same on
\* both sides of a resampler, so lengths are too.
NewResampler == [held |-> <<>>, previous_input |-> <<>>, previous_output |-> <<>>]

\* Mutant: half of the overlap is looked for.
DetectedOverlapHalved(previous, samples, rate) ==
  LET n == Least(Least(Len(previous), Len(samples)), rate \div 20)
  IN  IF Final(previous, n) = First(samples, n) THEN n ELSE 0

\* The overlap found by content, 100 ms at most: 0 if the windows are not adjacent.
DetectedOverlap(previous, samples, rate) ==
  LET n == Least(Least(Len(previous), Len(samples)), rate \div 10)
  IN  IF Final(previous, n) = First(samples, n) THEN n ELSE 0

\* Mutant: a result that is too long remains so.
NotCut(result, size) ==
  [i \in 1 .. (IF Len(result) < size THEN size ELSE Len(result)) |->
     IF result = <<>> THEN Silence ELSE result[Least(i, Len(result))]]

\* np.pad(mode="edge"), or the truncation to the expected size.
Fitted(result, size) ==
  [i \in 1 .. size |-> IF result = <<>> THEN Silence ELSE result[Least(i, Len(result))]]

\* StreamingResampler.resample, after which the library holds back so many samples
\* if it has been given as many. An overlap the caller states is believed; else it
\* is detected. What overlaps is repeated from the previous result, and only the
\* rest is fed to the library; without an overlap its stream starts anew.
resample(resampler, samples, rate, lag, holds, stated) ==
  LET known   == Least(Least(stated, Len(resampler.previous_input)), Len(samples))
      overlap == IF known > 0 THEN known
                 ELSE DetectedOverlap(resampler.previous_input, samples, rate)
      fed     == (IF overlap > 0 THEN resampler.held ELSE <<>>) \o Drop(samples, overlap)
      kept    == Least(holds, Len(fed))
      result  == Fitted(Final(resampler.previous_output, overlap) \o First(fed, Len(fed) - kept),
                        Len(samples))
  IN  IF lag = 0 THEN [result |-> samples, resampler |-> resampler]
      ELSE [result |-> result,
            resampler |-> [held |-> Final(fed, kept), previous_input |-> samples,
                           previous_output |-> result]]

\* StreamingHighpassFilter.filter goes on with its state; else it starts anew.
\* 1600 samples at its rate, 16 kHz, are 100 ms, too.
FilterContinues(previous_input, samples, rate) ==
  DetectedOverlap(previous_input, samples, rate) > 0
=============================================================================
