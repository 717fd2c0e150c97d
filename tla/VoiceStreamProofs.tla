------------------------- MODULE VoiceStreamProofs -------------------------
(***************************************************************************)
(* The stream at any rate, for any durations and lags, however much of it  *)
(* the resamplers hold back and the model lacks, whatever fails.           *)
(*                                                                         *)
(* First, nothing from before a discontinuity is heard after it. The       *)
(* operators of the stream make sequences over a set S of samples out of   *)
(* sequences over S, if only S has silence and mixed samples, and every    *)
(* index is in range. Taken for all samples this is the typing; for the    *)
(* samples of the generation, it shows that the state which belongs to a   *)
(* generation has none but its own.                                        *)
(*                                                                         *)
(* Then, which positions are where: the shape of every window, result,     *)
(* answer and tail in any state, and, while nothing disturbs the stream,   *)
(* that both processes know the end of the same window. With the latter,   *)
(* the resamplers and the filter go on, an answer goes on behind what the  *)
(* output resampler held back before it, the search finds the tail there   *)
(* and nowhere before, and what is heard is HeardStream.                   *)
(***************************************************************************)
EXTENDS VoiceStream, StreamTimingProofs, SequenceTheorems

\* Samples of a stream that began at a position, or of any.
Own(from) == {Silence, Mixed} \cup {p \in Nat : p >= from}
Samples   == Own(0)

\* A function on 1 .. n is a sequence of length n.
LEMMA FunctionIsSequence ==
  ASSUME NEW S, NEW n \in Nat, NEW f \in [1 .. n -> S]
  PROVE  f \in Seq(S) /\ Len(f) = n
  OBVIOUS

\* A part of a sequence that lies inside of it.
LEMMA PartProperties ==
  ASSUME NEW S, NEW s \in Seq(S), NEW m \in Nat \ {0}, NEW n \in Int, n <= Len(s), m <= n + 1
  PROVE  SubSeq(s, m, n) \in Seq(S) /\ Len(SubSeq(s, m, n)) = n - m + 1
<1>1. \A i \in m .. n : s[i] \in S
  BY LenProperties, ElementOfSeq
<1>2. /\ SubSeq(s, m, n) \in Seq(S)
      /\ Len(SubSeq(s, m, n)) = IF m <= n THEN n - m + 1 ELSE 0
  BY <1>1, SubSeqProperties
<1> QED
  BY <1>2

\* What is first, final or left of a sequence, as long as it is that long; and
\* fewer than none are none.
LEMMA EndsProperties ==
  ASSUME NEW S, NEW s \in Seq(S), NEW n \in Int, n <= Len(s)
  PROVE  /\ First(s, n) \in Seq(S) /\ Len(First(s, n)) = IF n > 0 THEN n ELSE 0
         /\ n >= 0 => /\ Final(s, n) \in Seq(S) /\ Len(Final(s, n)) = n
                      /\ Drop(s, n) \in Seq(S) /\ Len(Drop(s, n)) = Len(s) - n
<1>1. Len(s) \in Nat
  BY LenProperties
<1>2. First(s, n) \in Seq(S) /\ Len(First(s, n)) = IF n > 0 THEN n ELSE 0
  <2>1. \A i \in 1 .. n : s[i] \in S
    BY <1>1, ElementOfSeq
  <2>2. /\ SubSeq(s, 1, n) \in Seq(S)
        /\ Len(SubSeq(s, 1, n)) = IF 1 <= n THEN n - 1 + 1 ELSE 0
    BY <2>1, SubSeqProperties
  <2> QED
    BY <2>2 DEF First
<1>3. ASSUME n >= 0
      PROVE  /\ Final(s, n) \in Seq(S) /\ Len(Final(s, n)) = n
             /\ Drop(s, n) \in Seq(S) /\ Len(Drop(s, n)) = Len(s) - n
  <2> DEFINE m == Len(s) - n + 1
             k == n + 1
             l == Len(s)
  <2>1. m \in Nat \ {0} /\ k \in Nat \ {0} /\ l \in Int /\ m <= l + 1 /\ k <= l + 1 /\ l <= Len(s)
    BY <1>1, <1>3
  <2>2. Final(s, n) = SubSeq(s, m, l) /\ Drop(s, n) = SubSeq(s, k, l)
    BY DEF Final, Drop
  <2>3. l - m + 1 = n /\ l - k + 1 = Len(s) - n
    BY <1>1
  <2> HIDE DEF m, k, l
  <2>4. SubSeq(s, m, l) \in Seq(S) /\ Len(SubSeq(s, m, l)) = l - m + 1
    BY <2>1, PartProperties
  <2>5. SubSeq(s, k, l) \in Seq(S) /\ Len(SubSeq(s, k, l)) = l - k + 1
    BY <2>1, PartProperties
  <2> QED
    BY <2>2, <2>3, <2>4, <2>5
<1> QED
  BY <1>2, <1>3

\* A slice that lies inside of what was converted.
LEMMA SliceProperties ==
  ASSUME NEW S, NEW s \in Seq(S), NEW from \in Nat, NEW n \in Nat, from + n <= Len(s)
  PROVE  Slice(s, from, n) \in Seq(S) /\ Len(Slice(s, from, n)) = n
<1> DEFINE m == from + 1
           k == from + n
<1>1. /\ m \in Nat \ {0} /\ k \in Int /\ k <= Len(s) /\ m <= k + 1 /\ k - m + 1 = n
      /\ Slice(s, from, n) = SubSeq(s, m, k)
  BY LenProperties DEF Slice
<1> HIDE DEF m, k
<1>2. SubSeq(s, m, k) \in Seq(S) /\ Len(SubSeq(s, m, k)) = k - m + 1
  BY <1>1, PartProperties
<1> QED
  BY <1>1, <1>2

\* What is fitted has the size, and no sample that was not there but silence.
LEMMA FittedProperties ==
  ASSUME NEW S, Silence \in S, NEW s \in Seq(S), NEW n \in Nat
  PROVE  Fitted(s, n) \in Seq(S) /\ Len(Fitted(s, n)) = n
<1> DEFINE Value(i) == IF s = <<>> THEN Silence ELSE s[Least(i, Len(s))]
           f == [i \in 1 .. n |-> Value(i)]
<1>1. ASSUME NEW i \in 1 .. n PROVE Value(i) \in S
  <2>1. CASE s = <<>>
    BY <2>1
  <2>2. CASE s # <<>>
    <3>1. Len(s) \in Nat \ {0}
      BY <2>2, EmptySeq
    <3>2. Least(i, Len(s)) \in 1 .. Len(s)
      BY <3>1 DEF Least
    <3> QED
      BY <2>2, <3>2, ElementOfSeq
  <2> QED
    BY <2>1, <2>2
<1> HIDE DEF Value
<1>2. f \in [1 .. n -> S]
  BY <1>1
<1>3. f \in Seq(S) /\ Len(f) = n
  BY <1>2, FunctionIsSequence
<1> QED
  BY <1>3 DEF Fitted, Value
-----------------------------------------------------------------------------
\* The state of a resampler: what it repeats is as long as what it recognises, and
\* it holds back no more than its lag.
Resamplers(S, lag) ==
  {r \in [held : Seq(S), previous_input : Seq(S), previous_output : Seq(S)] :
     /\ Len(r.previous_output) = Len(r.previous_input)
     /\ Len(r.held) <= lag}

\* A new one is one.
LEMMA NewResamplerIsOne ==
  ASSUME NEW S, NEW lag \in Nat
  PROVE  NewResampler \in Resamplers(S, lag)
<1>1. <<>> \in Seq(S)
  BY EmptySeq
<1> QED
  BY <1>1 DEF NewResampler, Resamplers

\* The overlap that is found is in both windows.
LEMMA DetectedOverlapInRange ==
  ASSUME NEW S, NEW previous \in Seq(S), NEW samples \in Seq(S), NEW rate \in Nat
  PROVE  /\ DetectedOverlap(previous, samples, rate) \in Nat
         /\ DetectedOverlap(previous, samples, rate) <= Len(previous)
         /\ DetectedOverlap(previous, samples, rate) <= Len(samples)
<1> DEFINE tenth == rate \div 10
           n     == Least(Least(Len(previous), Len(samples)), tenth)
<1>1. Len(previous) \in Nat /\ Len(samples) \in Nat /\ tenth \in Nat
  BY LenProperties
<1> HIDE DEF tenth
<1>2. n \in Nat /\ n <= Len(previous) /\ n <= Len(samples)
  BY <1>1 DEF Least
<1>3. DetectedOverlap(previous, samples, rate) \in {0, n}
  BY DEF DetectedOverlap, tenth
<1> HIDE DEF n
<1> QED
  BY <1>1, <1>2, <1>3

\* A window is resampled to its own length, out of samples that it or the windows
\* before it had, whatever is held back.
LEMMA ResampleProperties ==
  ASSUME NEW S, Silence \in S, NEW lag \in Nat, NEW r \in Resamplers(S, lag),
         NEW samples \in Seq(S), NEW rate \in Nat, NEW holds \in 0 .. lag,
         NEW stated \in Nat
  PROVE  /\ resample(r, samples, rate, lag, holds, stated).result \in Seq(S)
         /\ Len(resample(r, samples, rate, lag, holds, stated).result) = Len(samples)
         /\ resample(r, samples, rate, lag, holds, stated).resampler \in Resamplers(S, lag)
<1> DEFINE known   == Least(Least(stated, Len(r.previous_input)), Len(samples))
           overlap == IF known > 0 THEN known
                      ELSE DetectedOverlap(r.previous_input, samples, rate)
           held    == IF overlap > 0 THEN r.held ELSE <<>>
           rest    == Drop(samples, overlap)
           fed     == held \o rest
           kept    == Least(holds, Len(fed))
           prefix  == Final(r.previous_output, overlap)
           fresh   == First(fed, Len(fed) - kept)
           result  == Fitted(prefix \o fresh, Len(samples))
           next    == [held |-> Final(fed, kept), previous_input |-> samples,
                       previous_output |-> result]
<1>1. /\ r.held \in Seq(S) /\ r.previous_input \in Seq(S) /\ r.previous_output \in Seq(S)
      /\ Len(r.previous_output) = Len(r.previous_input)
  BY DEF Resamplers
<1>2. Len(samples) \in Nat /\ Len(r.previous_input) \in Nat /\ Len(r.held) \in Nat
  BY <1>1, LenProperties
<1>3. overlap \in Nat /\ overlap <= Len(r.previous_input) /\ overlap <= Len(samples)
  <2>1. known \in Nat /\ known <= Len(r.previous_input) /\ known <= Len(samples)
    BY <1>2 DEF Least
  <2> HIDE DEF known
  <2>2. CASE known > 0
    BY <2>1, <2>2
  <2>3. CASE ~ known > 0
    BY <1>1, <2>3, DetectedOverlapInRange
  <2> QED
    BY <2>2, <2>3
<1> HIDE DEF overlap
<1>4. held \in Seq(S)
  BY <1>1, EmptySeq
<1> HIDE DEF held
<1>5. rest \in Seq(S) /\ Len(rest) = Len(samples) - overlap
  BY <1>2, <1>3, EndsProperties
<1> HIDE DEF rest
<1>6. fed \in Seq(S) /\ Len(fed) = Len(held) + Len(rest)
  BY <1>4, <1>5, ConcatProperties
<1> HIDE DEF fed
<1>7. Len(fed) \in Nat /\ kept \in 0 .. lag /\ kept <= Len(fed)
  <2>1. Len(fed) \in Nat
    BY <1>6, LenProperties
  <2> QED
    BY <2>1 DEF Least
<1> HIDE DEF kept
<1>8. prefix \in Seq(S)
  <2>1. overlap \in Int /\ overlap >= 0 /\ overlap <= Len(r.previous_output)
    BY <1>1, <1>3
  <2> QED
    BY <1>1, <2>1, EndsProperties
<1> HIDE DEF prefix
<1>9. fresh \in Seq(S)
  <2>1. Len(fed) - kept \in Int /\ Len(fed) - kept <= Len(fed)
    BY <1>7
  <2> QED
    BY <1>6, <2>1, EndsProperties
<1> HIDE DEF fresh
<1>10. prefix \o fresh \in Seq(S)
  BY <1>8, <1>9, ConcatProperties
<1>11. result \in Seq(S) /\ Len(result) = Len(samples)
  BY <1>2, <1>10, FittedProperties
<1> HIDE DEF result
<1>12. Final(fed, kept) \in Seq(S) /\ Len(Final(fed, kept)) <= lag
  <2>1. kept \in Int /\ kept >= 0 /\ kept <= lag
    BY <1>7
  <2> QED
    BY <1>6, <1>7, <2>1, EndsProperties
<1>13. next \in Resamplers(S, lag)
  BY <1>11, <1>12 DEF Resamplers
<1>14. resample(r, samples, rate, lag, holds, stated) =
         IF lag = 0 THEN [result |-> samples, resampler |-> r]
         ELSE [result |-> result, resampler |-> next]
  BY DEF resample, result, fresh, prefix, kept, fed, rest, held, overlap
<1> HIDE DEF next
<1> QED
  BY <1>11, <1>13, <1>14
-----------------------------------------------------------------------------
\* The parts of a window are natural numbers, and so is a hop.
LEMMA SizesAreNat ==
  /\ Rate \in Nat /\ Context \in Nat /\ Lookahead \in Nat /\ Overlap \in Nat /\ Search \in Nat
  /\ \A ms \in Durations : Hop(ms) \in Nat
<1>1. Rate \in Nat /\ Durations \subseteq Nat
  BY VoiceStreamAssumption
<1>2. \A ms \in Durations : Hop(ms) \in Nat
  BY <1>1, HopIsNat DEF Hop
<1> QED
  BY <1>1, <1>2, PartsAreNat DEF Context, Lookahead, Overlap, Search

\* A stream of the worker process, for the lags l.
Streams(S, l) ==
  [generation : Nat, input_resampler : Resamplers(S, l.input),
   output_resampler : Resamplers(S, l.output), filter_input : Seq(S), continued : BOOLEAN,
   tangled : BOOLEAN]

\* A new stream is one, of its generation, and so is one that is of no use.
LEMMA NewStreamIsOne ==
  ASSUME NEW S, NEW l \in Lags, NEW g \in Nat
  PROVE  /\ NewStream(g) \in Streams(S, l) /\ NewStream(g).generation = g
         /\ ~NewStream(g).tangled
         /\ TangledStream(g) \in Streams(S, l) /\ TangledStream(g).generation = g
         /\ TangledStream(g).tangled
<1>1. l.input \in Nat /\ l.output \in Nat
  BY VoiceStreamAssumption, SizesAreNat
<1>2. NewResampler \in Resamplers(S, l.input) /\ NewResampler \in Resamplers(S, l.output)
  BY <1>1, NewResamplerIsOne
<1>3. <<>> \in Seq(S)
  BY EmptySeq
<1>4. /\ NewStream(g) \in Streams(S, l) /\ NewStream(g).generation = g
      /\ NewStream(g).tangled = FALSE
  BY <1>2, <1>3 DEF NewStream, Streams
<1>5. TangledStream(g) = [NewStream(g) EXCEPT !.tangled = TRUE]
  BY DEF TangledStream
<1> QED
  BY <1>4, <1>5 DEF Streams

\* infer_window, up to the inference: a stream remains one, and a window keeps its
\* length.
LEMMA PreparedProperties ==
  ASSUME NEW S, Silence \in S, lags \in Lags, NEW stream \in Streams(S, lags),
         NEW samples \in Seq(S), NEW holds \in 0 .. lags.input
  PROVE  /\ Prepared(stream, samples, holds).stream \in Streams(S, lags)
         /\ Prepared(stream, samples, holds).stream.generation = stream.generation
         /\ Prepared(stream, samples, holds).stream.tangled = stream.tangled
         /\ Prepared(stream, samples, holds).result \in Seq(S)
         /\ Len(Prepared(stream, samples, holds).result) = Len(samples)
<1> DEFINE r       == stream.input_resampler
           lag     == lags.input
           done    == resample(r, samples, Rate, lag, holds, 0)
           goes_on == FilterContinues(stream.filter_input, done.result, Rate)
<1>1. lag \in 0 .. Lookahead
  BY VoiceStreamAssumption
<1>2. /\ lag \in Nat /\ holds \in 0 .. lag /\ r \in Resamplers(S, lag) /\ Rate \in Nat
      /\ 0 \in Nat
  BY <1>1, SizesAreNat DEF Streams
<1>3. goes_on \in BOOLEAN
  BY DEF FilterContinues
<1>4. Prepared(stream, samples, holds) =
        [result |-> done.result,
         stream |-> [stream EXCEPT !.input_resampler = done.resampler,
                                   !.filter_input = done.result, !.continued = goes_on]]
  BY DEF Prepared
<1>5. done.result \in Seq(S) /\ Len(done.result) = Len(samples)
      /\ done.resampler \in Resamplers(S, lag)
  <2> HIDE DEF lag, r
  <2> QED
    BY <1>2, ResampleProperties
<1>6. done.resampler \in Resamplers(S, lags.input)
  BY <1>5
<1> HIDE DEF r, lag, done, goes_on
<1>7. PICK continued \in BOOLEAN : continued = goes_on
  BY <1>3, Zenon
<1> DEFINE next == [stream EXCEPT !.input_resampler = done.resampler,
                                  !.filter_input = done.result, !.continued = continued]
<1>8. /\ next \in Streams(S, lags) /\ next.generation = stream.generation
      /\ next.tangled = stream.tangled
  <2>1. PICK resampler \in Resamplers(S, lags.input) : resampler = done.resampler
    BY <1>6
  <2>2. PICK filtered \in Seq(S) : filtered = done.result
    BY <1>5
  <2>3. next = [stream EXCEPT !.input_resampler = resampler, !.filter_input = filtered,
                              !.continued = continued]
    BY <2>1, <2>2
  <2> HIDE DEF next
  <2> QED
    BY <2>3 DEF Streams
<1>9. Prepared(stream, samples, holds) = [result |-> done.result, stream |-> next]
  BY <1>4, <1>7
<1> HIDE DEF next
<1> QED
  BY <1>5, <1>8, <1>9

\* The rest of it: a result is never longer than its window, and shorter by what
\* the features lack.
LEMMA InferredProperties ==
  ASSUME NEW S, Silence \in S, lags \in Lags, NEW stream \in Streams(S, lags),
         NEW prepared, prepared.stream \in Streams(S, lags),
         prepared.stream.generation = stream.generation,
         prepared.stream.tangled = stream.tangled,
         prepared.result \in Seq(S),
         NEW short \in Nat, NEW holds \in 0 .. lags.output,
         NEW inferred, inferred = Inferred(stream, prepared, short, holds)
  PROVE  /\ inferred.stream \in Streams(S, lags)
         /\ inferred.stream.generation = stream.generation
         /\ inferred.stream.tangled = stream.tangled
         /\ inferred.result \in Seq(S)
         /\ Len(inferred.result) <= Len(prepared.result)
<1> DEFINE r       == stream.output_resampler
           lag     == lags.output
           samples == First(prepared.result, Len(prepared.result) - short)
           stated  == StatedOverlap(stream)
           done    == resample(r, samples, Rate, lag, holds, stated)
<1>1. lag \in 0 .. Lookahead
  BY VoiceStreamAssumption
<1>2. /\ lag \in Nat /\ holds \in 0 .. lag /\ r \in Resamplers(S, lag) /\ Rate \in Nat
  BY <1>1, SizesAreNat DEF Streams
<1>3. stated \in Nat
  <2>1. Len(stream.filter_input) \in Nat
    BY LenProperties DEF Streams
  <2>2. (Rate * 40) \div 1000 \in Nat
    BY <1>2
  <2> QED
    BY <2>1, <2>2 DEF StatedOverlap, Least
<1>4. inferred =
        [result |-> done.result,
         stream |-> [prepared.stream EXCEPT !.output_resampler = done.resampler]]
  BY DEF Inferred
<1>5. samples \in Seq(S) /\ Len(samples) <= Len(prepared.result)
  <2> DEFINE n == Len(prepared.result) - short
  <2>1. n \in Int /\ n <= Len(prepared.result) /\ Len(prepared.result) \in Nat
    BY LenProperties
  <2> HIDE DEF n
  <2>2. /\ First(prepared.result, n) \in Seq(S)
        /\ Len(First(prepared.result, n)) = IF n > 0 THEN n ELSE 0
    BY <2>1, EndsProperties
  <2> QED
    BY <2>1, <2>2 DEF n
<1>6. done.result \in Seq(S) /\ Len(done.result) = Len(samples)
      /\ done.resampler \in Resamplers(S, lag)
  <2> HIDE DEF lag, r, samples, stated
  <2> QED
    BY <1>2, <1>3, <1>5, ResampleProperties
<1>7. done.resampler \in Resamplers(S, lags.output)
  BY <1>6
<1> HIDE DEF done, samples, r, lag, stated
<1>8. PICK resampler \in Resamplers(S, lags.output) : resampler = done.resampler
  BY <1>7
<1> DEFINE next == [prepared.stream EXCEPT !.output_resampler = resampler]
<1>9. /\ next \in Streams(S, lags) /\ next.generation = stream.generation
      /\ next.tangled = stream.tangled
  BY DEF Streams
<1>10. inferred = [result |-> done.result, stream |-> next]
  BY <1>4, <1>8
<1> HIDE DEF next
<1> QED
  BY <1>5, <1>6, <1>9, <1>10
-----------------------------------------------------------------------------
\* The state of the assembler: a history and a tail, or none.
Assemblers(S) ==
  {a \in [history : Seq(S), tail : Seq(S)] :
     Len(a.history) \in {0, Context} /\ Len(a.tail) \in {0, Overlap}}

\* A new assembler is one.
LEMMA NoStreamIsOne ==
  ASSUME NEW S
  PROVE  NoStream \in Assemblers(S)
<1>1. <<>> \in Seq(S) /\ Len(<<>>) = 0
  BY EmptySeq
<1> QED
  BY <1>1 DEF NoStream, Assemblers

\* A window has its length, and the history that it leaves, too.
LEMMA WindowProperties ==
  ASSUME NEW S, Silence \in S, NEW a \in Assemblers(S), NEW hop \in Nat,
         NEW input \in Seq(S), Len(input) = hop + Lookahead
  PROVE  /\ window(a, input, hop, Context).result \in Seq(S)
         /\ Len(window(a, input, hop, Context).result) = Context + hop + Lookahead
         /\ window(a, input, hop, Context).stream \in Assemblers(S)
<1> DEFINE history == History(a, Context)
           result  == history \o input
           m       == hop + 1
           n       == hop + Context
           next    == NextHistory(result, hop, Context)
<1>1. history \in Seq(S) /\ Len(history) = Context
  <2> DEFINE silence == [i \in 1 .. Context |-> Silence]
  <2>1. silence \in [1 .. Context -> S]
    OBVIOUS
  <2> HIDE DEF silence
  <2>2. silence \in Seq(S) /\ Len(silence) = Context
    BY <2>1, SizesAreNat, FunctionIsSequence
  <2>3. history = IF Len(a.history) = Context THEN a.history ELSE silence
    BY DEF History, silence
  <2> QED
    BY <2>2, <2>3 DEF Assemblers
<1> HIDE DEF history
<1>2. result \in Seq(S) /\ Len(result) = Context + hop + Lookahead
  <2>1. result \in Seq(S) /\ Len(result) = Len(history) + Len(input)
    BY <1>1, ConcatProperties
  <2> QED
    BY <1>1, <2>1, SizesAreNat
<1>3. window(a, input, hop, Context) =
        [result |-> result, stream |-> [a EXCEPT !.history = next]]
  BY DEF window, history
<1> HIDE DEF result
<1>4. next \in Seq(S) /\ Len(next) = Context
  <2>1. m \in Nat \ {0} /\ n \in Int /\ n <= Len(result) /\ m <= n + 1 /\ n - m + 1 = Context
    BY <1>2, SizesAreNat
  <2>2. next = SubSeq(result, m, n)
    BY DEF NextHistory
  <2> HIDE DEF m, n
  <2>3. SubSeq(result, m, n) \in Seq(S) /\ Len(SubSeq(result, m, n)) = n - m + 1
    BY <1>2, <2>1, PartProperties
  <2> QED
    BY <2>1, <2>2, <2>3
<1> HIDE DEF next
<1>5. [a EXCEPT !.history = next] \in Assemblers(S)
  BY <1>4 DEF Assemblers
<1> QED
  BY <1>2, <1>3, <1>5

\* The search finds an offset in its range.
LEMMA OffsetInRange ==
  ASSUME NEW tail, NEW samples,
         NEW offset \in Offsets(tail, samples, Context, Overlap, Search)
  PROVE  offset \in 0 .. Search
  BY SizesAreNat DEF Offsets

\* A block and the tail that it leaves, out of the window and the tail before it.
LEMMA StitchProperties ==
  ASSUME NEW S, Silence \in S, Mixed \in S, NEW a \in Assemblers(S), NEW hop \in Nat,
         NEW samples \in Seq(S), Stitches(samples, hop, Context, Overlap, Search),
         NEW offset \in 0 .. Search
  PROVE  /\ stitch(a, samples, hop, Context, Overlap, offset).result \in Seq(S)
         /\ stitch(a, samples, hop, Context, Overlap, offset).stream \in Assemblers(S)
<1> DEFINE from    == Context + offset
           own     == Slice(samples, from, hop)
           tail    == Slice(samples, from + hop, Overlap)
           previous(i) == IF a.tail = <<>> THEN Silence ELSE a.tail[i]
           value(i) == IF i <= Overlap THEN Faded(previous(i), own[i]) ELSE own[i]
           result  == [i \in 1 .. hop |-> value(i)]
<1>1. /\ from \in Nat /\ from + hop \in Nat
      /\ from + hop <= Len(samples) /\ from + hop + Overlap <= Len(samples)
  BY SizesAreNat, LenProperties DEF Stitches
<1>2. stitch(a, samples, hop, Context, Overlap, offset) =
        [result |-> result, stream |-> [a EXCEPT !.tail = tail]]
  BY DEF stitch, NextTail
<1>3. own \in Seq(S) /\ Len(own) = hop
  <2> HIDE DEF from
  <2> QED
    BY <1>1, SliceProperties
<1>4. tail \in Seq(S) /\ Len(tail) = Overlap
  <2> DEFINE end == from + hop
  <2>1. end \in Nat /\ end + Overlap <= Len(samples)
    BY <1>1
  <2>2. tail = Slice(samples, end, Overlap)
    OBVIOUS
  <2> HIDE DEF end, tail
  <2> QED
    BY <2>1, <2>2, SizesAreNat, SliceProperties
<1> HIDE DEF own, tail
<1>5. ASSUME NEW i \in 1 .. hop PROVE value(i) \in S
  <2>1. own[i] \in S
    BY <1>3, ElementOfSeq
  <2> QED
    BY <2>1 DEF Faded
<1> HIDE DEF value
<1>6. result \in [1 .. hop -> S]
  BY <1>5
<1> HIDE DEF result
<1>7. result \in Seq(S)
  BY <1>6, FunctionIsSequence
<1>8. [a EXCEPT !.tail = tail] \in Assemblers(S)
  BY <1>4 DEF Assemblers
<1> QED
  BY <1>2, <1>7, <1>8
-----------------------------------------------------------------------------
\* The inductive invariant. The monitor, and where the generation began:
MonitorInv ==
  /\ lags \in Lags /\ duration \in Durations
  /\ front \in Nat /\ began \in Nat /\ began <= front
  /\ generation \in 1 .. MaxGenerations
  /\ discontinuity \in BOOLEAN /\ disturbed \in BOOLEAN

\* The conversion thread: what it has has the sizes that window and stitch need.
ThreadInv ==
  /\ thread \in {"ready", "waiting", "answered"}
  /\ captured \in [number : 0 .. MaxWindows, generation : Nat, first : Nat, hop : Nat]
  /\ captured.generation <= generation
  /\ assembler \in Assemblers(Samples)
  /\ converted \in Seq(Samples)
  /\ Len(converted) <= window_frames(Rate, captured.hop)
  /\ thread # "answered" => converted = <<>>

Requests ==
  [number : Nat, generation : Nat, window : Seq(Samples), overtaken : BOOLEAN,
   tangled : BOOLEAN]

\* A request that is still to be served; the one the thread waits for is the
\* window it captured.
RequestInv(request) ==
  /\ request \in Requests
  /\ request.number <= captured.number /\ request.generation <= generation
  /\ request.number = captured.number =>
       /\ request.generation = captured.generation
       /\ Len(request.window) = window_frames(Rate, captured.hop)

RequestsInv == \A request \in requests : RequestInv(request)

ServerInv == server \in Streams(Samples, lags) /\ server.generation <= generation

Types == MonitorInv /\ ThreadInv /\ RequestsInv /\ ServerInv

\* What belongs to the generation has no samples but its own. This is where the
\* generations matter: nothing is said of what belongs to an earlier one.
ThreadIsOwn ==
  /\ ~discontinuity => captured.generation = generation
  /\ captured.generation = generation =>
       assembler \in Assemblers(Own(began)) /\ converted \in Seq(Own(began))

RequestsAreOwn ==
  \A request \in requests :
    request.generation = generation => request.window \in Seq(Own(began))

ServerIsOwn == server.generation = generation => server \in Streams(Own(began), lags)

BlockIsOwn == block \in Seq(Own(began))

OwnSamples == ThreadIsOwn /\ RequestsAreOwn /\ ServerIsOwn /\ BlockIsOwn

Inv == Types /\ OwnSamples

\* A stream's own samples are samples, and so for all that is made of them.
LEMMA OwnAreSamples ==
  ASSUME NEW from \in Nat
  PROVE  /\ Silence \in Own(from) /\ Mixed \in Own(from)
         /\ \A s : s \in Seq(Own(from)) => s \in Seq(Samples)
<1>1. Own(from) \subseteq Samples
  BY DEF Own, Samples
<1>2. \A s : s \in Seq(Own(from)) => s \in Seq(Samples)
  <2> SUFFICES ASSUME NEW s \in Seq(Own(from)) PROVE s \in Seq(Samples)
    OBVIOUS
  <2> HIDE DEF Samples
  <2> QED
    BY <1>1, SeqDef
<1> QED
  BY <1>2 DEF Own

\* The sizes of a window.
LEMMA WindowFrames ==
  ASSUME NEW hop \in Nat
  PROVE  window_frames(Rate, hop) = Context + hop + Lookahead
  BY DEF window_frames, Context, Lookahead

LEMMA WindowIsNat ==
  ASSUME NEW hop \in Nat
  PROVE  window_frames(Rate, hop) \in Nat
  BY WindowFrames, SizesAreNat

\* A request that is marked remains the request that it is.
SameRequest(other, request) ==
  /\ other.number = request.number
  /\ other.generation = request.generation
  /\ other.window = request.window

LEMMA MarkedIsSame ==
  ASSUME NEW request \in Requests, NEW goes \in BOOLEAN
  PROVE  /\ [request EXCEPT !.overtaken = TRUE] \in Requests
         /\ SameRequest([request EXCEPT !.overtaken = TRUE], request)
         /\ [request EXCEPT !.tangled = @ \/ goes] \in Requests
         /\ SameRequest([request EXCEPT !.tangled = @ \/ goes], request)
<1>1. PICK tangled \in BOOLEAN : tangled = (request.tangled \/ goes)
  BY Zenon DEF Requests
<1>2. [request EXCEPT !.tangled = @ \/ goes] = [request EXCEPT !.tangled = tangled]
  BY <1>1
<1>3. /\ [request EXCEPT !.tangled = tangled] \in Requests
      /\ SameRequest([request EXCEPT !.tangled = tangled], request)
  BY DEF Requests, SameRequest
<1>4. /\ [request EXCEPT !.overtaken = TRUE] \in Requests
      /\ SameRequest([request EXCEPT !.overtaken = TRUE], request)
  BY DEF Requests, SameRequest
<1> QED
  BY <1>2, <1>3, <1>4

\* Two conversions at once, and settings that overtake them, only mark requests.
Remain(left) == left \in Requests /\ \E request \in requests : SameRequest(left, request)

LEMMA TangleRemains ==
  ASSUME Inv, NEW request \in requests, Tangle(request)
  PROVE  \A left \in requests' : Remain(left)
<1> SUFFICES ASSUME NEW left \in requests' PROVE Remain(left)
  OBVIOUS
<1>1. PICK other \in requests :
        left = [other EXCEPT !.tangled = @ \/ other.generation = request.generation]
  BY DEF Tangle
<1>2. other \in Requests
  BY DEF Inv, Types, RequestsInv, RequestInv
<1>3. PICK goes \in BOOLEAN : goes = (other.generation = request.generation)
  BY Zenon
<1>4. left = [other EXCEPT !.tangled = @ \/ goes]
  BY <1>1, <1>3
<1>5. /\ [other EXCEPT !.tangled = @ \/ goes] \in Requests
      /\ SameRequest([other EXCEPT !.tangled = @ \/ goes], other)
  BY <1>2, MarkedIsSame
<1> QED
  BY <1>4, <1>5, Zenon DEF Remain

LEMMA ForgetRemains ==
  ASSUME Inv, Forget PROVE \A left \in requests' : Remain(left)
<1> SUFFICES ASSUME NEW left \in requests' PROVE Remain(left)
  OBVIOUS
<1>1. PICK other \in requests : left = [other EXCEPT !.overtaken = TRUE]
  BY DEF Forget
<1>2. other \in Requests /\ TRUE \in BOOLEAN
  BY DEF Inv, Types, RequestsInv, RequestInv
<1>3. /\ [other EXCEPT !.overtaken = TRUE] \in Requests
      /\ SameRequest([other EXCEPT !.overtaken = TRUE], other)
  BY <1>2, MarkedIsSame
<1> QED
  BY <1>1, <1>3, Zenon DEF Remain

\* What a step leaves of the requests belongs to them, if it only drops and marks some.
LEMMA RequestsRemain ==
  ASSUME Inv, UNCHANGED <<generation, captured, began>>,
         \A other \in requests' : Remain(other)
  PROVE  RequestsInv' /\ RequestsAreOwn'
<1> SUFFICES ASSUME NEW other \in requests'
             PROVE  /\ RequestInv(other)'
                    /\ other.generation = generation' => other.window \in Seq(Own(began'))
  BY Zenon DEF RequestsInv, RequestsAreOwn
<1>1. PICK request \in requests : other \in Requests /\ SameRequest(other, request)
  BY DEF Remain
<1>2. /\ RequestInv(request)
      /\ request.generation = generation => request.window \in Seq(Own(began))
  BY DEF Inv, Types, RequestsInv, OwnSamples, RequestsAreOwn
<1> QED
  BY <1>1, <1>2, Zenon DEF RequestInv, SameRequest

\* It holds at the start.
LEMMA InvInit == Init => Inv
<1> SUFFICES ASSUME Init PROVE Inv
  OBVIOUS
<1>1. /\ lags \in Lags /\ front = 1 /\ generation = 1 /\ discontinuity = TRUE
      /\ duration \in Durations /\ thread = "ready" /\ assembler = NoStream
      /\ captured = NoCapture /\ converted = <<>> /\ requests = {} /\ server = NewStream(0)
      /\ began = 1 /\ block = <<>> /\ disturbed = FALSE
  BY DEF Init, Forgotten
<1>2. MonitorInv
  <2>1. discontinuity \in BOOLEAN /\ disturbed \in BOOLEAN
    BY <1>1, Zenon
  <2>2. /\ lags \in Lags /\ duration \in Durations
        /\ front \in Nat /\ began \in Nat /\ began <= front
        /\ generation \in 1 .. MaxGenerations
    BY <1>1, VoiceStreamAssumption
  <2> QED
    BY <2>1, <2>2, Zenon DEF MonitorInv
<1>3. <<>> \in Seq(Samples) /\ Len(<<>>) = 0 /\ <<>> \in Seq(Own(began))
  BY EmptySeq
<1>4. ThreadInv
  <2>1. NoStream \in Assemblers(Samples)
    BY NoStreamIsOne
  <2>2. captured.hop = 0 /\ 0 <= window_frames(Rate, 0)
    BY <1>1, WindowIsNat DEF NoCapture
  <2> QED
    BY <1>1, <1>3, <2>1, <2>2, VoiceStreamAssumption DEF ThreadInv, NoCapture
<1>5. server \in Streams(Samples, lags) /\ server.generation = 0
  BY <1>1, NewStreamIsOne
<1>6. RequestsInv /\ RequestsAreOwn
  BY <1>1 DEF RequestsInv, RequestsAreOwn
<1>7. ServerInv /\ ServerIsOwn
  BY <1>1, <1>5 DEF ServerInv, ServerIsOwn
<1>8. ThreadIsOwn /\ BlockIsOwn
  BY <1>1, <1>3 DEF ThreadIsOwn, BlockIsOwn, NoCapture
<1> QED
  BY <1>2, <1>4, <1>6, <1>7, <1>8 DEF Inv, Types, OwnSamples

\* A discontinuity starts a generation to which nothing belongs yet.
LEMMA DiscontinueStep ==
  ASSUME Inv, Discontinue PROVE Inv'
<1>1. /\ generation < MaxGenerations /\ generation' = generation + 1 /\ discontinuity' = TRUE
      /\ front' = began' /\ began' \in {front + skip : skip \in Skips}
      /\ duration' \in Durations /\ block' = <<>> /\ disturbed' = FALSE
      /\ UNCHANGED <<lags, threadVars, serverVars>>
  BY DEF Discontinue
<1>2. /\ lags' = lags /\ thread' = thread /\ assembler' = assembler /\ captured' = captured
      /\ converted' = converted /\ requests' = requests /\ server' = server
  BY <1>1 DEF threadVars, serverVars
<1>3. /\ lags \in Lags /\ front \in Nat /\ generation \in 1 .. MaxGenerations
  BY DEF Inv, Types, MonitorInv
<1>4. front' \in Nat /\ began' \in Nat /\ began' <= front'
      /\ generation' \in 1 .. MaxGenerations
  BY <1>1, <1>3, VoiceStreamAssumption
<1>5. MonitorInv'
  <2>1. discontinuity' \in BOOLEAN /\ disturbed' \in BOOLEAN
    BY <1>1, Zenon
  <2> QED
    BY <1>1, <1>2, <1>3, <1>4, <2>1, Zenon DEF MonitorInv
<1>6. ThreadInv' /\ captured'.generation < generation'
  <2>1. generation \in Nat /\ generation' = generation + 1
    BY <1>1, <1>3
  <2>2. ThreadInv
    BY DEF Inv, Types
  <2> QED
    BY <1>2, <2>1, <2>2 DEF ThreadInv
<1>7. ServerInv' /\ server'.generation < generation'
  <2>1. ServerInv
    BY DEF Inv, Types
  <2>2. server.generation \in Nat
    BY <2>1 DEF ServerInv, Streams
  <2> QED
    BY <1>1, <1>2, <1>3, <2>1, <2>2 DEF ServerInv
<1>8. \A request \in requests' : RequestInv(request)' /\ request.generation # generation'
  <2> SUFFICES ASSUME NEW request \in requests'
               PROVE  RequestInv(request)' /\ request.generation # generation'
    OBVIOUS
  <2>1. RequestInv(request)
    BY <1>2 DEF Inv, Types, RequestsInv
  <2>2. request.generation \in Nat /\ request.generation <= generation
    BY <2>1 DEF RequestInv, Requests
  <2>3. request.generation <= generation' /\ request.generation # generation'
    BY <1>1, <1>3, <2>2
  <2> QED
    BY <1>2, <2>1, <2>3 DEF RequestInv
<1>9. RequestsInv' /\ RequestsAreOwn'
  BY <1>8, Zenon DEF RequestsInv, RequestsAreOwn
<1>10. ThreadIsOwn'
  <2>1. captured'.generation # generation'
    BY <1>4, <1>6 DEF ThreadInv
  <2>2. discontinuity'
    BY <1>1
  <2> QED
    BY <2>1, <2>2, Zenon DEF ThreadIsOwn
<1>11. ServerIsOwn'
  <2>1. server'.generation # generation'
    BY <1>4, <1>7 DEF ServerInv, Streams
  <2> QED
    BY <2>1 DEF ServerIsOwn
<1>12. BlockIsOwn'
  BY <1>1, EmptySeq DEF BlockIsOwn
<1> QED
  BY <1>5, <1>6, <1>7, <1>9, <1>10, <1>11, <1>12 DEF Inv, Types, OwnSamples

\* A captured window is made of what is in input, which is later than where the
\* generation began, and of a history that belongs to it or is silence.
LEMMA CaptureStep ==
  ASSUME Inv, Capture PROVE Inv'
<1> DEFINE hop   == Hop(duration)
           input == [i \in 1 .. hop + Lookahead |-> front + i - 1]
           taken == window(AssemblerAtCapture, input, hop, Context)
           next  == [number |-> captured.number + 1, generation |-> generation,
                     first |-> front, hop |-> hop]
           asked == [number |-> captured.number + 1, generation |-> generation,
                     window |-> taken.result, overtaken |-> FALSE, tangled |-> FALSE]
<1>1. /\ thread = "ready" /\ captured.number < MaxWindows
      /\ front' = front + hop /\ discontinuity' = FALSE
      /\ assembler' = taken.stream /\ captured' = next
      /\ requests' = requests \cup {asked} /\ thread' = "waiting"
      /\ UNCHANGED <<lags, generation, duration, converted, server, ghostVars>>
  BY DEF Capture
<1>2. /\ lags' = lags /\ generation' = generation /\ duration' = duration
      /\ converted' = converted /\ server' = server /\ began' = began
      /\ block' = block /\ disturbed' = disturbed
  BY <1>1 DEF ghostVars
<1>3. /\ front \in Nat /\ began \in Nat /\ began <= front /\ generation \in Nat
      /\ generation \in 1 .. MaxGenerations /\ hop \in Nat /\ Lookahead \in Nat
      /\ Context \in Nat
  BY SizesAreNat DEF Inv, Types, MonitorInv
<1>4. /\ captured.number \in 0 .. MaxWindows /\ captured.generation \in Nat
      /\ converted = <<>>
  BY <1>1 DEF Inv, Types, ThreadInv
<1> HIDE DEF hop
<1>5. /\ AssemblerAtCapture \in Assemblers(Own(began))
      /\ AssemblerAtCapture \in Assemblers(Samples)
  <2>1. CASE discontinuity
    BY <2>1, NoStreamIsOne DEF AssemblerAtCapture
  <2>2. CASE ~discontinuity
    <3>1. assembler \in Assemblers(Own(began)) /\ assembler \in Assemblers(Samples)
      BY <2>2 DEF Inv, Types, OwnSamples, ThreadIsOwn, ThreadInv
    <3> QED
      BY <2>2, <3>1 DEF AssemblerAtCapture
  <2> QED
    BY <2>1, <2>2
<1>6. input \in Seq(Own(began)) /\ input \in Seq(Samples) /\ Len(input) = hop + Lookahead
  <2> DEFINE n == hop + Lookahead
  <2>1. n \in Nat
    BY <1>3
  <2>2. input \in [1 .. n -> Own(began)]
    BY <1>3 DEF Own
  <2> HIDE DEF n
  <2>3. input \in Seq(Own(began)) /\ Len(input) = n
    BY <2>1, <2>2, FunctionIsSequence
  <2> QED
    BY <1>3, <2>3, OwnAreSamples DEF n
<1> HIDE DEF input
<1>7. ASSUME NEW S, Silence \in S, input \in Seq(S), AssemblerAtCapture \in Assemblers(S)
      PROVE  /\ taken.result \in Seq(S)
             /\ Len(taken.result) = Context + hop + Lookahead
             /\ taken.stream \in Assemblers(S)
  BY <1>3, <1>6, <1>7, WindowProperties
<1> HIDE DEF taken
<1>8. Silence \in Own(began) /\ Silence \in Samples
  BY <1>3, OwnAreSamples DEF Samples
<1>9. /\ taken.result \in Seq(Own(began)) /\ taken.stream \in Assemblers(Own(began))
      /\ taken.result \in Seq(Samples) /\ taken.stream \in Assemblers(Samples)
      /\ Len(taken.result) = Context + hop + Lookahead
  BY <1>5, <1>6, <1>7, <1>8
<1>10. MonitorInv'
  <2>1. front' \in Nat /\ began <= front'
    BY <1>1, <1>3
  <2>2. discontinuity' \in BOOLEAN /\ disturbed' \in BOOLEAN
    BY <1>1, <1>2, Zenon DEF Inv, Types, MonitorInv
  <2> QED
    BY <1>2, <2>1, <2>2, Zenon DEF Inv, Types, MonitorInv
<1>11. ThreadInv'
  <2>1. captured' \in [number : 0 .. MaxWindows, generation : Nat, first : Nat, hop : Nat]
        /\ captured'.generation = generation
    <3>1. captured.number + 1 \in 0 .. MaxWindows
      BY <1>1, <1>4, VoiceStreamAssumption
    <3> QED
      BY <1>1, <1>3, <3>1
  <2>2. converted' = <<>> /\ Len(<<>>) = 0 /\ <<>> \in Seq(Samples)
    BY <1>2, <1>4, EmptySeq
  <2>3. 0 <= window_frames(Rate, captured'.hop)
    BY <2>1, WindowIsNat
  <2> QED
    BY <1>1, <1>2, <1>3, <1>9, <2>1, <2>2, <2>3 DEF ThreadInv
<1>12. \A request \in requests' :
         /\ RequestInv(request)'
         /\ request.generation = generation' => request.window \in Seq(Own(began'))
  <2>1. captured'.number = captured.number + 1 /\ captured'.generation = generation
        /\ captured'.hop = hop
    BY <1>1
  <2>2. ASSUME NEW request \in requests
        PROVE  /\ RequestInv(request)'
               /\ request.generation = generation' => request.window \in Seq(Own(began'))
    <3>1. RequestInv(request)
      BY DEF Inv, Types, RequestsInv
    <3>2. request.number \in Nat /\ request.number <= captured.number
      BY <3>1 DEF RequestInv, Requests
    <3>4. request.number # captured'.number /\ request.number <= captured'.number
      BY <1>4, <2>1, <3>2
    <3>3. RequestInv(request)'
      BY <1>2, <3>1, <3>4 DEF RequestInv
    <3> QED
      BY <1>2, <3>3 DEF Inv, OwnSamples, RequestsAreOwn
  <2>3. PICK request : request = asked
    OBVIOUS
  <2>4. /\ request.number = captured.number + 1 /\ request.generation = generation
        /\ request.window = taken.result
    BY <2>3
  <2>5. request \in Requests
    BY <1>3, <1>4, <1>9, <2>3 DEF Requests
  <2> HIDE DEF asked
  <2>6. RequestInv(request)' /\ request.window \in Seq(Own(began'))
    <3>1. Len(request.window) = window_frames(Rate, hop)
      <4>1. Len(request.window) = Context + hop + Lookahead
        BY <1>9, <2>4
      <4> QED
        BY <1>3, <4>1, WindowFrames
    <3>2. request.number <= request.number /\ request.generation <= generation
      BY <1>3, <1>4, <2>4
    <3> QED
      BY <1>2, <1>3, <1>9, <2>1, <2>4, <2>5, <3>1, <3>2 DEF RequestInv
  <2> QED
    BY <1>1, <2>2, <2>3, <2>6
<1>13. RequestsInv' /\ RequestsAreOwn'
  BY <1>12, Zenon DEF RequestsInv, RequestsAreOwn
<1>14. ServerInv' /\ ServerIsOwn' /\ BlockIsOwn'
  BY <1>2 DEF Inv, Types, OwnSamples, ServerInv, ServerIsOwn, BlockIsOwn
<1>15. ThreadIsOwn'
  <2>1. captured'.generation = generation'
    BY <1>1, <1>2
  <2>2. assembler' \in Assemblers(Own(began')) /\ converted' \in Seq(Own(began'))
    BY <1>1, <1>2, <1>4, <1>9, EmptySeq
  <2> QED
    BY <2>1, <2>2, Zenon DEF ThreadIsOwn
<1> QED
  BY <1>10, <1>11, <1>13, <1>14, <1>15 DEF Inv, Types, OwnSamples

\* An answer nobody waits for changes nothing; else the thread has it, which is as
\* long as the thread may expect and has samples of the generation only.
LEMMA AnswerStep ==
  ASSUME Inv, NEW request \in requests, NEW result \in Seq(Samples),
         Len(result) <= Len(request.window),
         request.generation = generation => result \in Seq(Own(began)),
         Answer(request, result),
         UNCHANGED <<generation, discontinuity, assembler, captured, began>>
  PROVE  ThreadInv' /\ ThreadIsOwn'
<1>1. CASE UNCHANGED <<converted, thread>>
  BY <1>1 DEF Inv, Types, OwnSamples, ThreadInv, ThreadIsOwn
<1>2. CASE Awaited(request) /\ converted' = result /\ thread' = "answered"
  <2>1. RequestInv(request) /\ ThreadInv
    BY DEF Inv, Types, RequestsInv
  <2>2. /\ request.generation = captured.generation
        /\ Len(request.window) = window_frames(Rate, captured.hop)
    BY <1>2, <2>1 DEF Awaited, RequestInv
  <2>3. ThreadInv'
    BY <1>2, <2>1, <2>2 DEF ThreadInv
  <2>4. ThreadIsOwn'
    BY <1>2, <2>2 DEF Inv, OwnSamples, ThreadIsOwn
  <2> QED
    BY <2>3, <2>4
<1> QED
  BY <1>1, <1>2 DEF Answer

\* What a window is given up with.
LEMMA NoAnswer ==
  ASSUME NEW S, NEW samples \in Seq(S)
  PROVE  \A T : <<>> \in Seq(T) /\ Len(<<>>) <= Len(samples)
  BY EmptySeq, LenProperties

\* A window of S is resampled and converted with a stream of S: what it leaves has
\* samples of S only, and so has the result, which is no longer than the window.
LEMMA ServedProperties ==
  ASSUME NEW S, Silence \in S, lags \in Lags, NEW stream \in Streams(S, lags),
         NEW samples \in Seq(S), NEW input \in 0 .. lags.input
  PROVE  /\ Prepared(stream, samples, input).stream \in Streams(S, lags)
         /\ Prepared(stream, samples, input).stream.generation = stream.generation
         /\ \A output \in 0 .. lags.output, short \in Shortfalls :
              LET inferred == Inferred(stream, Prepared(stream, samples, input), short, output)
              IN  /\ inferred.stream \in Streams(S, lags)
                  /\ inferred.stream.generation = stream.generation
                  /\ inferred.result \in Seq(S) /\ Len(inferred.result) <= Len(samples)
<1>1. PICK prepared : prepared = Prepared(stream, samples, input)
  OBVIOUS
<1>2. /\ prepared.stream \in Streams(S, lags)
      /\ prepared.stream.generation = stream.generation
      /\ prepared.stream.tangled = stream.tangled
      /\ prepared.result \in Seq(S)
      /\ Len(prepared.result) = Len(samples)
  BY <1>1, PreparedProperties
<1>3. ASSUME NEW output \in 0 .. lags.output, NEW short \in Shortfalls
      PROVE  /\ Inferred(stream, prepared, short, output).stream \in Streams(S, lags)
             /\ Inferred(stream, prepared, short, output).stream.generation = stream.generation
             /\ Inferred(stream, prepared, short, output).result \in Seq(S)
             /\ Len(Inferred(stream, prepared, short, output).result) <= Len(samples)
  <2>1. short \in Nat
    BY VoiceStreamAssumption
  <2>2. PICK inferred : inferred = Inferred(stream, prepared, short, output)
    OBVIOUS
  <2>3. /\ inferred.stream \in Streams(S, lags)
        /\ inferred.stream.generation = stream.generation
        /\ inferred.result \in Seq(S) /\ Len(inferred.result) <= Len(prepared.result)
    <3>1. /\ prepared.stream \in Streams(S, lags)
          /\ prepared.stream.generation = stream.generation
          /\ prepared.stream.tangled = stream.tangled
          /\ prepared.result \in Seq(S)
      BY <1>2
    <3>2. /\ inferred.stream \in Streams(S, lags)
          /\ inferred.stream.generation = stream.generation
          /\ inferred.stream.tangled = stream.tangled
          /\ inferred.result \in Seq(S)
          /\ Len(inferred.result) <= Len(prepared.result)
      BY <2>1, <2>2, <3>1, InferredProperties, SMTT(60)
    <3> QED
      BY <3>2
  <2> QED
    BY <1>2, <2>2, <2>3
<1> QED
  BY <1>1, <1>2, <1>3

\* A stream of the worker process goes on only with windows of its generation. So
\* does a late request: its stream is of its own generation, which has ended.
LEMMA StreamOfIsOwn ==
  ASSUME Inv, NEW request \in requests
  PROVE  /\ StreamOf(request) \in Streams(Samples, lags)
         /\ StreamOf(request).generation = request.generation
         /\ request.generation = generation =>
              /\ StreamOf(request) \in Streams(Own(began), lags)
              /\ request.window \in Seq(Own(began))
<1>1. lags \in Lags /\ RequestInv(request) /\ ServerInv
  BY DEF Inv, Types, MonitorInv, RequestsInv
<1>2. request.generation \in Nat
  BY <1>1 DEF RequestInv, Requests
<1>3. CASE server.generation = request.generation
  BY <1>1, <1>3 DEF StreamOf, ServerInv, Inv, OwnSamples, ServerIsOwn, RequestsAreOwn
<1>4. CASE server.generation # request.generation
  <2>1. StreamOf(request) = NewStream(request.generation)
    BY <1>4 DEF StreamOf
  <2>2. \A S : NewStream(request.generation) \in Streams(S, lags)
    BY <1>1, <1>2, NewStreamIsOne
  <2>3. NewStream(request.generation).generation = request.generation
    BY DEF NewStream
  <2> QED
    BY <2>1, <2>2, <2>3 DEF Inv, OwnSamples, RequestsAreOwn
<1> QED
  BY <1>3, <1>4

LEMMA ServeStep ==
  ASSUME Inv, NEW request \in requests, Serve(request) PROVE Inv'
<1> DEFINE stream          == StreamOf(request)
           prepared(input) == Prepared(stream, request.window, input)
           inferred(input, output, short) == Inferred(stream, prepared(input), short, output)
<1>1. /\ requests' = requests \ {request}
      /\ disturbed' = (disturbed \/ ~Awaited(request))
      /\ UNCHANGED <<lags, monitorVars, assembler, captured, began, block>>
  BY DEF Serve
<1>2. /\ lags' = lags /\ front' = front /\ generation' = generation
      /\ discontinuity' = discontinuity /\ duration' = duration /\ assembler' = assembler
      /\ captured' = captured /\ began' = began /\ block' = block
  BY <1>1 DEF monitorVars
<1>3. /\ lags \in Lags /\ began \in Nat /\ RequestInv(request) /\ ServerInv
      /\ request.window \in Seq(Samples) /\ request.generation \in Nat
      /\ request.generation <= generation
  BY DEF Inv, Types, MonitorInv, RequestsInv, RequestInv, Requests
<1> DEFINE Worked(next, result) ==
             \E input \in 0 .. lags.input :
               \/ next = prepared(input).stream /\ result = <<>>
               \/ \E output \in 0 .. lags.output, short \in Shortfalls :
                    /\ next = inferred(input, output, short).stream
                    /\ result = inferred(input, output, short).result
<1>4. PICK next, result :
        /\ server' = next /\ Answer(request, result)
        /\ (next = server /\ result = <<>>) \/ Worked(next, result)
  <2>1. CASE UNCHANGED server /\ Answer(request, <<>>)
    BY <2>1, Zenon
  <2>2. CASE \E input \in 0 .. lags.input :
               server' = prepared(input).stream /\ Answer(request, <<>>)
    BY <2>2, Zenon
  <2>3. CASE \E input \in 0 .. lags.input, output \in 0 .. lags.output, short \in Shortfalls :
               /\ server' = inferred(input, output, short).stream
               /\ Answer(request, inferred(input, output, short).result)
    BY <2>3, Zenon
  <2> QED
    BY <2>1, <2>2, <2>3, Zenon DEF Serve
<1>5. ASSUME NEW S, Silence \in S, stream \in Streams(S, lags), request.window \in Seq(S),
             Worked(next, result)
      PROVE  /\ next \in Streams(S, lags) /\ next.generation = stream.generation
             /\ result \in Seq(S) /\ Len(result) <= Len(request.window)
  <2>1. PICK input \in 0 .. lags.input :
          \/ next = prepared(input).stream /\ result = <<>>
          \/ \E output \in 0 .. lags.output, short \in Shortfalls :
               /\ next = inferred(input, output, short).stream
               /\ result = inferred(input, output, short).result
    BY <1>5, Zenon
  <2>2. /\ prepared(input).stream \in Streams(S, lags)
        /\ prepared(input).stream.generation = stream.generation
        /\ \A output \in 0 .. lags.output, short \in Shortfalls :
             /\ inferred(input, output, short).stream \in Streams(S, lags)
             /\ inferred(input, output, short).stream.generation = stream.generation
             /\ inferred(input, output, short).result \in Seq(S)
             /\ Len(inferred(input, output, short).result) <= Len(request.window)
    <3> HIDE DEF stream, Worked
    <3> QED
      BY <1>3, <1>5, ServedProperties
  <2>3. <<>> \in Seq(S) /\ Len(<<>>) <= Len(request.window)
    BY <1>3, NoAnswer
  <2> HIDE DEF stream, prepared, inferred
  <2> QED
    BY <2>1, <2>2, <2>3, Zenon
<1>6. /\ stream \in Streams(Samples, lags) /\ stream.generation = request.generation
      /\ request.generation = generation =>
           stream \in Streams(Own(began), lags) /\ request.window \in Seq(Own(began))
  BY StreamOfIsOwn
<1> HIDE DEF stream, prepared, inferred, Worked
<1>7. Silence \in Samples /\ Silence \in Own(began)
  BY <1>3, OwnAreSamples DEF Samples
<1>8. /\ result \in Seq(Samples) /\ Len(result) <= Len(request.window)
      /\ request.generation = generation => result \in Seq(Own(began))
  <2>1. CASE Worked(next, result)
    <3>1. result \in Seq(Samples) /\ Len(result) <= Len(request.window)
      BY <1>3, <1>5, <1>6, <1>7, <2>1
    <3>2. ASSUME request.generation = generation PROVE result \in Seq(Own(began))
      BY <1>5, <1>6, <1>7, <2>1, <3>2
    <3> QED
      BY <3>1, <3>2
  <2>2. CASE result = <<>>
    BY <1>3, <2>2, NoAnswer
  <2> QED
    BY <1>4, <2>1, <2>2
<1>9. ServerInv' /\ ServerIsOwn'
  <2>1. CASE Worked(next, result)
    <3>1. next \in Streams(Samples, lags) /\ next.generation = request.generation
      BY <1>3, <1>5, <1>6, <1>7, <2>1
    <3>2. ASSUME request.generation = generation PROVE next \in Streams(Own(began), lags)
      BY <1>5, <1>6, <1>7, <2>1, <3>2
    <3> QED
      BY <1>2, <1>3, <1>4, <3>1, <3>2 DEF ServerInv, ServerIsOwn
  <2>2. CASE next = server
    BY <1>2, <1>4, <2>2 DEF Inv, Types, OwnSamples, ServerInv, ServerIsOwn
  <2> QED
    BY <1>4, <2>1, <2>2
<1>10. MonitorInv'
  <2>1. disturbed' \in BOOLEAN
    BY <1>1, Zenon
  <2> QED
    BY <1>2, <2>1, Zenon DEF Inv, Types, MonitorInv
<1>11. RequestsInv' /\ RequestsAreOwn'
  <2>1. ASSUME NEW other \in requests'
        PROVE  Remain(other)
    BY <1>1, <2>1 DEF Remain, Inv, Types, RequestsInv, RequestInv, SameRequest
  <2> QED
    BY <1>2, <2>1, RequestsRemain
<1>12. ThreadInv' /\ ThreadIsOwn'
  BY <1>2, <1>4, <1>8, AnswerStep
<1>13. BlockIsOwn'
  BY <1>2 DEF Inv, OwnSamples, BlockIsOwn
<1> QED
  BY <1>9, <1>10, <1>11, <1>12, <1>13 DEF Inv, Types, OwnSamples

\* Two conversions at once leave a stream of which nothing is known, and answer with
\* samples of which nothing is known.
LEMMA TangleStep ==
  ASSUME Inv, NEW request \in requests, Tangle(request) PROVE Inv'
<1> DEFINE mixed == [i \in DOMAIN request.window |-> Mixed]
<1>1. /\ server' \in {server, TangledStream(request.generation)}
      /\ disturbed' = TRUE
      /\ UNCHANGED <<lags, monitorVars, assembler, captured, began, block>>
  BY DEF Tangle
<1>2. /\ lags' = lags /\ front' = front /\ generation' = generation
      /\ discontinuity' = discontinuity /\ duration' = duration /\ assembler' = assembler
      /\ captured' = captured /\ began' = began /\ block' = block
  BY <1>1 DEF monitorVars
<1>3. /\ lags \in Lags /\ began \in Nat /\ RequestInv(request) /\ ServerInv
      /\ request.window \in Seq(Samples) /\ request.generation \in Nat
      /\ request.generation <= generation
  BY DEF Inv, Types, MonitorInv, RequestsInv, RequestInv, Requests
<1>4. PICK result \in {mixed, <<>>} : Answer(request, result)
  BY DEF Tangle
<1>5. /\ result \in Seq(Samples) /\ Len(result) <= Len(request.window)
      /\ result \in Seq(Own(began))
  <2>1. CASE result = mixed
    <3> DEFINE n == Len(request.window)
    <3>1. n \in Nat /\ DOMAIN request.window = 1 .. n
      BY <1>3, LenProperties
    <3>2. mixed = [i \in 1 .. n |-> Mixed]
      BY <3>1
    <3> HIDE DEF n, mixed
    <3>3. ASSUME NEW S, Mixed \in S PROVE mixed \in Seq(S) /\ Len(mixed) = n
      <4>1. mixed \in [1 .. n -> S]
        BY <3>2, <3>3
      <4> QED
        BY <3>1, <4>1, FunctionIsSequence
    <3>4. Mixed \in Samples /\ Mixed \in Own(began)
      BY <1>3, OwnAreSamples DEF Samples
    <3>5. mixed \in Seq(Samples) /\ mixed \in Seq(Own(began)) /\ Len(mixed) <= n
      BY <3>1, <3>3, <3>4
    <3> QED
      BY <2>1, <3>5 DEF n
  <2>2. CASE result = <<>>
    BY <1>3, <2>2, NoAnswer
  <2> QED
    BY <2>1, <2>2
<1> HIDE DEF mixed
<1>6. ThreadInv' /\ ThreadIsOwn'
  BY <1>2, <1>4, <1>5, AnswerStep
<1>7. ServerInv' /\ ServerIsOwn'
  <2>1. CASE server' = server
    BY <1>2, <2>1 DEF Inv, Types, OwnSamples, ServerInv, ServerIsOwn
  <2>2. CASE server' = TangledStream(request.generation)
    <3>1. \A S : TangledStream(request.generation) \in Streams(S, lags)
      BY <1>3, NewStreamIsOne
    <3>2. server'.generation = request.generation
      BY <1>3, <2>2, NewStreamIsOne
    <3> QED
      BY <1>2, <1>3, <2>2, <3>1, <3>2 DEF ServerInv, ServerIsOwn
  <2> QED
    BY <1>1, <2>1, <2>2
<1>8. RequestsInv' /\ RequestsAreOwn'
  BY <1>2, TangleRemains, RequestsRemain
<1>9. MonitorInv'
  <2>1. disturbed' \in BOOLEAN
    BY <1>1, Zenon
  <2> QED
    BY <1>2, <2>1, Zenon DEF Inv, Types, MonitorInv
<1>10. BlockIsOwn'
  BY <1>2 DEF Inv, OwnSamples, BlockIsOwn
<1> QED
  BY <1>6, <1>7, <1>8, <1>9, <1>10 DEF Inv, Types, OwnSamples

\* Without its stream, the worker process has nothing of any generation.
LEMMA ForgetStep ==
  ASSUME Inv, Forget PROVE Inv'
<1>1. /\ server' = NewStream(0) /\ disturbed' = TRUE
      /\ UNCHANGED <<lags, monitorVars, threadVars, began, block>>
  BY DEF Forget, Forgotten
<1>2. /\ lags' = lags /\ front' = front /\ generation' = generation
      /\ discontinuity' = discontinuity /\ duration' = duration /\ thread' = thread
      /\ assembler' = assembler /\ captured' = captured /\ converted' = converted
      /\ began' = began /\ block' = block
  BY <1>1 DEF monitorVars, threadVars
<1>3. lags \in Lags /\ generation \in 1 .. MaxGenerations
  BY DEF Inv, Types, MonitorInv
<1>4. MonitorInv'
  <2>1. disturbed' \in BOOLEAN
    BY <1>1, Zenon
  <2> QED
    BY <1>2, <2>1, Zenon DEF Inv, Types, MonitorInv
<1>5. ServerInv' /\ ServerIsOwn'
  <2>1. server' \in Streams(Samples, lags) /\ server'.generation = 0
    BY <1>1, <1>3, NewStreamIsOne
  <2> QED
    BY <1>2, <1>3, <2>1 DEF ServerInv, ServerIsOwn
<1>6. ThreadInv' /\ ThreadIsOwn' /\ BlockIsOwn'
  BY <1>2 DEF Inv, Types, OwnSamples, ThreadInv, ThreadIsOwn, BlockIsOwn
<1>7. RequestsInv' /\ RequestsAreOwn'
  BY <1>2, ForgetRemains, RequestsRemain
<1> QED
  BY <1>4, <1>5, <1>6, <1>7 DEF Inv, Types, OwnSamples

\* A failure resets the assembler.
LEMMA ConversionFailsStep ==
  ASSUME Inv, ConversionFails PROVE Inv'
<1>1. /\ assembler' = NoStream /\ converted' = <<>> /\ disturbed' = TRUE
      /\ thread' = "ready" /\ captured' = captured
      /\ UNCHANGED <<lags, monitorVars, serverVars, began, block>>
  BY DEF ConversionFails, AssemblerAfterFailure
<1>2. /\ lags' = lags /\ front' = front /\ generation' = generation
      /\ discontinuity' = discontinuity /\ duration' = duration
      /\ requests' = requests /\ server' = server /\ began' = began /\ block' = block
  BY <1>1 DEF monitorVars, serverVars
<1>3. MonitorInv'
  <2>1. disturbed' \in BOOLEAN
    BY <1>1, Zenon
  <2> QED
    BY <1>2, <2>1, Zenon DEF Inv, Types, MonitorInv
<1>4. assembler' \in Assemblers(Samples) /\ assembler' \in Assemblers(Own(began))
  BY <1>1, NoStreamIsOne
<1>5. <<>> \in Seq(Samples) /\ <<>> \in Seq(Own(began)) /\ Len(<<>>) = 0
  BY EmptySeq
<1>6. ThreadInv' /\ ThreadIsOwn' /\ BlockIsOwn'
  <2>1. captured \in [number : 0 .. MaxWindows, generation : Nat, first : Nat, hop : Nat]
    BY DEF Inv, Types, ThreadInv
  <2>2. 0 <= window_frames(Rate, captured.hop)
    BY <2>1, WindowIsNat
  <2>3. ThreadInv'
    BY <1>1, <1>2, <1>4, <1>5, <2>2 DEF Inv, Types, ThreadInv
  <2> QED
    BY <1>1, <1>2, <1>4, <1>5, <2>3 DEF Inv, OwnSamples, ThreadIsOwn, BlockIsOwn
<1>7. RequestsInv' /\ RequestsAreOwn' /\ ServerInv' /\ ServerIsOwn'
  BY <1>1, <1>2 DEF Inv, Types, OwnSamples, RequestsInv, RequestsAreOwn, RequestInv,
                    ServerInv, ServerIsOwn
<1> QED
  BY <1>3, <1>6, <1>7 DEF Inv, Types, OwnSamples

\* A block is stitched from what belongs to the generation of its window. It is
\* heard only if that generation has not ended.
LEMMA StitchStep ==
  ASSUME Inv, DropBlock \/ AppendBlock PROVE Inv'
<1> DEFINE hop == captured.hop
           done(offset) == stitch(assembler, converted, hop, Context, Overlap, offset)
<1>1. /\ Stitches(converted, hop, Context, Overlap, Search)
      /\ thread' = "ready" /\ converted' = <<>> /\ disturbed' = disturbed
      /\ UNCHANGED <<lags, front, generation, discontinuity, captured, serverVars, began>>
  BY DEF DropBlock, AppendBlock, CanStitch
<1>2. /\ lags' = lags /\ front' = front /\ generation' = generation
      /\ discontinuity' = discontinuity /\ captured' = captured
      /\ requests' = requests /\ server' = server /\ began' = began
  BY <1>1 DEF serverVars
<1>3. /\ began \in Nat /\ hop \in Nat /\ assembler \in Assemblers(Samples)
      /\ converted \in Seq(Samples)
  BY DEF Inv, Types, MonitorInv, ThreadInv
<1>4. PICK offset \in 0 .. Search :
        /\ assembler' = done(offset).stream
        /\ \/ block' = block
           \/ generation = captured.generation /\ block' = done(offset).result
  <2>1. PICK heard \in BOOLEAN : Stitch(heard) /\ (heard => generation = captured.generation)
    <3>1. CASE DropBlock
      BY <3>1 DEF DropBlock
    <3>2. CASE AppendBlock
      BY <3>2 DEF AppendBlock
    <3> QED
      BY <3>1, <3>2
  <2>2. PICK offset \in Offsets(assembler.tail, converted, Context, Overlap, Search) :
          /\ assembler' = Stitched(offset).stream
          /\ block' = IF heard THEN Stitched(offset).result ELSE block
    BY <2>1 DEF Stitch
  <2>3. offset \in 0 .. Search
    BY OffsetInRange
  <2> QED
    BY <2>1, <2>2, <2>3 DEF Stitched
<1>5. ASSUME NEW S, Silence \in S, Mixed \in S, assembler \in Assemblers(S),
             converted \in Seq(S)
      PROVE  done(offset).result \in Seq(S) /\ done(offset).stream \in Assemblers(S)
  BY <1>1, <1>3, <1>4, <1>5, StitchProperties
<1> HIDE DEF done
<1>6. /\ Silence \in Samples /\ Mixed \in Samples
      /\ Silence \in Own(began) /\ Mixed \in Own(began)
  BY <1>3, OwnAreSamples DEF Samples
<1>7. assembler' \in Assemblers(Samples)
  BY <1>3, <1>4, <1>5, <1>6
<1>8. ASSUME generation = captured.generation
      PROVE  done(offset).result \in Seq(Own(began)) /\ assembler' \in Assemblers(Own(began))
  <2>1. assembler \in Assemblers(Own(began)) /\ converted \in Seq(Own(began))
    BY <1>8 DEF Inv, OwnSamples, ThreadIsOwn
  <2> QED
    BY <1>4, <1>5, <1>6, <2>1
<1>9. MonitorInv'
  <2>1. duration' \in Durations
    <3>1. duration \in Durations
      BY DEF Inv, Types, MonitorInv
    <3> QED
      BY <3>1 DEF DropBlock, AppendBlock
  <2> QED
    BY <1>1, <1>2, <2>1, Zenon DEF Inv, Types, MonitorInv
<1>10. <<>> \in Seq(Samples) /\ <<>> \in Seq(Own(began)) /\ Len(<<>>) = 0
  BY EmptySeq
<1>11. ThreadInv'
  <2>1. 0 <= window_frames(Rate, captured.hop)
    BY <1>3, WindowIsNat
  <2> QED
    BY <1>1, <1>2, <1>7, <1>10, <2>1 DEF Inv, Types, ThreadInv
<1>12. ThreadIsOwn'
  BY <1>1, <1>2, <1>8, <1>10 DEF Inv, OwnSamples, ThreadIsOwn
<1>13. RequestsInv' /\ RequestsAreOwn' /\ ServerInv' /\ ServerIsOwn'
  BY <1>2 DEF Inv, Types, OwnSamples, RequestsInv, RequestsAreOwn, RequestInv,
              ServerInv, ServerIsOwn
<1>14. BlockIsOwn'
  BY <1>2, <1>4, <1>8 DEF Inv, OwnSamples, BlockIsOwn
<1> QED
  BY <1>9, <1>11, <1>12, <1>13, <1>14 DEF Inv, Types, OwnSamples

\* A step that changes nothing.
LEMMA StutterStep ==
  ASSUME Inv, UNCHANGED vars PROVE Inv'
<1>1. /\ lags' = lags /\ front' = front /\ generation' = generation
      /\ discontinuity' = discontinuity /\ duration' = duration /\ thread' = thread
      /\ assembler' = assembler /\ captured' = captured /\ converted' = converted
      /\ requests' = requests /\ server' = server /\ began' = began /\ block' = block
      /\ disturbed' = disturbed
  BY DEF vars, monitorVars, threadVars, serverVars, ghostVars
<1>2. MonitorInv'
  BY <1>1, Zenon DEF Inv, Types, MonitorInv
<1>3. ThreadInv' /\ ServerInv' /\ ThreadIsOwn' /\ ServerIsOwn' /\ BlockIsOwn'
  BY <1>1 DEF Inv, Types, OwnSamples, ThreadInv, ServerInv, ThreadIsOwn, ServerIsOwn,
              BlockIsOwn
<1>4. RequestsInv' /\ RequestsAreOwn'
  BY <1>1 DEF Inv, Types, OwnSamples, RequestsInv, RequestsAreOwn, RequestInv
<1> QED
  BY <1>2, <1>3, <1>4 DEF Inv, Types, OwnSamples

\* Every reachable state has the sizes that window and stitch rely on, and what
\* belongs to the generation has been made of its samples only.
THEOREM StreamInvariant == Spec => []Inv
<1>1. ASSUME Inv, [Next]_vars PROVE Inv'
  <2>1. CASE Discontinue
    BY <1>1, <2>1, DiscontinueStep
  <2>2. CASE Capture
    BY <1>1, <2>2, CaptureStep
  <2>3. CASE \E request \in requests : Serve(request)
    BY <1>1, <2>3, ServeStep
  <2>4. CASE \E request \in requests : Tangle(request)
    BY <1>1, <2>4, TangleStep
  <2>5. CASE Forget
    BY <1>1, <2>5, ForgetStep
  <2>6. CASE ConversionFails
    BY <1>1, <2>6, ConversionFailsStep
  <2>7. CASE DropBlock \/ AppendBlock
    BY <1>1, <2>7, StitchStep
  <2>8. CASE UNCHANGED vars
    BY <1>1, <2>8, StutterStep
  <2> QED
    BY <1>1, <2>1, <2>2, <2>3, <2>4, <2>5, <2>6, <2>7, <2>8 DEF Next
<1> QED
  BY InvInit, <1>1, PTL DEF Spec

\* Every variable has its type and every buffer its size: an answer is never longer
\* than its window, though the resamplers hold back, repeat, pad and cut.
THEOREM TypeCorrect == Spec => []TypeOK
<1>1. Inv => TypeOK
  <2> SUFFICES ASSUME Inv PROVE TypeOK
    OBVIOUS
  <2>1. /\ lags \in Lags /\ front \in Nat /\ generation \in 1 .. MaxGenerations
        /\ discontinuity \in BOOLEAN /\ duration \in Durations /\ disturbed \in BOOLEAN
    BY Zenon DEF Inv, Types, MonitorInv
  <2>2. /\ thread \in {"ready", "waiting", "answered"}
        /\ Len(assembler.history) \in {0, Context} /\ Len(assembler.tail) \in {0, Overlap}
        /\ Len(converted) <= window_frames(Rate, captured.hop)
        /\ captured.number \in 0 .. MaxWindows
        /\ captured.generation \in Nat /\ captured.generation <= generation
    BY DEF Inv, Types, ThreadInv, Assemblers
  <2>3. \A request \in requests : request.number <= captured.number
    BY DEF Inv, Types, RequestsInv, RequestInv
  <2>4. server.generation \in Nat /\ server.generation <= generation
    BY DEF Inv, Types, ServerInv, Streams
  <2>5. captured.generation \in 0 .. generation /\ server.generation \in 0 .. generation
    BY <2>1, <2>2, <2>4
  <2> QED
    BY <2>1, <2>2, <2>3, <2>5, Zenon DEF TypeOK
<1> QED
  BY <1>1, StreamInvariant, PTL

\* Whatever fails and whatever is served late, in any order: no sample from before
\* a discontinuity is heard after it.
THEOREM NothingIsHeardFromBefore == Spec => []NothingFromBefore
<1>1. Inv => NothingFromBefore
  <2> SUFFICES ASSUME Inv, NEW i \in DOMAIN block
               PROVE  block[i] \in {Silence, Mixed} \/ block[i] >= began
    BY DEF NothingFromBefore
  <2>1. block \in Seq(Own(began))
    BY DEF Inv, OwnSamples, BlockIsOwn
  <2>2. block[i] \in Own(began)
    BY <2>1, ElementOfSeq, LenProperties
  <2> QED
    BY <2>2 DEF Own
<1> QED
  BY <1>1, StreamInvariant, PTL
-----------------------------------------------------------------------------
\* How much of two adjacent windows is the same: 100 ms.
Shared == Context + Lookahead

\* A window: behind the context it is contiguous, and its block is not too short.
IsWindow(w) ==
  /\ Len(w) >= Shared + Lookahead
  /\ \A i \in Context + 1 .. Len(w) : w[i] = w[Context + 1] + i - Context - 1

\* A conversion of samples has their length.
SameLength(s, t) == Len(s) = Len(t)

\* What was resampled is at most the lag behind what it was made of.
Behind(result, samples, lag) ==
  \A i \in 1 .. Len(samples) : result[i] - samples[i] \in -lag .. 0

\* From an index on, a sequence goes on by a position, holds, or skips up to the slack.
Moves(s, first, slack) ==
  \A i \in first .. Len(s) - 1 : s[i + 1] - s[i] \in 0 .. 1 + slack

\* From an index on, a result comes as late as what was held back before it, and its
\* end is repeated, or cut off, by what is held back after it.
Delayed(result, samples, from, before, after) ==
  \A i \in from .. Len(samples) :
    result[i] = samples[Least(i - before, Len(samples) - after)]

\* It ends no later than what is held back then, and no earlier than the lag.
EndsAt(result, samples, held, lag) ==
  \E behind \in held .. lag : result[Len(samples)] = samples[Len(samples) - behind]

\* What a resampler makes of a window, and holds back of it.
Made(result, samples, held, lag) ==
  /\ SameLength(result, samples)
  /\ Behind(result, samples, lag)
  /\ Moves(result, Context + 1, lag)
  /\ EndsAt(result, samples, held, lag)

\* A sequence is the end of another one.
Ends(end, s) == \A i \in 1 .. Len(end) : end[i] = s[Len(s) - Len(end) + i]

\* The input resampler: it remembers a window and what it made of that.
InputShape(r, lag) ==
  r.previous_input # <<>> =>
    /\ IsWindow(r.previous_input)
    /\ Ends(r.held, r.previous_input)
    /\ Made(r.previous_output, r.previous_input, Len(r.held), lag)

\* The stream of the worker process: its filter, its input resampler, and that the
\* output resampler, which is told the overlap and so may repeat anything, is told none
\* before it has seen anything.
StreamShape(stream) ==
  /\ stream.filter_input = <<>> \/ Len(stream.filter_input) >= Shared
  /\ lags.input > 0 => InputShape(stream.input_resampler, lags.input)
  /\ stream.filter_input = <<>> => stream.output_resampler.previous_input = <<>>

\* A position is as near to where it belongs as the search and the lags allow.
Near(p, q) == p # Mixed => p - q \in -(lags.input + lags.output) .. Search

\* The window in flight: the front of input is behind its block, unless something came
\* in between, and then there is a new generation.
FlightShape ==
  /\ discontinuity => captured.generation # generation
  /\ captured.generation = generation => front = captured.first + captured.hop
  /\ thread # "ready" => captured.hop >= Lookahead

\* Every request is for a window; the one that is awaited begins with its block.
RequestsShape ==
  \A request \in requests :
    /\ IsWindow(request.window)
    /\ request.number = captured.number => request.window[Context + 1] = captured.first

\* The tail is the neighbour of the block in flight, or of the next one.
TailShape ==
  /\ thread # "ready" =>
       \A i \in 1 .. Len(assembler.tail) : Near(assembler.tail[i], captured.first + i - 1)
  /\ thread = "ready" /\ ~discontinuity =>
       \A i \in 1 .. Len(assembler.tail) : Near(assembler.tail[i], front + i - 1)

\* Of an answer nothing is known, or behind what was held back before it, it is near
\* the positions of its window, and goes on as the window does.
IsAnswer(answer, first) ==
  \/ \A i \in 1 .. Len(answer) : answer[i] = Mixed
  \/ /\ \A i \in Context + lags.output + 1 .. Len(answer) :
          answer[i] - (first + i - Context - 1) \in -(lags.input + lags.output) .. 0
     /\ Moves(answer, Context + lags.output + 1, lags.input)

AnswerShape == thread = "answered" => IsAnswer(converted, captured.first)

\* What every state has, disturbed or not.
Shapes == FlightShape /\ RequestsShape /\ StreamShape(server) /\ TailShape /\ AnswerShape
-----------------------------------------------------------------------------
\* The samples of what is first, final or left of a sequence that is long enough.
LEMMA FirstIs ==
  ASSUME NEW s \in Seq(Samples), NEW n \in Nat, n <= Len(s)
  PROVE  /\ First(s, n) \in Seq(Samples) /\ Len(First(s, n)) = n
         /\ \A i \in 1 .. n : First(s, n)[i] = s[i]
<1>1. Len(s) \in Nat
  BY LenProperties
<1>2. \A i \in 1 .. n : s[i] \in Samples
  BY <1>1, ElementOfSeq
<1>3. \A i \in 1 .. n - 1 + 1 : SubSeq(s, 1, n)[i] = s[1 + i - 1]
  BY <1>2, SubSeqProperties
<1>5. First(s, n) \in Seq(Samples) /\ Len(First(s, n)) = n
  BY EndsProperties
<1> QED
  BY <1>5, <1>3 DEF First

\* The final samples.
LEMMA FinalIs ==
  ASSUME NEW s \in Seq(Samples), NEW n \in Nat, n <= Len(s)
  PROVE  /\ Final(s, n) \in Seq(Samples) /\ Len(Final(s, n)) = n
         /\ \A i \in 1 .. n : Final(s, n)[i] = s[Len(s) - n + i]
<1> DEFINE l == Len(s)
           m == l - n + 1
<1>1. l \in Nat /\ m \in Nat \ {0} /\ l - m + 1 = n /\ m <= l + 1
  BY LenProperties
<1>2. \A i \in m .. l : s[i] \in Samples
  BY <1>1, ElementOfSeq
<1>3. Final(s, n) = SubSeq(s, m, l) /\ \A i \in 1 .. n : m + i - 1 = l - n + i
  BY <1>1 DEF Final
<1> HIDE DEF m, l
<1>4. \A i \in 1 .. l - m + 1 : SubSeq(s, m, l)[i] = s[m + i - 1]
  BY <1>1, <1>2, SubSeqProperties
<1>5. Final(s, n) \in Seq(Samples) /\ Len(Final(s, n)) = n
  BY EndsProperties
<1> QED
  BY <1>5, <1>1, <1>3, <1>4 DEF l

\* What is left.
LEMMA DropIs ==
  ASSUME NEW s \in Seq(Samples), NEW n \in Nat, n <= Len(s)
  PROVE  /\ Drop(s, n) \in Seq(Samples) /\ Len(Drop(s, n)) = Len(s) - n
         /\ \A i \in 1 .. Len(s) - n : Drop(s, n)[i] = s[n + i]
<1> DEFINE l == Len(s)
           m == n + 1
<1>1. l \in Nat /\ m \in Nat \ {0} /\ l - m + 1 = l - n /\ m <= l + 1
  BY LenProperties
<1>2. \A i \in m .. l : s[i] \in Samples
  BY <1>1, ElementOfSeq
<1>3. Drop(s, n) = SubSeq(s, m, l) /\ \A i \in 1 .. l - n : m + i - 1 = n + i
  BY <1>1 DEF Drop
<1> HIDE DEF m, l
<1>4. \A i \in 1 .. l - m + 1 : SubSeq(s, m, l)[i] = s[m + i - 1]
  BY <1>1, <1>2, SubSeqProperties
<1>5. Drop(s, n) \in Seq(Samples) /\ Len(Drop(s, n)) = Len(s) - n
  BY EndsProperties
<1> QED
  BY <1>5, <1>1, <1>3, <1>4 DEF l

\* The samples of a slice that lies inside of what was converted.
LEMMA SliceIs ==
  ASSUME NEW s \in Seq(Samples), NEW from \in Nat, NEW n \in Nat, from + n <= Len(s)
  PROVE  /\ Slice(s, from, n) \in Seq(Samples) /\ Len(Slice(s, from, n)) = n
         /\ \A i \in 1 .. n : Slice(s, from, n)[i] = s[from + i]
<1> DEFINE m == from + 1
           l == from + n
<1>1. l \in Nat /\ m \in Nat \ {0} /\ l - m + 1 = n /\ m <= l + 1 /\ l <= Len(s)
  BY LenProperties
<1>2. \A i \in m .. l : s[i] \in Samples
  BY <1>1, LenProperties, ElementOfSeq
<1>3. Slice(s, from, n) = SubSeq(s, m, l) /\ \A i \in 1 .. n : m + i - 1 = from + i
  BY DEF Slice
<1> HIDE DEF m, l
<1>4. \A i \in 1 .. l - m + 1 : SubSeq(s, m, l)[i] = s[m + i - 1]
  BY <1>1, <1>2, SubSeqProperties
<1>5. Slice(s, from, n) \in Seq(Samples) /\ Len(Slice(s, from, n)) = n
  BY SliceProperties
<1> QED
  BY <1>5, <1>1, <1>3, <1>4

\* The samples of two sequences in a row.
LEMMA RowIs ==
  ASSUME NEW s \in Seq(Samples), NEW t \in Seq(Samples)
  PROVE  /\ s \o t \in Seq(Samples) /\ Len(s \o t) = Len(s) + Len(t)
         /\ \A i \in 1 .. Len(s) : (s \o t)[i] = s[i]
         /\ \A i \in 1 .. Len(t) : (s \o t)[Len(s) + i] = t[i]
<1> DEFINE m == Len(s)
           n == Len(t)
<1>1. m \in Nat /\ n \in Nat
  BY LenProperties
<1>2. /\ s \o t \in Seq(Samples) /\ Len(s \o t) = m + n
      /\ \A i \in 1 .. m + n : (s \o t)[i] = IF i <= m THEN s[i] ELSE t[i - m]
  BY ConcatProperties
<1>3. \A i \in 1 .. n : m + i \in 1 .. m + n /\ ~(m + i <= m) /\ (m + i) - m = i
  BY <1>1
<1>4. \A i \in 1 .. n : (s \o t)[m + i] = t[(m + i) - m]
  BY <1>2, <1>3
<1> QED
  BY <1>1, <1>2, <1>3, <1>4

\* The overlap that resample takes: the stated one, or else the one it detects.
OverlapOf(r, samples, rate, stated) ==
  LET known == Least(Least(stated, Len(r.previous_input)), Len(samples))
  IN  IF known > 0 THEN known ELSE DetectedOverlap(r.previous_input, samples, rate)

\* What is fitted repeats the last sample if it is too short.
LEMMA FittedIs ==
  ASSUME NEW s \in Seq(Samples), s # <<>>, NEW n \in Nat, NEW l, Len(s) = l
  PROVE  \A i \in 1 .. n : Fitted(s, n)[i] = s[Least(i, l)]
  BY DEF Fitted

\* What is fed to the library: what it held back, and what does not overlap.
Fed(former, samples, o) == former \o Drop(samples, o)

\* It is the one after the other.
IsFed(fed, former, samples, o) ==
  /\ \A i \in 1 .. Len(former) : fed[i] = former[i]
  /\ \A i \in 1 .. Len(samples) - o : fed[Len(former) + i] = samples[o + i]

\* Its length and its samples.
LEMMA FedIs ==
  ASSUME NEW former \in Seq(Samples), NEW samples \in Seq(Samples),
         NEW o \in Nat, o <= Len(samples)
  PROVE  LET fed == Fed(former, samples, o)
         IN  /\ fed \in Seq(Samples) /\ Len(fed) = Len(former) + (Len(samples) - o)
             /\ IsFed(fed, former, samples, o)
<1>1. PICK rest : rest = Drop(samples, o)
  OBVIOUS
<1>2. /\ rest \in Seq(Samples) /\ Len(rest) = Len(samples) - o
      /\ \A i \in 1 .. Len(samples) - o : rest[i] = samples[o + i]
  BY <1>1, DropIs
<1>3. /\ former \o rest \in Seq(Samples) /\ Len(former \o rest) = Len(former) + Len(rest)
      /\ \A i \in 1 .. Len(former) : (former \o rest)[i] = former[i]
      /\ \A i \in 1 .. Len(rest) : (former \o rest)[Len(former) + i] = rest[i]
  BY <1>2, RowIs
<1> QED
  BY <1>1, <1>2, <1>3 DEF Fed, IsFed


\* A result repeats the end of the one before it.
Repeats(result, output, n) == \A i \in 1 .. n : result[i] = output[Len(output) - n + i]

\* What was fed follows, but for what is held back of it; what lacks is repeated.
Follows(result, fed, o, n, held) ==
  \A i \in 1 .. n : result[o + i] = fed[Least(i, Len(fed) - held)]

\* What is fed to the library for samples of which so many overlap.
Feeds(r, samples, rate, stated, o, former, fed) ==
  /\ o \in Nat /\ o <= Len(r.previous_output) /\ o <= Len(samples)
  /\ o = OverlapOf(r, samples, rate, stated)
  /\ former \in Seq(Samples) /\ former = IF o > 0 THEN r.held ELSE <<>>
  /\ fed = Fed(former, samples, o)

\* What comes of it.
Resampled(done, output, samples, o, fed, holds) ==
  /\ done.resampler = [held |-> Final(fed, holds), previous_input |-> samples,
                       previous_output |-> done.result]
  /\ Repeats(done.result, output, o)
  /\ Follows(done.result, fed, o, Len(samples) - o, holds)

\* The library is fed what it held back, and what does not overlap, and it holds back
\* less than that: the result is what overlaps of the one before, and then the rest.
LEMMA ResampledIs ==
  ASSUME NEW lag \in Nat, lag # 0, NEW r \in Resamplers(Samples, lag),
         NEW samples \in Seq(Samples), NEW rate, NEW stated,
         NEW o, NEW former, NEW fed, Feeds(r, samples, rate, stated, o, former, fed),
         NEW holds \in Nat, holds < Len(fed),
         NEW done, done = resample(r, samples, rate, lag, holds, stated)
  PROVE  Resampled(done, r.previous_output, samples, o, fed, holds)
<1>0. /\ o \in Nat /\ o <= Len(r.previous_output) /\ o <= Len(samples)
      /\ o = OverlapOf(r, samples, rate, stated)
      /\ former \in Seq(Samples) /\ former = IF o > 0 THEN r.held ELSE <<>>
      /\ fed = Fed(former, samples, o)
  BY DEF Feeds
<1> USE <1>0
<1>1. PICK output \in Seq(Samples) : output = r.previous_output
  BY DEF Resamplers
<1>2. fed \in Seq(Samples) /\ Len(fed) \in Nat /\ Len(samples) \in Nat /\ Len(output) \in Nat
  <2>1. fed \in Seq(Samples)
    BY FedIs
  <2> QED
    BY <2>1, LenProperties
<1>3. PICK n : n = Len(fed) - holds
  OBVIOUS
<1>4. n \in Nat \ {0} /\ n <= Len(fed) /\ Least(holds, Len(fed)) = holds
  BY <1>2, <1>3 DEF Least
<1>5. PICK fresh : fresh = First(fed, n)
  OBVIOUS
<1>6. fresh \in Seq(Samples) /\ Len(fresh) = n /\ \A i \in 1 .. n : fresh[i] = fed[i]
  <2>1. n \in Nat /\ n <= Len(fed) /\ fed \in Seq(Samples)
    BY <1>2, <1>4
  <2> QED
    BY <1>5, <2>1, FirstIs
<1>7. PICK prefix : prefix = Final(output, o)
  OBVIOUS
<1>8. /\ prefix \in Seq(Samples) /\ Len(prefix) = o
      /\ \A i \in 1 .. o : prefix[i] = output[Len(output) - o + i]
  BY <1>1, <1>7, FinalIs
<1>9. PICK both : both = prefix \o fresh
  OBVIOUS
<1>10. /\ both \in Seq(Samples) /\ Len(both) = o + n
       /\ \A i \in 1 .. o : both[i] = prefix[i]
       /\ \A i \in 1 .. n : both[o + i] = fresh[i]
  <2>1. prefix \in Seq(Samples) /\ fresh \in Seq(Samples)
    BY <1>6, <1>8
  <2>2. /\ both \in Seq(Samples) /\ Len(both) = Len(prefix) + Len(fresh)
        /\ \A i \in 1 .. Len(prefix) : both[i] = prefix[i]
        /\ \A i \in 1 .. Len(fresh) : both[Len(prefix) + i] = fresh[i]
    BY <1>9, <2>1, RowIs
  <2> QED
    BY <1>6, <1>8, <2>2
<1>11. PICK size : size = Len(samples)
  OBVIOUS
<1>12. PICK result : result = Fitted(both, size)
  OBVIOUS
<1>13. \A i \in 1 .. size : result[i] = both[Least(i, o + n)]
  <2>1. both # <<>>
    BY <1>4, <1>10, EmptySeq
  <2> QED
    BY <1>2, <1>10, <1>11, <1>12, <2>1, FittedIs
<1>14. ASSUME NEW i \in 1 .. o PROVE result[i] = output[Len(output) - o + i]
  <2>1. i \in 1 .. size /\ Least(i, o + n) = i
    BY <1>2, <1>4, <1>11 DEF Least
  <2> QED
    BY <1>8, <1>10, <1>13, <2>1
<1>15. ASSUME NEW i \in 1 .. size - o PROVE result[o + i] = fed[Least(i, n)]
  <2>1. PICK k : k = Least(i, n)
    OBVIOUS
  <2>2. o + i \in 1 .. size /\ k \in 1 .. n /\ Least(o + i, o + n) = o + k
    <3>1. size \in Nat /\ n \in Nat \ {0} /\ i \in 1 .. size - o
      BY <1>2, <1>4, <1>11
    <3>2. CASE i <= n
      BY <2>1, <3>1, <3>2 DEF Least
    <3>3. CASE ~(i <= n)
      BY <2>1, <3>1, <3>3 DEF Least
    <3> QED
      BY <3>2, <3>3
  <2>3. result[o + i] = both[o + k]
    BY <1>13, <2>2
  <2> QED
    BY <1>6, <1>10, <2>1, <2>2, <2>3
<1>16. done = [result |-> result,
               resampler |-> [held |-> Final(fed, holds), previous_input |-> samples,
                              previous_output |-> result]]
  <2>1. fed = (IF o > 0 THEN r.held ELSE <<>>) \o Drop(samples, o)
    BY DEF Fed
  <2>2. result = Fitted(Final(r.previous_output, o) \o First(fed, Len(fed) - holds), Len(samples))
    BY <1>1, <1>3, <1>5, <1>7, <1>9, <1>11, <1>12
  <2>3. Least(holds, Len(fed)) = holds
    BY <1>4
  <2> QED
    BY <2>1, <2>2, <2>3 DEF resample, OverlapOf
<1>17. done.resampler = [held |-> Final(fed, holds), previous_input |-> samples,
                         previous_output |-> done.result] /\ done.result = result
  BY <1>16
<1>18. Repeats(result, output, o) /\ Follows(result, fed, o, Len(samples) - o, holds)
  BY <1>3, <1>11, <1>14, <1>15 DEF Repeats, Follows
<1> QED
  BY <1>1, <1>17, <1>18 DEF Resampled

\* Which sample comes, and how late.
LEMMA DelayIs ==
  ASSUME NEW i \in Nat, NEW size \in Nat, NEW before \in Nat, NEW after \in Nat, i <= size
  PROVE  /\ Least(i - before, size - after) \in Int
         /\ Least(i - before, size - after) <= i - before
         /\ Least(i - before, size - after) <= size - after
         /\ \A lag \in Nat : before <= lag /\ after <= lag =>
              i - Least(i - before, size - after) \in 0 .. lag
         /\ Least(i + 1 - before, size - after) - Least(i - before, size - after) \in {0, 1}
  BY DEF Least

\* What was held back comes first, and then the samples.
LEMMA DelayedAfter ==
  ASSUME NEW former \in Seq(Samples), NEW samples \in Seq(Samples),
         NEW o \in Nat, o <= Len(samples), NEW fed, fed = Fed(former, samples, o),
         NEW holds \in Nat, holds < Len(samples) - o, NEW result,
         Follows(result, fed, o, Len(samples) - o, holds)
  PROVE  /\ Delayed(result, samples, o + Len(former) + 1, Len(former), holds)
         /\ \A i \in 1 .. Len(former) : o + i <= Len(samples) =>
              i <= Len(fed) - holds /\ result[o + i] = former[i]
<1>1. PICK size, h : size = Len(samples) /\ h = Len(former)
  OBVIOUS
<1>2. size \in Nat /\ h \in Nat
  BY <1>1, LenProperties
<1>3. Len(fed) = h + (size - o) /\ IsFed(fed, former, samples, o)
  BY <1>1, FedIs
<1>4. PICK n : n = Len(fed) - holds
  OBVIOUS
<1>5. n \in Nat /\ n = h + size - o - holds /\ n > h
  BY <1>1, <1>2, <1>3, <1>4
<1>6. ASSUME NEW i \in o + h + 1 .. size
      PROVE  result[i] = samples[Least(i - h, size - holds)]
  <2>1. PICK j : j = i - o
    OBVIOUS
  <2>2. j \in 1 .. size - o /\ o + j = i /\ j > h
    BY <1>2, <2>1
  <2>3. result[o + j] = fed[Least(j, n)]
    BY <1>1, <1>4, <2>2 DEF Follows
  <2>4. PICK k : k = Least(j, n) - h
    OBVIOUS
  <2>5. /\ k \in 1 .. size - o /\ h + k = Least(j, n)
        /\ o + k = Least(i - h, size - holds)
    BY <1>2, <1>5, <2>1, <2>2, <2>4 DEF Least
  <2>6. fed[h + k] = samples[o + k]
    BY <1>1, <1>3, <2>5 DEF IsFed
  <2> QED
    BY <2>2, <2>3, <2>5, <2>6
<1>7. ASSUME NEW i \in 1 .. h, o + i <= size PROVE i <= n /\ result[o + i] = former[i]
  <2>1. i \in 1 .. size - o /\ i <= n /\ Least(i, n) = i
    BY <1>2, <1>5, <1>7 DEF Least
  <2>2. result[o + i] = fed[i]
    BY <1>1, <1>4, <2>1 DEF Follows
  <2> QED
    BY <1>1, <1>3, <2>1, <2>2 DEF IsFed
<1> QED
  BY <1>1, <1>4, <1>6, <1>7 DEF Delayed

\* If what is fed is the end of the samples, all of it comes as late as what was held.
LEMMA DelayedFrom ==
  ASSUME NEW samples \in Seq(Samples), NEW fed \in Seq(Samples), Ends(fed, samples),
         NEW o \in Nat, NEW before \in Nat, Len(fed) = before + (Len(samples) - o),
         NEW holds \in Nat, holds < Len(fed), NEW result,
         Follows(result, fed, o, Len(samples) - o, holds)
  PROVE  Delayed(result, samples, o + 1, before, holds)
<1>1. PICK size : size = Len(samples)
  OBVIOUS
<1>2. PICK all : all = Len(fed)
  OBVIOUS
<1>3. size \in Nat /\ all \in Nat /\ all = before + (size - o) /\ holds < all
  BY <1>1, <1>2, LenProperties
<1>4. ASSUME NEW i \in o + 1 .. size
      PROVE  result[i] = samples[Least(i - before, size - holds)]
  <2>1. PICK j : j = i - o
    OBVIOUS
  <2>2. j \in 1 .. size - o /\ o + j = i
    BY <1>3, <2>1
  <2>3. PICK k : k = Least(j, all - holds)
    OBVIOUS
  <2>4. result[i] = fed[k]
    BY <1>1, <1>2, <2>2, <2>3 DEF Follows
  <2>5. k \in 1 .. all /\ size - all + k = Least(i - before, size - holds)
    BY <1>3, <2>1, <2>2, <2>3 DEF Least
  <2>6. fed[k] = samples[size - all + k]
    BY <1>1, <1>2, <2>5 DEF Ends
  <2> QED
    BY <2>4, <2>5, <2>6
<1> QED
  BY <1>1, <1>4 DEF Delayed
-----------------------------------------------------------------------------
\* The parts of a window fit in what two windows share, with a lag to spare.
LEMMA SizesFit ==
  ASSUME lags \in Lags
  PROVE  /\ Context \in Nat /\ Lookahead \in Nat /\ Overlap \in Nat /\ Search \in Nat
         /\ Overlap >= 2 /\ Overlap <= Context /\ Shared \in Nat /\ Shared = Context + Lookahead
         /\ lags.input \in Nat /\ lags.output \in Nat
         /\ lags.output <= Search /\ lags.input + lags.output < Overlap + Search
         /\ Search <= Overlap /\ Overlap + Search <= Lookahead
<1>1. /\ lags.input \in Nat /\ lags.output \in Nat
      /\ lags.output <= Search /\ lags.input + lags.output < Overlap + Search
  BY VoiceStreamAssumption, LagsAssumption
<1>2. Overlap <= Context
  BY SizesAreNat DEF Context, context_frames, Overlap, overlap_frames, frame_count_for_duration,
                     kStreamHistoryMs, kStreamOverlapMs
<1>3. Search <= Overlap
  BY SizesAreNat DEF Overlap, overlap_frames, Search, search_frames, frame_count_for_duration,
                     kStreamOverlapMs, kStreamSearchMs
<1>4. Overlap + Search <= Lookahead
  BY SizesAreNat DEF Overlap, overlap_frames, Search, search_frames, Lookahead,
                     lookahead_frames, frame_count_for_duration, kStreamOverlapMs,
                     kStreamSearchMs, kStreamLookaheadMs
<1> QED
  BY <1>1, <1>2, <1>3, <1>4, SizesAreNat, RateAssumption DEF Shared

\* Between two windows, the overlap that is found is what they share, or none.
LEMMA DetectedIsShared ==
  ASSUME lags \in Lags, NEW previous \in Seq(Samples), NEW samples \in Seq(Samples),
         Len(previous) >= Shared, Len(samples) >= Shared
  PROVE  DetectedOverlap(previous, samples, Rate)
           = IF Final(previous, Shared) = First(samples, Shared) THEN Shared ELSE 0
<1> DEFINE n == Least(Least(Len(previous), Len(samples)), Rate \div 10)
<1>1. Len(previous) \in Nat /\ Len(samples) \in Nat /\ Shared \in Nat /\ Rate \div 10 = Shared
  BY LenProperties, SizesFit, RateAssumption
<1>2. n = Shared
  <2>1. Least(Len(previous), Len(samples)) >= Shared
    BY <1>1 DEF Least
  <2> QED
    BY <1>1, <2>1 DEF Least
<1> QED
  BY <1>2 DEF DetectedOverlap

\* Without a window before, none is found.
LEMMA NoneDetected ==
  ASSUME NEW samples \in Seq(Samples)
  PROVE  DetectedOverlap(<<>>, samples, Rate) = 0
<1>1. /\ DetectedOverlap(<<>>, samples, Rate) \in Nat
      /\ DetectedOverlap(<<>>, samples, Rate) <= Len(<<>>)
  BY SizesAreNat, EmptySeq, DetectedOverlapInRange
<1> QED
  BY <1>1, EmptySeq

\* Where nothing is stated, what is detected counts.
LEMMA OverlapUnstated ==
  ASSUME NEW r, r.previous_input \in Seq(Samples), NEW samples \in Seq(Samples)
  PROVE  OverlapOf(r, samples, Rate, 0) = DetectedOverlap(r.previous_input, samples, Rate)
<1>1. Len(r.previous_input) \in Nat /\ Len(samples) \in Nat
  BY LenProperties
<1> QED
  BY <1>1 DEF OverlapOf, Least

\* Samples are integers.
LEMMA SampleIsInt ==
  ASSUME NEW s \in Seq(Samples), NEW i \in 1 .. Len(s)
  PROVE  s[i] \in Int
<1>1. s[i] \in Samples
  BY ElementOfSeq
<1> QED
  BY <1>1 DEF Samples, Own, Silence, Mixed

\* A window goes on by one position from sample to sample.
LEMMA WindowIs ==
  ASSUME lags \in Lags, NEW w \in Seq(Samples), IsWindow(w)
  PROVE  /\ Len(w) \in Nat /\ Len(w) >= Shared /\ Len(w) >= Shared + Lookahead
         /\ \A i \in 1 .. Len(w) : w[i] \in Int
         /\ \A i, j \in Context + 1 .. Len(w) : w[i] - w[j] = i - j
<1>1. Len(w) \in Nat /\ Len(w) >= Shared /\ Len(w) >= Shared + Lookahead
  BY LenProperties, SizesFit DEF IsWindow
<1>2. \A i \in 1 .. Len(w) : w[i] \in Int
  BY SampleIsInt
<1>3. ASSUME NEW i \in Context + 1 .. Len(w), NEW j \in Context + 1 .. Len(w)
      PROVE  w[i] - w[j] = i - j
  <2>1. /\ w[i] = w[Context + 1] + i - Context - 1
        /\ w[j] = w[Context + 1] + j - Context - 1
    BY DEF IsWindow
  <2>2. PICK c : c = w[Context + 1]
    OBVIOUS
  <2>3. c \in Int
    <3>1. Context + 1 \in 1 .. Len(w)
      BY <1>1, SizesFit
    <3> QED
      BY <1>2, <2>2, <3>1
  <2>4. w[i] = c + i - Context - 1 /\ w[j] = c + j - Context - 1
    BY <2>1, <2>2
  <2>5. i \in Int /\ j \in Int /\ Context \in Int
    BY SizesFit
  <2>6. (c + i - Context - 1) - (c + j - Context - 1) = i - j
    BY <2>3, <2>5
  <2> QED
    BY <2>4, <2>6
<1> QED
  BY <1>1, <1>2, <1>3

\* Where two windows share what they share.
LEMMA SharedIs ==
  ASSUME lags \in Lags, NEW v \in Seq(Samples), NEW w \in Seq(Samples),
         Len(v) >= Shared, Len(w) >= Shared, Final(v, Shared) = First(w, Shared)
  PROVE  \A i \in 1 .. Shared : v[Len(v) - Shared + i] = w[i]
<1>1. Shared \in Nat
  BY SizesFit
<1>2. \A i \in 1 .. Shared : Final(v, Shared)[i] = v[Len(v) - Shared + i]
  BY <1>1, FinalIs
<1>3. \A i \in 1 .. Shared : First(w, Shared)[i] = w[i]
  BY <1>1, FirstIs
<1> QED
  BY <1>2, <1>3

\* What is fed to the library, after windows that share what they share, is the window
\* from the lag before that on.
LEMMA FedGoesOn ==
  ASSUME lags \in Lags, NEW v \in Seq(Samples), NEW w \in Seq(Samples),
         Len(v) >= Shared, Len(w) >= Shared, Final(v, Shared) = First(w, Shared),
         NEW former \in Seq(Samples), Len(former) <= Shared, Ends(former, v),
         NEW fed, fed = Fed(former, w, Shared)
  PROVE  /\ fed \in Seq(Samples) /\ Len(fed) = Len(former) + (Len(w) - Shared)
         /\ Ends(fed, w)
<1>1. /\ Shared \in Nat /\ Len(v) \in Nat /\ Len(w) \in Nat /\ Len(former) \in Nat
  BY SizesFit, LenProperties
<1>2. /\ fed \in Seq(Samples) /\ Len(fed) = Len(former) + (Len(w) - Shared)
      /\ IsFed(fed, former, w, Shared)
  BY <1>1, FedIs
<1>3. \A i \in 1 .. Shared : v[Len(v) - Shared + i] = w[i]
  BY SharedIs
<1>4. ASSUME NEW i \in 1 .. Len(fed) PROVE fed[i] = w[Shared - Len(former) + i]
  <2>1. CASE i <= Len(former)
    <3>1. i \in 1 .. Len(former)
      BY <1>1, <2>1
    <3>2. PICK j : j = Shared - Len(former) + i
      OBVIOUS
    <3>3. j \in 1 .. Shared /\ Len(v) - Shared + j = Len(v) - Len(former) + i
      BY <1>1, <3>1, <3>2
    <3>4. v[Len(v) - Shared + j] = w[j]
      BY <1>3, <3>3
    <3>5. fed[i] = v[Len(v) - Len(former) + i]
      BY <1>2, <3>1 DEF Ends, IsFed
    <3> QED
      BY <3>2, <3>3, <3>4, <3>5
  <2>2. CASE ~(i <= Len(former))
    <3>1. PICK j : j = i - Len(former)
      OBVIOUS
    <3>2. j \in 1 .. Len(w) - Shared /\ Len(former) + j = i /\ Shared + j = Shared - Len(former) + i
      BY <1>1, <1>2, <2>2, <3>1
    <3>3. fed[Len(former) + j] = w[Shared + j]
      BY <1>2, <3>2 DEF IsFed
    <3> QED
      BY <3>2, <3>3
  <2> QED
    BY <2>1, <2>2
<1>5. ASSUME NEW i \in 1 .. Len(fed) PROVE fed[i] = w[Len(w) - Len(fed) + i]
  <2>1. Len(w) - Len(fed) + i = Shared - Len(former) + i
    BY <1>1, <1>2
  <2> QED
    BY <1>4, <2>1
<1> QED
  BY <1>2, <1>5 DEF Ends

\* The final samples of an end are an end.
LEMMA EndOfEnd ==
  ASSUME NEW fed \in Seq(Samples), NEW n \in Nat, n <= Len(fed), NEW w \in Seq(Samples),
         Ends(fed, w)
  PROVE  Ends(Final(fed, n), w) /\ Len(Final(fed, n)) = n
<1>1. PICK e : e = Final(fed, n)
  OBVIOUS
<1>2. Len(e) = n /\ \A i \in 1 .. n : e[i] = fed[Len(fed) - n + i]
  BY <1>1, FinalIs
<1>3. Len(fed) \in Nat /\ Len(w) \in Nat
  BY LenProperties
<1>4. ASSUME NEW i \in 1 .. n PROVE e[i] = w[Len(w) - n + i]
  <2>1. PICK j : j = Len(fed) - n + i
    OBVIOUS
  <2>2. j \in 1 .. Len(fed) /\ Len(w) - Len(fed) + j = Len(w) - n + i
    BY <1>3, <2>1
  <2>3. fed[j] = w[Len(w) - Len(fed) + j]
    BY <2>2 DEF Ends
  <2> QED
    BY <1>2, <2>1, <2>2, <2>3
<1> QED
  BY <1>1, <1>2, <1>4 DEF Ends

\* Sequences of the same samples are the same.
LEMMA SameSamples ==
  ASSUME NEW s \in Seq(Samples), NEW t \in Seq(Samples), Len(s) = Len(t),
         \A i \in 1 .. Len(s) : s[i] = t[i]
  PROVE  s = t
  OBVIOUS

\* What repeats an end begins with it.
LEMMA BeginsWithEnd ==
  ASSUME NEW result \in Seq(Samples), NEW output \in Seq(Samples), NEW n \in Nat,
         n <= Len(result), n <= Len(output), Repeats(result, output, n)
  PROVE  First(result, n) = Final(output, n)
<1>1. PICK s : s = First(result, n)
  OBVIOUS
<1>2. PICK f : f = Final(output, n)
  OBVIOUS
<1>3. s \in Seq(Samples) /\ Len(s) = n /\ \A i \in 1 .. n : s[i] = result[i]
  BY <1>1, FirstIs
<1>4. /\ f \in Seq(Samples) /\ Len(f) = n
      /\ \A i \in 1 .. n : f[i] = output[Len(output) - n + i]
  BY <1>2, FinalIs
<1>5. \A i \in 1 .. n : s[i] = f[i]
  BY <1>3, <1>4 DEF Repeats
<1>6. s = f
  BY <1>3, <1>4, <1>5, SameSamples
<1> QED
  BY <1>1, <1>2, <1>6

\* What is delayed is behind, and goes on by a position or holds.
LEMMA DelayedIs ==
  ASSUME lags \in Lags, NEW w \in Seq(Samples), IsWindow(w), NEW lag \in Nat, lag < Lookahead,
         NEW before \in 0 .. lag, NEW after \in 0 .. lag,
         NEW from \in Nat, from - before > Context,
         NEW result, Delayed(result, w, from, before, after)
  PROVE  /\ \A i \in from .. Len(w) : result[i] \in Int /\ result[i] - w[i] \in -lag .. 0
         /\ \A i \in from .. Len(w) - 1 : result[i + 1] - result[i] \in {0, 1}
         /\ from <= Len(w) => EndsAt(result, w, after, lag)
<1>1. PICK size : size = Len(w)
  OBVIOUS
<1>2. /\ size \in Nat /\ size >= Context + Lookahead /\ Context \in Nat /\ Lookahead \in Nat
      /\ \A i \in 1 .. size : w[i] \in Int
      /\ \A i, j \in Context + 1 .. size : w[i] - w[j] = i - j
  BY <1>1, WindowIs, SizesFit
<1>3. \A i \in from .. size : result[i] = w[Least(i - before, size - after)]
  BY <1>1 DEF Delayed
<1>4. ASSUME NEW i \in from .. size
      PROVE  /\ Least(i - before, size - after) \in Context + 1 .. size
             /\ i - Least(i - before, size - after) \in 0 .. lag
             /\ i \in Context + 1 .. size
  BY <1>2 DEF Least
<1>5. ASSUME NEW i \in from .. size PROVE result[i] \in Int /\ result[i] - w[i] \in -lag .. 0
  <2>1. PICK k : k = Least(i - before, size - after)
    OBVIOUS
  <2>2. k \in Context + 1 .. size /\ i - k \in 0 .. lag /\ i \in Context + 1 .. size
    BY <1>4, <2>1
  <2>3. result[i] = w[k] /\ w[k] - w[i] = k - i
    BY <1>2, <1>3, <2>1, <2>2
  <2>4. w[k] \in Int
    BY <1>2, <2>2
  <2> QED
    BY <1>2, <2>2, <2>3, <2>4
<1>6. ASSUME NEW i \in from .. size - 1 PROVE result[i + 1] - result[i] \in {0, 1}
  <2>1. i \in from .. size /\ i + 1 \in from .. size
    BY <1>2
  <2>2. PICK k, m : k = Least(i - before, size - after) /\ m = Least(i + 1 - before, size - after)
    OBVIOUS
  <2>3. k \in Context + 1 .. size /\ m \in Context + 1 .. size
    BY <1>4, <2>1, <2>2
  <2>4. m - k \in {0, 1}
    BY <1>2, <2>2 DEF Least
  <2>5. result[i] = w[k]
    BY <1>3, <2>1, <2>2
  <2>6. result[i + 1] = w[m]
    BY <1>3, <2>1, <2>2
  <2>7. w[m] - w[k] = m - k
    BY <1>2, <2>3
  <2> QED
    BY <2>4, <2>5, <2>6, <2>7
<1>7. ASSUME from <= size PROVE \E behind \in after .. lag : result[size] = w[size - behind]
  <2>1. PICK behind : behind = IF before <= after THEN after ELSE before
    OBVIOUS
  <2>2. behind \in after .. lag /\ Least(size - before, size - after) = size - behind
    BY <1>2, <2>1 DEF Least
  <2>3. result[size] = w[size - behind]
    BY <1>2, <1>3, <1>7, <2>2
  <2> QED
    BY <2>2, <2>3
<1> QED
  BY <1>1, <1>5, <1>6, <1>7 DEF EndsAt

\* What is delayed from an index on is delayed from a later one on.
LEMMA DelayedLater ==
  ASSUME NEW result, NEW w, NEW from \in Int, NEW later \in Int, from <= later,
         NEW before, NEW after, Delayed(result, w, from, before, after), Len(w) \in Nat
  PROVE  Delayed(result, w, later, before, after)
<1> SUFFICES ASSUME NEW i \in later .. Len(w)
             PROVE  result[i] = w[Least(i - before, Len(w) - after)]
  BY DEF Delayed
<1>1. i \in from .. Len(w)
  OBVIOUS
<1> QED
  BY <1>1 DEF Delayed

\* What is made of a window on its own.
LEMMA MadeAlone ==
  ASSUME lags \in Lags, NEW w \in Seq(Samples), IsWindow(w), NEW lag \in Nat, lag < Lookahead,
         NEW held \in 0 .. lag,
         NEW result, SameLength(result, w), Delayed(result, w, 1, 0, held)
  PROVE  Made(result, w, held, lag)
<1>1. PICK size : size = Len(w)
  OBVIOUS
<1>2. /\ size \in Nat /\ size >= Context + Lookahead /\ Context \in Nat /\ Lookahead \in Nat
      /\ \A i \in 1 .. size : w[i] \in Int
  BY <1>1, WindowIs, SizesFit
<1>3. Delayed(result, w, Context + 1, 0, held)
  BY <1>1, <1>2, DelayedLater
<1>4. /\ \A i \in Context + 1 .. size : result[i] \in Int /\ result[i] - w[i] \in -lag .. 0
      /\ \A i \in Context + 1 .. size - 1 : result[i + 1] - result[i] \in {0, 1}
      /\ EndsAt(result, w, held, lag)
  <2>1. Context + 1 \in Nat /\ (Context + 1) - 0 > Context /\ 0 \in 0 .. lag /\ Context + 1 <= size
    BY <1>2
  <2> QED
    BY <1>1, <1>3, <2>1, DelayedIs
<1>5. ASSUME NEW i \in 1 .. size PROVE result[i] - w[i] \in -lag .. 0
  <2>1. CASE i <= Context
    <3>1. Least(i - 0, size - held) = i
      BY <1>2, <2>1 DEF Least
    <3>2. result[i] = w[i]
      BY <1>1, <3>1 DEF Delayed
    <3>3. w[i] \in Int
      BY <1>2
    <3> QED
      BY <3>2, <3>3
  <2>2. CASE ~(i <= Context)
    BY <1>2, <1>4, <2>2
  <2> QED
    BY <2>1, <2>2
<1>6. Behind(result, w, lag)
  BY <1>1, <1>5 DEF Behind
<1>7. Moves(result, Context + 1, lag)
  <2>1. Len(result) = size
    BY <1>1 DEF SameLength
  <2>2. {0, 1} \subseteq 0 .. 1 + lag
    OBVIOUS
  <2> QED
    BY <1>4, <2>1, <2>2 DEF Moves
<1> QED
  BY <1>4, <1>6, <1>7 DEF Made

\* What is made of a window that goes on where the one before ended: what they share is
\* repeated, and then comes what was held back.
LEMMA MadeOn ==
  ASSUME lags \in Lags, NEW v \in Seq(Samples), NEW w \in Seq(Samples),
         IsWindow(v), IsWindow(w), Final(v, Shared) = First(w, Shared),
         NEW lag \in Nat, lag < Lookahead, NEW before \in 0 .. lag, NEW held \in 0 .. lag,
         NEW output, Made(output, v, before, lag), NEW result, SameLength(result, w),
         Repeats(result, output, Shared), Delayed(result, w, Shared + 1, before, held)
  PROVE  Made(result, w, held, lag)
<1>1. PICK size, full : size = Len(w) /\ full = Len(v)
  OBVIOUS
<1>2. /\ Shared \in Nat /\ size \in Nat /\ full \in Nat /\ full >= Shared /\ Lookahead > 0
      /\ size >= Shared + Lookahead /\ Shared = Context + Lookahead /\ Context \in Nat
      /\ Lookahead \in Nat /\ \A i, j \in Context + 1 .. size : w[i] - w[j] = i - j
      /\ \A i \in 1 .. size : w[i] \in Int
  <2>1. /\ size \in Nat /\ size >= Shared + Lookahead
        /\ \A i, j \in Context + 1 .. size : w[i] - w[j] = i - j
        /\ \A i \in 1 .. size : w[i] \in Int
    BY <1>1, WindowIs
  <2>2. full \in Nat /\ full >= Shared + Lookahead
    BY <1>1, WindowIs
  <2>3. /\ Shared \in Nat /\ Shared = Context + Lookahead /\ Context \in Nat
        /\ Lookahead \in Nat /\ Lookahead > 0
    BY SizesFit
  <2> QED
    BY <2>1, <2>2, <2>3
<1>3. Len(output) = full /\ Len(result) = size
  BY <1>1 DEF Made, SameLength
<1>4. ASSUME NEW i \in 1 .. Shared
      PROVE  /\ full - Shared + i \in 1 .. full
             /\ result[i] = output[full - Shared + i] /\ w[i] = v[full - Shared + i]
  <2>1. full - Shared + i \in 1 .. full
    BY <1>2
  <2>2. w[i] = v[full - Shared + i]
    <3>1. Len(v) >= Shared /\ Len(w) >= Shared
      BY <1>1, <1>2
    <3> QED
      BY <1>1, <3>1, SharedIs
  <2>3. result[i] = output[full - Shared + i]
    BY <1>3 DEF Repeats
  <2> QED
    BY <2>1, <2>2, <2>3
<1>5. /\ \A i \in Shared + 1 .. size : result[i] \in Int /\ result[i] - w[i] \in -lag .. 0
      /\ \A i \in Shared + 1 .. size - 1 : result[i + 1] - result[i] \in {0, 1}
      /\ EndsAt(result, w, held, lag)
  <2>1. Shared + 1 \in Nat /\ (Shared + 1) - before > Context /\ Shared + 1 <= size
    BY <1>2
  <2> QED
    BY <1>1, <2>1, DelayedIs
<1>6. ASSUME NEW i \in 1 .. size PROVE result[i] - w[i] \in -lag .. 0
  <2>1. CASE i <= Shared
    <3>1. PICK j : j = full - Shared + i
      OBVIOUS
    <3>2. i \in 1 .. Shared
      BY <1>2, <2>1
    <3>3. j \in 1 .. full /\ result[i] = output[j] /\ w[i] = v[j]
      BY <1>4, <3>1, <3>2
    <3>4. output[j] - v[j] \in -lag .. 0
      BY <1>1, <3>3 DEF Made, Behind
    <3> QED
      BY <3>3, <3>4
  <2>2. CASE ~(i <= Shared)
    BY <1>2, <1>5, <2>2
  <2> QED
    BY <2>1, <2>2
<1>7. result[Shared + 1] - result[Shared] \in 0 .. 1 + lag
  <2>1. PICK behind \in before .. lag : output[full] = v[full - behind]
    BY <1>1 DEF Made, EndsAt
  <2>2. PICK k : k = Shared - behind
    OBVIOUS
  <2>3. k \in Context + 1 .. size /\ k \in 1 .. Shared /\ full - Shared + k = full - behind
    BY <1>2, <2>1, <2>2
  <2>4. w[k] = v[full - behind]
    BY <1>4, <2>3
  <2>5. result[Shared] = output[full]
    <3>1. Shared \in 1 .. Shared /\ full - Shared + Shared = full
      BY <1>2
    <3> QED
      BY <1>4, <3>1
  <2>6. PICK i, m : i = Shared + 1 /\ m = i - before
    OBVIOUS
  <2>7. /\ m \in Context + 1 .. size /\ m - k \in 0 .. 1 + lag
        /\ Least(i - before, size - held) = m /\ i \in Shared + 1 .. size
    BY <1>2, <2>1, <2>2, <2>6 DEF Least
  <2>8. result[i] = w[m]
    BY <1>1, <2>7 DEF Delayed
  <2>9. w[m] - w[k] = m - k
    BY <1>2, <2>3, <2>7
  <2>10. result[i] - result[Shared] \in 0 .. 1 + lag
    BY <2>1, <2>4, <2>5, <2>7, <2>8, <2>9
  <2> QED
    BY <2>6, <2>10
<1>8. ASSUME NEW i \in Context + 1 .. size - 1 PROVE result[i + 1] - result[i] \in 0 .. 1 + lag
  <2>1. CASE i < Shared
    <3>1. PICK j : j = full - Shared + i
      OBVIOUS
    <3>2. /\ i \in 1 .. Shared /\ i + 1 \in 1 .. Shared /\ full - Shared + (i + 1) = j + 1
          /\ j \in Context + 1 .. full - 1
      BY <1>2, <2>1, <3>1
    <3>3. result[i] = output[j] /\ result[i + 1] = output[j + 1]
      BY <1>4, <3>1, <3>2
    <3>4. output[j + 1] - output[j] \in 0 .. 1 + lag
      BY <1>3, <3>2 DEF Made, Moves
    <3> QED
      BY <3>3, <3>4
  <2>2. CASE i = Shared
    BY <1>7, <2>2
  <2>3. CASE i > Shared
    <3>1. i \in Shared + 1 .. size - 1
      BY <1>2, <2>3
    <3>2. result[i + 1] - result[i] \in {0, 1}
      BY <1>5, <3>1
    <3> QED
      BY <3>2
  <2> QED
    BY <1>2, <2>1, <2>2, <2>3
<1> QED
  BY <1>1, <1>3, <1>5, <1>6, <1>8 DEF Made, Behind, Moves

\* What is fed on its own is the window.
LEMMA FedAlone ==
  ASSUME NEW w \in Seq(Samples), NEW fed, fed = Fed(<<>>, w, 0)
  PROVE  fed \in Seq(Samples) /\ Len(fed) = Len(w) /\ Ends(fed, w)
<1>1. PICK size : size = Len(w)
  OBVIOUS
<1>2. size \in Nat /\ 0 <= size /\ <<>> \in Seq(Samples) /\ Len(<<>>) = 0
  BY <1>1, LenProperties, EmptySeq
<1>3. fed \in Seq(Samples) /\ Len(fed) = Len(<<>>) + (Len(w) - 0) /\ IsFed(fed, <<>>, w, 0)
  <2>1. 0 \in Nat /\ 0 <= Len(w)
    BY <1>1, <1>2
  <2> QED
    BY <1>2, <2>1, FedIs, Zenon
<1>4. Len(fed) = size
  BY <1>1, <1>2, <1>3
<1>5. ASSUME NEW i \in 1 .. size PROVE fed[i] = w[i]
  <2>1. i \in 1 .. size - 0 /\ 0 + i = i
    BY <1>2
  <2>2. fed[0 + i] = w[0 + i]
    BY <1>1, <1>2, <1>3, <2>1 DEF IsFed
  <2> QED
    BY <2>1, <2>2
<1>6. \A i \in 1 .. size : size - size + i = i
  BY <1>2
<1> QED
  BY <1>1, <1>3, <1>4, <1>5, <1>6 DEF Ends

\* What a resampler remembers of a window, and makes of it.
Remembers(resampler, result, w, holds, lag) ==
  /\ Made(result, w, holds, lag)
  /\ resampler.previous_input = w
  /\ resampler.previous_output = result
  /\ Len(resampler.held) = holds
  /\ InputShape(resampler, lag)

\* The input resampler, without an overlap:
LEMMA InputAlone ==
  ASSUME lags \in Lags, NEW lag \in Nat, lag # 0, lag < Lookahead,
         NEW r \in Resamplers(Samples, lag),
         NEW w \in Seq(Samples), IsWindow(w), OverlapOf(r, w, Rate, 0) = 0,
         NEW holds \in 0 .. lag,
         NEW done, done = resample(r, w, Rate, lag, holds, 0)
  PROVE  Remembers(done.resampler, done.result, w, holds, lag)
<1>1. PICK size : size = Len(w)
  OBVIOUS
<1>2. size \in Nat /\ holds < size /\ holds \in Nat
  <2>1. size \in Nat /\ size >= Shared + Lookahead
    BY <1>1, WindowIs
  <2>2. Shared \in Nat /\ Lookahead \in Nat
    BY SizesFit
  <2> QED
    BY <2>1, <2>2
<1>3. PICK fed : fed = Fed(<<>>, w, 0)
  OBVIOUS
<1>4. fed \in Seq(Samples) /\ Len(fed) = size /\ Ends(fed, w)
  BY <1>1, <1>3, FedAlone
<1>5. PICK result : result = done.result
  OBVIOUS
<1>6. <<>> \in Seq(Samples) /\ Len(<<>>) = 0
  BY EmptySeq
<1>7. /\ done.resampler = [held |-> Final(fed, holds), previous_input |-> w,
                           previous_output |-> result]
      /\ Follows(result, fed, 0, size - 0, holds)
  <2>1. PICK o \in Nat : o = 0
    OBVIOUS
  <2>2. Feeds(r, w, Rate, 0, o, <<>>, fed)
    <3>1. Len(r.previous_output) \in Nat
      BY LenProperties DEF Resamplers
    <3>2. /\ o <= Len(r.previous_output) /\ o <= Len(w) /\ o = OverlapOf(r, w, Rate, 0)
          /\ <<>> = IF o > 0 THEN r.held ELSE <<>>
      BY <1>1, <1>2, <2>1, <3>1
    <3> QED
      BY <1>3, <1>6, <2>1, <3>2 DEF Feeds
  <2>3. holds < Len(fed)
    BY <1>2, <1>4
  <2>4. Resampled(done, r.previous_output, w, o, fed, holds)
    BY <1>2, <2>2, <2>3, ResampledIs
  <2> QED
    BY <1>1, <1>5, <2>1, <2>4 DEF Resampled
<1>8. Delayed(result, w, 1, 0, holds)
  <2>1. 0 \in Nat /\ 0 <= Len(w) /\ holds < Len(w) - 0
    BY <1>1, <1>2
  <2>2. Delayed(result, w, 0 + Len(<<>>) + 1, Len(<<>>), holds)
    BY <1>1, <1>2, <1>3, <1>6, <1>7, <2>1, DelayedAfter
  <2>3. 0 + Len(<<>>) + 1 = 1
    BY <1>6
  <2> QED
    BY <1>6, <2>2, <2>3
<1>9. SameLength(result, w)
  <2>1. Silence \in Samples /\ Rate \in Nat /\ 0 \in Nat
    BY SizesAreNat DEF Samples, Own
  <2>2. Len(result) = Len(w)
    BY <1>5, <2>1, ResampleProperties
  <2> QED
    BY <2>2 DEF SameLength
<1>10. Made(result, w, holds, lag)
  BY <1>8, <1>9, MadeAlone
<1>11. Ends(Final(fed, holds), w) /\ Len(Final(fed, holds)) = holds
  <2>1. holds <= Len(fed)
    BY <1>2, <1>4
  <2> QED
    BY <1>2, <1>4, <2>1, EndOfEnd
<1>12. /\ done.resampler.held = Final(fed, holds) /\ done.resampler.previous_input = w
       /\ done.resampler.previous_output = result
  BY <1>7
<1>13. InputShape(done.resampler, lag)
  BY <1>10, <1>11, <1>12 DEF InputShape
<1> QED
  BY <1>5, <1>10, <1>11, <1>12, <1>13 DEF Remembers

\* With one:
LEMMA InputOn ==
  ASSUME lags \in Lags, NEW lag \in Nat, lag # 0, lag < Lookahead,
         NEW r \in Resamplers(Samples, lag), r.previous_input # <<>>, InputShape(r, lag),
         NEW w \in Seq(Samples), IsWindow(w),
         Final(r.previous_input, Shared) = First(w, Shared),
         NEW holds \in 0 .. lag,
         NEW done, done = resample(r, w, Rate, lag, holds, 0)
  PROVE  /\ Remembers(done.resampler, done.result, w, holds, lag)
         /\ First(done.result, Shared) = Final(r.previous_output, Shared)
<1>1. /\ r.held \in Seq(Samples) /\ r.previous_input \in Seq(Samples)
      /\ r.previous_output \in Seq(Samples) /\ Len(r.held) <= lag
      /\ Len(r.previous_output) = Len(r.previous_input)
  BY DEF Resamplers
<1>2. PICK v \in Seq(Samples) : v = r.previous_input
  BY <1>1
<1>3. PICK former \in Seq(Samples) : former = r.held
  BY <1>1
<1>4. PICK output \in Seq(Samples) : output = r.previous_output
  BY <1>1
<1>5. PICK before : before = Len(former)
  OBVIOUS
<1>6. PICK size : size = Len(w)
  OBVIOUS
<1>7. /\ IsWindow(v) /\ Ends(former, v) /\ Made(output, v, before, lag)
      /\ Final(v, Shared) = First(w, Shared)
  BY <1>2, <1>3, <1>4, <1>5 DEF InputShape
<1>8. /\ Shared \in Nat /\ Shared > 0 /\ lag <= Shared /\ Lookahead \in Nat
      /\ before \in 0 .. lag /\ size \in Nat /\ size >= Shared + Lookahead
  <2>1. size \in Nat /\ size >= Shared + Lookahead
    BY <1>6, WindowIs
  <2>2. Shared \in Nat /\ Shared > 0 /\ Lookahead \in Nat /\ Lookahead <= Shared
    BY SizesFit
  <2>3. before \in 0 .. lag
    BY <1>1, <1>3, <1>5, LenProperties
  <2> QED
    BY <2>1, <2>2, <2>3
<1>9. Len(v) >= Shared /\ Len(output) = Len(v) /\ Len(w) >= Shared /\ Len(former) <= Shared
  <2>1. Len(v) >= Shared /\ Len(w) >= Shared
    BY <1>7, WindowIs
  <2>2. Len(output) = Len(v)
    BY <1>1, <1>2, <1>4
  <2> QED
    BY <1>5, <1>8, <2>1, <2>2
<1>10. PICK fed : fed = Fed(former, w, Shared)
  OBVIOUS
<1>11. fed \in Seq(Samples) /\ Len(fed) = before + (size - Shared) /\ Ends(fed, w)
  <2>1. /\ fed \in Seq(Samples) /\ Len(fed) = Len(former) + (Len(w) - Shared)
        /\ Ends(fed, w)
    BY <1>7, <1>9, <1>10, FedGoesOn
  <2> QED
    BY <1>5, <1>6, <2>1
<1>12. PICK result : result = done.result
  OBVIOUS
<1>13. OverlapOf(r, w, Rate, 0) = Shared
  <2>1. DetectedOverlap(v, w, Rate) = Shared
    BY <1>7, <1>9, DetectedIsShared
  <2> QED
    BY <1>1, <1>2, <2>1, OverlapUnstated
<1>14. holds \in Nat /\ holds < Len(fed)
  BY <1>8, <1>11
<1>15. /\ done.resampler = [held |-> Final(fed, holds), previous_input |-> w,
                            previous_output |-> result]
       /\ Repeats(result, output, Shared)
       /\ Follows(result, fed, Shared, Len(w) - Shared, holds)
  <2>1. Feeds(r, w, Rate, 0, Shared, r.held, fed)
    <3>1. Shared <= Len(r.previous_output) /\ Shared <= Len(w)
      BY <1>4, <1>9
    <3>2. r.held = IF Shared > 0 THEN r.held ELSE <<>>
      BY <1>8
    <3>3. fed = Fed(r.held, w, Shared)
      BY <1>3, <1>10
    <3> QED
      BY <1>1, <1>8, <1>13, <3>1, <3>2, <3>3 DEF Feeds
  <2>2. Resampled(done, r.previous_output, w, Shared, fed, holds)
    BY <1>14, <2>1, ResampledIs
  <2> QED
    BY <1>4, <1>12, <2>2 DEF Resampled
<1>16. Delayed(result, w, Shared + 1, before, holds)
  <2>1. Len(fed) = before + (Len(w) - Shared) /\ before \in Nat
    BY <1>6, <1>8, <1>11
  <2> QED
    BY <1>8, <1>11, <1>14, <1>15, <2>1, DelayedFrom
<1>17. result \in Seq(Samples) /\ SameLength(result, w) /\ Len(result) = Len(w)
  <2>1. Silence \in Samples /\ Rate \in Nat /\ 0 \in Nat
    BY SizesAreNat DEF Samples, Own
  <2>2. result \in Seq(Samples) /\ Len(result) = Len(w)
    BY <1>12, <2>1, ResampleProperties
  <2> QED
    BY <2>2 DEF SameLength
<1>18. Made(result, w, holds, lag)
  BY <1>7, <1>8, <1>15, <1>16, <1>17, MadeOn
<1>19. First(result, Shared) = Final(output, Shared)
  <2>1. Shared <= Len(result) /\ Shared <= Len(output)
    BY <1>9, <1>17
  <2> QED
    BY <1>8, <1>15, <1>17, <2>1, BeginsWithEnd
<1>20. Ends(Final(fed, holds), w) /\ Len(Final(fed, holds)) = holds
  <2>1. holds <= Len(fed)
    BY <1>14, <1>11, LenProperties
  <2> QED
    BY <1>11, <1>14, <2>1, EndOfEnd
<1>21. /\ done.resampler.held = Final(fed, holds) /\ done.resampler.previous_input = w
       /\ done.resampler.previous_output = result
  BY <1>15
<1>22. InputShape(done.resampler, lag)
  BY <1>18, <1>20, <1>21 DEF InputShape
<1> QED
  BY <1>4, <1>12, <1>18, <1>19, <1>20, <1>21, <1>22 DEF Remembers

\* A window that nothing is held back of is what is made of it.
LEMMA MadeOfItself ==
  ASSUME lags \in Lags, NEW w \in Seq(Samples), IsWindow(w)
  PROVE  Made(w, w, 0, 0)
<1>1. PICK size \in Nat : size = Len(w)
  BY LenProperties
<1>2. \A i \in 1 .. size : Least(i - 0, size - 0) = i
  BY <1>1 DEF Least
<1>3. Delayed(w, w, 1, 0, 0)
  BY <1>1, <1>2 DEF Delayed
<1>4. SameLength(w, w)
  BY DEF SameLength
<1>5. 0 \in Nat /\ 0 < Lookahead /\ 0 \in 0 .. 0
  BY SizesFit
<1> QED
  BY <1>3, <1>4, <1>5, MadeAlone

\* The input resampler makes a window of a window, and remembers both.
LEMMA InputStage ==
  ASSUME lags \in Lags, NEW r \in Resamplers(Samples, lags.input),
         lags.input > 0 => InputShape(r, lags.input),
         NEW w \in Seq(Samples), IsWindow(w), NEW holds \in 0 .. lags.input,
         NEW done, done = resample(r, w, Rate, lags.input, holds, 0)
  PROVE  /\ done.result \in Seq(Samples) /\ Len(done.result) = Len(w)
         /\ Made(done.result, w, holds, lags.input)
         /\ lags.input = 0 => done.result = w
         /\ lags.input > 0 =>
              /\ Remembers(done.resampler, done.result, w, holds, lags.input)
              /\ r.previous_input # <<>> /\ Final(r.previous_input, Shared) = First(w, Shared)
                   => First(done.result, Shared) = Final(r.previous_output, Shared)
<1> DEFINE lag == lags.input
<1>1. lag \in Nat /\ lag < Lookahead
  BY SizesFit
<1> HIDE DEF lag
<1>2. done.result \in Seq(Samples) /\ Len(done.result) = Len(w)
  <2>1. Silence \in Samples /\ Rate \in Nat /\ 0 \in Nat
    BY SizesAreNat DEF Samples, Own
  <2> QED
    BY <1>1, <2>1, ResampleProperties DEF lag
<1>3. CASE lag = 0
  <2>1. done.result = w
    BY <1>3 DEF resample, lag
  <2>2. Made(w, w, 0, 0) /\ holds = 0
    BY <1>3, MadeOfItself DEF lag
  <2> QED
    BY <1>2, <1>3, <2>1, <2>2 DEF lag
<1>4. CASE lag # 0
  <2>1. r.previous_input \in Seq(Samples)
    BY DEF Resamplers
  <2>2. /\ lag > 0 /\ InputShape(r, lag) /\ r \in Resamplers(Samples, lag)
        /\ holds \in 0 .. lag /\ done = resample(r, w, Rate, lag, holds, 0)
    BY <1>1, <1>4 DEF lag
  <2>3. CASE r.previous_input # <<>> /\ Final(r.previous_input, Shared) = First(w, Shared)
    <3>1. /\ Remembers(done.resampler, done.result, w, holds, lag)
          /\ First(done.result, Shared) = Final(r.previous_output, Shared)
      BY <1>1, <1>4, <2>2, <2>3, InputOn
    <3> QED
      BY <1>2, <1>4, <3>1 DEF lag, Remembers
  <2>4. CASE ~(r.previous_input # <<>> /\ Final(r.previous_input, Shared) = First(w, Shared))
    <3>1. OverlapOf(r, w, Rate, 0) = DetectedOverlap(r.previous_input, w, Rate)
      BY <2>1, OverlapUnstated
    <3>2. DetectedOverlap(r.previous_input, w, Rate) = 0
      <4>1. CASE r.previous_input = <<>>
        BY <4>1, NoneDetected
      <4>2. CASE r.previous_input # <<>>
        <5>1. PICK v \in Seq(Samples) : v = r.previous_input
          BY <2>1
        <5>2. Len(v) >= Shared
          <6>1. IsWindow(v)
            BY <2>2, <4>2, <5>1 DEF InputShape
          <6> QED
            BY <6>1, WindowIs
        <5>3. Len(w) >= Shared
          BY WindowIs
        <5>4. Final(v, Shared) # First(w, Shared)
          BY <2>4, <4>2, <5>1
        <5>5. DetectedOverlap(v, w, Rate) = 0
          BY <5>2, <5>3, <5>4, DetectedIsShared
        <5> QED
          BY <5>1, <5>5
      <4> QED
        BY <4>1, <4>2
    <3>3. Remembers(done.resampler, done.result, w, holds, lag)
      BY <1>1, <1>4, <2>2, <3>1, <3>2, InputAlone
    <3> QED
      BY <1>2, <1>4, <2>4, <3>3 DEF lag, Remembers
  <2> QED
    BY <2>3, <2>4
<1> QED
  BY <1>3, <1>4

\* What is held back of more than that is the end of the samples.
LEMMA FedEnd ==
  ASSUME NEW former \in Seq(Samples), NEW samples \in Seq(Samples),
         NEW o \in Nat, o <= Len(samples), NEW fed, fed = Fed(former, samples, o),
         NEW n \in Nat, n <= Len(samples) - o
  PROVE  Ends(Final(fed, n), samples) /\ Len(Final(fed, n)) = n
<1>1. PICK size, h : size = Len(samples) /\ h = Len(former)
  OBVIOUS
<1>2. size \in Nat /\ h \in Nat /\ o <= size /\ n <= size - o
  BY <1>1, LenProperties
<1>3. fed \in Seq(Samples) /\ Len(fed) = h + (size - o) /\ IsFed(fed, former, samples, o)
  BY <1>1, FedIs
<1>4. PICK e : e = Final(fed, n)
  OBVIOUS
<1>5. Len(e) = n /\ \A i \in 1 .. n : e[i] = fed[Len(fed) - n + i]
  <2>1. n <= Len(fed)
    BY <1>2, <1>3
  <2> QED
    BY <1>3, <1>4, <2>1, FinalIs
<1>6. ASSUME NEW i \in 1 .. n PROVE e[i] = samples[size - n + i]
  <2>1. PICK j : j = size - o - n + i
    OBVIOUS
  <2>2. j \in 1 .. size - o /\ h + j = Len(fed) - n + i /\ o + j = size - n + i
    BY <1>2, <1>3, <2>1
  <2>3. fed[h + j] = samples[o + j]
    BY <1>1, <1>3, <2>2 DEF IsFed
  <2> QED
    BY <1>5, <2>2, <2>3
<1> QED
  BY <1>1, <1>4, <1>5, <1>6 DEF Ends

\* At most a context is taken to overlap in the output: a whole one once there was one,
\* and none at first.
LEMMA OutputOverlap ==
  ASSUME lags \in Lags, NEW stream \in Streams(Samples, lags), StreamShape(stream),
         NEW samples \in Seq(Samples), Len(samples) > Context,
         NEW r, r = stream.output_resampler,
         NEW o, o = OverlapOf(r, samples, Rate, StatedOverlap(stream))
  PROVE  /\ o \in 0 .. Context /\ o <= Len(r.previous_input) /\ o <= Len(samples)
         /\ r.previous_input = <<>> => o = 0
         /\ Len(r.previous_input) >= Context => o = Context
<1> DEFINE f == stream.filter_input
           forty == (Rate * 40) \div 1000
<1>1. PICK size, past, seen : size = Len(samples) /\ past = Len(r.previous_input) /\ seen = Len(f)
  OBVIOUS
<1>2. /\ r.previous_input \in Seq(Samples) /\ past \in Nat /\ f \in Seq(Samples)
      /\ seen \in Nat /\ size \in Nat /\ size > Context
  BY <1>1, LenProperties DEF Streams, Resamplers
<1>3. forty = Context
  BY DEF Context, context_frames, frame_count_for_duration, kStreamHistoryMs
<1>4. Context \in Nat /\ Context > 0 /\ Shared \in Nat /\ Context <= Shared
  BY SizesFit
<1>5. StatedOverlap(stream) = Least(seen, Context)
  BY <1>1, <1>3 DEF StatedOverlap
<1>6. o = LET known == Least(Least(Least(seen, Context), past), size)
          IN  IF known > 0 THEN known ELSE DetectedOverlap(r.previous_input, samples, Rate)
  BY <1>1, <1>5 DEF OverlapOf
<1> HIDE DEF forty
<1>7. CASE r.previous_input = <<>>
  <2>1. past = 0
    BY <1>1, <1>7, EmptySeq
  <2>2. Least(Least(Least(seen, Context), past), size) = 0
    BY <1>2, <1>4, <2>1 DEF Least
  <2>3. o = DetectedOverlap(<<>>, samples, Rate)
    BY <1>6, <1>7, <2>2
  <2>4. o = 0
    BY <2>3, NoneDetected
  <2> QED
    BY <1>1, <1>2, <1>4, <1>7, <2>1, <2>4
<1>8. CASE r.previous_input # <<>>
  <2>1. past > 0
    BY <1>1, <1>2, <1>8, EmptySeq
  <2>2. seen >= Shared
    BY <1>1, <1>8 DEF StreamShape
  <2>3. PICK known : known = Least(Least(Least(seen, Context), past), size)
    OBVIOUS
  <2>4. /\ known \in 1 .. Context /\ known <= past /\ known <= size
        /\ past >= Context => known = Context
    BY <1>2, <1>4, <2>1, <2>2, <2>3 DEF Least
  <2>5. o = known
    BY <1>6, <2>3, <2>4
  <2> QED
    BY <1>1, <1>8, <2>4, <2>5
<1> QED
  BY <1>7, <1>8

\* What the output resampler remembers, and makes: what it held back comes behind what
\* overlaps, a context at most, and then what it was given, as late.
Outputs(result, resampler, r, samples, holds) ==
  /\ resampler.previous_input = samples
  /\ Len(resampler.held) = holds
  /\ Ends(resampler.held, samples)
  /\ \E h \in 0 .. lags.output : Delayed(result, samples, Context + h + 1, h, holds)
  /\ r.previous_input = <<>> => Delayed(result, samples, 1, 0, holds)
  /\ Len(r.previous_input) >= Context =>
       /\ Delayed(result, samples, Context + Len(r.held) + 1, Len(r.held), holds)
       /\ \A i \in 1 .. Len(r.held) : result[Context + i] = r.held[i]

\* It does so of every result that is long enough.
LEMMA OutputStage ==
  ASSUME lags \in Lags, NEW stream \in Streams(Samples, lags), StreamShape(stream),
         NEW samples \in Seq(Samples), Len(samples) > Context + lags.output,
         NEW holds \in 0 .. lags.output,
         NEW done, done = resample(stream.output_resampler, samples, Rate, lags.output,
                                   holds, StatedOverlap(stream))
  PROVE  /\ lags.output = 0 => done.result = samples
         /\ lags.output > 0 => Outputs(done.result, done.resampler,
                                      stream.output_resampler, samples, holds)
<1> DEFINE lag == lags.output
           stated == StatedOverlap(stream)
<1>1. PICK r : r = stream.output_resampler
  OBVIOUS
<1>2. PICK size : size = Len(samples)
  OBVIOUS
<1>3. /\ lag \in Nat /\ Context \in Nat /\ Context > 0 /\ size \in Nat /\ size > Context + lag
      /\ holds \in 0 .. lag
  BY <1>2, SizesFit, LenProperties
<1>4. r \in Resamplers(Samples, lag) /\ done = resample(r, samples, Rate, lag, holds, stated)
  BY <1>1 DEF Streams
<1>5. CASE lag = 0
  BY <1>4, <1>5 DEF resample
<1>6. CASE lag # 0
  <2>1. PICK o : o = OverlapOf(r, samples, Rate, stated)
    OBVIOUS
  <2>2. /\ o \in 0 .. Context /\ o <= Len(r.previous_input) /\ o <= Len(samples)
        /\ r.previous_input = <<>> => o = 0
        /\ Len(r.previous_input) >= Context => o = Context
    <3>1. Len(samples) > Context
      BY <1>2, <1>3
    <3> QED
      BY <1>1, <2>1, <3>1, OutputOverlap
  <2> HIDE DEF stated, lag
  <2>3. /\ r.held \in Seq(Samples) /\ r.previous_output \in Seq(Samples) /\ Len(r.held) <= lag
        /\ Len(r.previous_output) = Len(r.previous_input)
    BY <1>4 DEF Resamplers
  <2>4. PICK former \in Seq(Samples) : former = IF o > 0 THEN r.held ELSE <<>>
    BY <2>3, EmptySeq
  <2>5. PICK h : h = Len(former)
    OBVIOUS
  <2>6. h \in 0 .. lag
    <3>1. Len(former) <= lag
      BY <1>3, <2>3, <2>4, EmptySeq
    <3> QED
      BY <1>3, <2>5, <3>1, LenProperties
  <2>7. PICK fed : fed = Fed(former, samples, o)
    OBVIOUS
  <2>8. o \in Nat /\ holds \in Nat /\ holds < size - o
    BY <1>3, <2>2
  <2>9. fed \in Seq(Samples) /\ Len(fed) = h + (size - o)
    BY <1>2, <2>2, <2>5, <2>7, <2>8, FedIs
  <2>10. holds < Len(fed)
    BY <1>3, <2>6, <2>8, <2>9
  <2>11. Feeds(r, samples, Rate, stated, o, former, fed)
    <3>1. o <= Len(r.previous_output)
      BY <2>2, <2>3
    <3> QED
      BY <2>1, <2>2, <2>4, <2>7, <2>8, <3>1 DEF Feeds
  <2>12. Resampled(done, r.previous_output, samples, o, fed, holds)
    BY <1>3, <1>4, <1>6, <2>8, <2>10, <2>11, ResampledIs
  <2>13. PICK result : result = done.result
    OBVIOUS
  <2>14. /\ done.resampler.held = Final(fed, holds) /\ done.resampler.previous_input = samples
         /\ Follows(result, fed, o, Len(samples) - o, holds)
    BY <2>12, <2>13 DEF Resampled
  <2>15. Ends(Final(fed, holds), samples) /\ Len(Final(fed, holds)) = holds
    <3>1. holds <= Len(samples) - o
      BY <1>2, <1>3, <2>8
    <3> QED
      BY <2>2, <2>7, <2>8, <3>1, FedEnd
  <2>16. /\ Delayed(result, samples, o + h + 1, h, holds)
         /\ \A i \in 1 .. h : o + i <= size => result[o + i] = former[i]
    <3>1. holds < Len(samples) - o
      BY <1>2, <2>8
    <3>2. /\ Delayed(result, samples, o + Len(former) + 1, Len(former), holds)
          /\ \A i \in 1 .. Len(former) : o + i <= Len(samples) => result[o + i] = former[i]
      BY <2>2, <2>7, <2>8, <2>14, <3>1, DelayedAfter
    <3> QED
      BY <1>2, <2>5, <3>2
  <2>17. Delayed(result, samples, Context + h + 1, h, holds)
    <3>1. o + h + 1 \in Int /\ Context + h + 1 \in Int /\ o + h + 1 <= Context + h + 1
      BY <1>3, <2>2, <2>6
    <3> QED
      BY <1>2, <1>3, <2>16, <3>1, DelayedLater
  <2>18. ASSUME r.previous_input = <<>> PROVE Delayed(result, samples, 1, 0, holds)
    <3>1. o = 0 /\ former = <<>>
      BY <2>2, <2>4, <2>18
    <3>2. h = 0 /\ o + h + 1 = 1
      BY <2>5, <3>1, EmptySeq
    <3> QED
      BY <2>16, <3>2
  <2>19. ASSUME Len(r.previous_input) >= Context
         PROVE  /\ Delayed(result, samples, Context + Len(r.held) + 1, Len(r.held), holds)
                /\ \A i \in 1 .. Len(r.held) : result[Context + i] = r.held[i]
    <3>1. o = Context /\ former = r.held /\ Len(r.held) = h
      BY <1>3, <2>2, <2>4, <2>5, <2>19
    <3>2. \A i \in 1 .. h : o + i <= size
      BY <1>3, <2>6, <3>1
    <3> QED
      BY <2>16, <3>1, <3>2
  <2>20. Outputs(done.result, done.resampler, r, samples, holds)
    BY <2>6, <2>13, <2>14, <2>15, <2>17, <2>18, <2>19 DEF Outputs, lag
  <2> QED
    BY <1>1, <1>6, <2>20 DEF lag
<1> QED
  BY <1>5, <1>6

-----------------------------------------------------------------------------
\* What a sequence begins with.
Prefix(s, t) == Len(s) <= Len(t) /\ \A i \in 1 .. Len(s) : s[i] = t[i]

\* A result that lacks its end.
LEMMA PrefixIs ==
  ASSUME NEW t \in Seq(Samples), NEW short \in Nat, NEW s, s = First(t, Len(t) - short)
  PROVE  s \in Seq(Samples) /\ Prefix(s, t)
<1>1. PICK size \in Nat : size = Len(t)
  BY LenProperties
<1>2. PICK n \in Int : n = size - short
  BY <1>1
<1>3. n <= size /\ s = First(t, n)
  BY <1>1, <1>2
<1>4. CASE n >= 0
  <2>1. s \in Seq(Samples) /\ Len(s) = n /\ \A i \in 1 .. n : s[i] = t[i]
    BY <1>1, <1>3, <1>4, FirstIs
  <2> QED
    BY <1>1, <1>3, <2>1 DEF Prefix
<1>5. CASE n < 0
  <2>1. s \in Seq(Samples) /\ Len(s) = 0
    BY <1>1, <1>3, <1>5, EndsProperties
  <2> QED
    BY <1>1, <2>1 DEF Prefix
<1> QED
  BY <1>2, <1>4, <1>5

\* What is known of the answer to a window, behind what was held back before it.
LEMMA DelayedAnswer ==
  ASSUME lags \in Lags, NEW w \in Seq(Samples), IsWindow(w), NEW made \in Seq(Samples),
         NEW kept, Made(made, w, kept, lags.input),
         NEW samples \in Seq(Samples), Prefix(samples, made),
         Len(samples) > Context + lags.output,
         NEW h \in 0 .. lags.output, NEW holds \in 0 .. lags.output,
         NEW result, SameLength(result, samples),
         Delayed(result, samples, Context + h + 1, h, holds)
  PROVE  /\ \A i \in Context + h + 1 .. Len(result) :
              result[i] - w[i] \in -(lags.input + lags.output) .. 0
         /\ Moves(result, Context + h + 1, lags.input)
<1>1. PICK lead, lag : lead = lags.input /\ lag = lags.output
  OBVIOUS
<1>2. PICK size, full : size = Len(samples) /\ full = Len(w)
  OBVIOUS
<1>3. /\ lead \in Nat /\ lag \in Nat /\ Context \in Nat /\ size \in Nat /\ full \in Nat
      /\ size > Context + lag /\ size <= full /\ h \in 0 .. lag /\ holds \in 0 .. lag
  <2>1. lead \in Nat /\ lag \in Nat /\ Context \in Nat
    BY <1>1, SizesFit
  <2>2. Len(made) = full
    BY <1>2 DEF Made, SameLength
  <2>3. size <= Len(made) /\ size > Context + lag
    BY <1>1, <1>2 DEF Prefix
  <2>4. size \in Nat /\ full \in Nat
    BY <1>2, LenProperties
  <2> QED
    BY <1>1, <2>1, <2>2, <2>3, <2>4
<1>4. /\ \A i \in 1 .. full : w[i] \in Int
      /\ \A i, j \in Context + 1 .. full : w[i] - w[j] = i - j
  BY <1>2, WindowIs
<1>5. \A i \in 1 .. size : samples[i] \in Int /\ samples[i] - w[i] \in -lead .. 0
  <2>1. ASSUME NEW i \in 1 .. size PROVE samples[i] \in Int
    BY <1>2, <2>1, SampleIsInt
  <2>2. ASSUME NEW i \in 1 .. size PROVE samples[i] = made[i]
    BY <1>2 DEF Prefix
  <2>3. ASSUME NEW i \in 1 .. size PROVE made[i] - w[i] \in -lead .. 0
    <3>1. i \in 1 .. full
      BY <1>3
    <3> QED
      BY <1>1, <1>2, <3>1 DEF Made, Behind
  <2> QED
    BY <2>1, <2>2, <2>3
<1>6. \A i \in Context + 1 .. size - 1 : samples[i + 1] - samples[i] \in 0 .. 1 + lead
  <2> SUFFICES ASSUME NEW i \in Context + 1 .. size - 1
               PROVE  samples[i + 1] - samples[i] \in 0 .. 1 + lead
    OBVIOUS
  <2>1. Len(made) = full
    BY <1>2 DEF Made, SameLength
  <2>2. PICK k : k = i + 1
    OBVIOUS
  <2>3. i \in 1 .. size /\ k \in 1 .. size /\ i \in Context + 1 .. full - 1
    BY <1>3, <2>2
  <2>4. samples[i] = made[i] /\ samples[k] = made[k]
    BY <1>2, <2>3 DEF Prefix
  <2>5. made[i + 1] - made[i] \in 0 .. 1 + lead
    BY <1>1, <2>1, <2>3 DEF Made, Moves
  <2> QED
    BY <2>2, <2>4, <2>5
<1>7. \A i \in Context + h + 1 .. size : result[i] = samples[Least(i - h, size - holds)]
  BY <1>2 DEF Delayed
<1>8. Len(result) = size
  BY <1>2 DEF SameLength
<1>9. ASSUME NEW i \in Context + h + 1 .. size
      PROVE  result[i] - w[i] \in -(lead + lag) .. 0
  <2>1. PICK k : k = Least(i - h, size - holds)
    OBVIOUS
  <2>2. /\ k \in Context + 1 .. size /\ i - k \in 0 .. lag /\ k \in 1 .. size
        /\ k \in Context + 1 .. full /\ i \in Context + 1 .. full /\ i \in 1 .. full
        /\ k \in 1 .. full
    BY <1>3, <2>1 DEF Least
  <2>3. result[i] = samples[k]
    BY <1>7, <2>1
  <2>4. w[k] - w[i] = k - i
    BY <1>4, <2>2
  <2>5. samples[k] - w[k] \in -lead .. 0
    BY <1>5, <2>2
  <2>6. PICK a, b, c \in Int : a = samples[k] /\ b = w[k] /\ c = w[i]
    BY <1>4, <1>5, <2>2
  <2>7. a - b \in -lead .. 0 /\ b - c = k - i
    BY <2>4, <2>5, <2>6
  <2>8. a - c \in -(lead + lag) .. 0
    <3>1. k - i \in -lag .. 0 /\ k \in Int /\ i \in Int
      BY <1>3, <2>2
    <3>2. a - b \in -lead .. 0 /\ b - c \in -lag .. 0
      BY <2>7, <3>1
    <3>3. lead \in Nat /\ lag \in Nat
      BY <1>3
    <3> QED
      BY <3>2, <3>3
  <2> QED
    BY <2>3, <2>6, <2>8
<1>10. ASSUME NEW i \in Context + h + 1 .. size - 1
       PROVE  result[i + 1] - result[i] \in 0 .. 1 + lead
  <2>1. PICK j : j = i + 1
    OBVIOUS
  <2>2. PICK k, m : k = Least(i - h, size - holds) /\ m = Least(j - h, size - holds)
    OBVIOUS
  <2>3. /\ i \in Context + h + 1 .. size /\ j \in Context + h + 1 .. size
        /\ k \in Context + 1 .. size /\ k \in 1 .. size
        /\ m = k \/ (m = k + 1 /\ k \in Context + 1 .. size - 1)
    BY <1>3, <2>1, <2>2 DEF Least
  <2>4. result[i] = samples[k] /\ result[j] = samples[m]
    BY <1>7, <2>2, <2>3
  <2>5. CASE m = k
    <3>1. PICK c \in Int : c = samples[k]
      BY <1>5, <2>3
    <3>2. result[j] = c /\ result[i] = c
      BY <2>4, <2>5, <3>1
    <3>3. c - c \in 0 .. 1 + lead
      BY <1>3, <3>1
    <3> QED
      BY <2>1, <3>2, <3>3
  <2>6. CASE m = k + 1 /\ k \in Context + 1 .. size - 1
    <3>1. samples[k + 1] - samples[k] \in 0 .. 1 + lead
      BY <1>6, <2>6
    <3> QED
      BY <2>1, <2>4, <2>6, <3>1
  <2> QED
    BY <2>3, <2>5, <2>6
<1>11. Moves(result, Context + h + 1, lead)
  BY <1>8, <1>10 DEF Moves
<1> QED
  BY <1>1, <1>8, <1>9, <1>11

\* What infer_window does to a stream and a window, up to the inference.
LEMMA PreparedIs ==
  ASSUME lags \in Lags, NEW stream \in Streams(Samples, lags), StreamShape(stream),
         NEW w \in Seq(Samples), IsWindow(w), NEW holds \in 0 .. lags.input,
         NEW prepared, prepared = Prepared(stream, w, holds)
  PROVE  /\ prepared.stream \in Streams(Samples, lags)
         /\ prepared.stream.generation = stream.generation
         /\ prepared.stream.tangled = stream.tangled
         /\ prepared.stream.output_resampler = stream.output_resampler
         /\ prepared.stream.filter_input = prepared.result
         /\ prepared.stream.continued
              = FilterContinues(stream.filter_input, prepared.result, Rate)
         /\ prepared.result \in Seq(Samples) /\ Len(prepared.result) >= Shared
         /\ Made(prepared.result, w, holds, lags.input)
         /\ StreamShape(prepared.stream)
<1>1. PICK done : done = resample(stream.input_resampler, w, Rate, lags.input, holds, 0)
  OBVIOUS
<1>2. stream.input_resampler \in Resamplers(Samples, lags.input)
  BY DEF Streams
<1>3. lags.input > 0 => InputShape(stream.input_resampler, lags.input)
  BY DEF StreamShape
<1>4. /\ done.result \in Seq(Samples) /\ Len(done.result) = Len(w)
      /\ Made(done.result, w, holds, lags.input)
      /\ lags.input > 0 => InputShape(done.resampler, lags.input)
  BY <1>1, <1>2, <1>3, InputStage DEF Remembers
<1>5. Len(w) >= Shared /\ Shared \in Nat /\ Shared > 0
  BY WindowIs, SizesFit
<1>6. Silence \in Samples
  BY DEF Samples, Own
<1>7. prepared.stream \in Streams(Samples, lags) /\ prepared.stream.tangled = stream.tangled
  BY <1>6, PreparedProperties
<1>8. /\ prepared.result = done.result
      /\ prepared.stream.generation = stream.generation
      /\ prepared.stream.output_resampler = stream.output_resampler
      /\ prepared.stream.input_resampler = done.resampler
      /\ prepared.stream.filter_input = done.result
      /\ prepared.stream.continued
           = FilterContinues(stream.filter_input, done.result, Rate)
  BY <1>1, Zenon DEF Prepared, Streams
<1>9. Len(done.result) >= Shared
  BY <1>4, <1>5
<1>10. done.result # <<>>
  BY <1>5, <1>9, EmptySeq
<1>11. StreamShape(prepared.stream)
  BY <1>4, <1>8, <1>9, <1>10 DEF StreamShape
<1> QED
  BY <1>4, <1>7, <1>8, <1>9, <1>11

\* What the rest of it makes of the samples that the model makes.
Infers(inferred, stream, samples, holds) ==
  /\ inferred.result \in Seq(Samples) /\ SameLength(inferred.result, samples)
  /\ lags.output = 0 => inferred.result = samples
  /\ lags.output > 0 /\ Len(samples) > Context + lags.output =>
       Outputs(inferred.result, inferred.stream.output_resampler,
               stream.output_resampler, samples, holds)

\* The stream is as it was prepared, but for the output resampler.
LEMMA InferredIs ==
  ASSUME lags \in Lags, NEW stream \in Streams(Samples, lags), StreamShape(stream),
         NEW prepared, prepared.stream \in Streams(Samples, lags), StreamShape(prepared.stream),
         prepared.stream.generation = stream.generation,
         prepared.stream.tangled = stream.tangled,
         prepared.stream.filter_input = prepared.result,
         prepared.result \in Seq(Samples), Len(prepared.result) >= Shared,
         NEW short \in Nat, NEW holds \in 0 .. lags.output,
         NEW inferred, inferred = Inferred(stream, prepared, short, holds)
  PROVE  /\ inferred.stream \in Streams(Samples, lags)
         /\ inferred.stream.generation = stream.generation
         /\ inferred.stream.tangled = stream.tangled
         /\ inferred.stream.input_resampler = prepared.stream.input_resampler
         /\ inferred.stream.filter_input = prepared.result
         /\ inferred.stream.continued = prepared.stream.continued
         /\ StreamShape(inferred.stream)
         /\ \E samples \in Seq(Samples) :
              Prefix(samples, prepared.result) /\ Infers(inferred, stream, samples, holds)
<1>1. PICK samples : samples = First(prepared.result, Len(prepared.result) - short)
  OBVIOUS
<1>2. samples \in Seq(Samples) /\ Prefix(samples, prepared.result)
  BY <1>1, PrefixIs
<1>3. PICK done : done = resample(stream.output_resampler, samples, Rate, lags.output,
                                  holds, StatedOverlap(stream))
  OBVIOUS
<1>4. /\ inferred.result = done.result
      /\ inferred.stream.generation = prepared.stream.generation
      /\ inferred.stream.tangled = prepared.stream.tangled
      /\ inferred.stream.input_resampler = prepared.stream.input_resampler
      /\ inferred.stream.output_resampler = done.resampler
      /\ inferred.stream.filter_input = prepared.stream.filter_input
      /\ inferred.stream.continued = prepared.stream.continued
  BY <1>1, <1>3, Zenon DEF Inferred, Streams
<1>5. Silence \in Samples
  BY DEF Samples, Own
<1>6. inferred.stream \in Streams(Samples, lags) /\ inferred.result \in Seq(Samples)
  BY <1>5, InferredProperties
<1>7. SameLength(done.result, samples)
  <2>1. stream.output_resampler \in Resamplers(Samples, lags.output) /\ lags.output \in Nat
    BY SizesFit DEF Streams
  <2>2. StatedOverlap(stream) \in Nat
    <3>1. Len(stream.filter_input) \in Nat
      BY LenProperties DEF Streams
    <3>2. (Rate * 40) \div 1000 \in Nat
      BY SizesAreNat
    <3> QED
      BY <3>1, <3>2 DEF StatedOverlap, Least
  <2>3. Len(done.result) = Len(samples)
    BY <1>2, <1>3, <1>5, <2>1, <2>2, SizesAreNat, ResampleProperties
  <2> QED
    BY <2>3 DEF SameLength
<1>8. lags.output = 0 => done.result = samples
  BY <1>3 DEF resample
<1>9. lags.output > 0 /\ Len(samples) > Context + lags.output =>
        Outputs(done.result, done.resampler, stream.output_resampler, samples, holds)
  BY <1>2, <1>3, OutputStage
<1>10. Infers(inferred, stream, samples, holds)
  BY <1>4, <1>6, <1>7, <1>8, <1>9 DEF Infers
<1>11. prepared.result # <<>>
  BY SizesFit, EmptySeq
<1>12. StreamShape(inferred.stream)
  BY <1>4, <1>11 DEF StreamShape
<1> QED
  BY <1>2, <1>4, <1>6, <1>10, <1>12

\* What comes of it, is an answer.
LEMMA AnswerIs ==
  ASSUME lags \in Lags, NEW w \in Seq(Samples), IsWindow(w), NEW made \in Seq(Samples),
         NEW kept, Made(made, w, kept, lags.input),
         NEW samples \in Seq(Samples), Prefix(samples, made), NEW stream,
         NEW holds \in 0 .. lags.output, NEW inferred, Infers(inferred, stream, samples, holds)
  PROVE  IsAnswer(inferred.result, w[Context + 1])
<1>1. PICK result \in Seq(Samples) : result = inferred.result
  BY DEF Infers
<1>2. PICK lag, size : lag = lags.output /\ size = Len(samples)
  OBVIOUS
<1>3. /\ lag \in Nat /\ Context \in Nat /\ size \in Nat /\ Len(result) = size
      /\ lags.input \in Nat
  BY <1>1, <1>2, SizesFit, LenProperties DEF Infers, SameLength
<1>4. SameLength(result, samples)
  BY <1>1 DEF Infers
<1>5. CASE ~(size > Context + lag)
  <2>1. \A i \in Context + lag + 1 .. size : FALSE
    BY <1>3, <1>5
  <2>2. \A i \in Context + lag + 1 .. size - 1 : FALSE
    BY <1>3, <1>5
  <2> QED
    BY <1>1, <1>2, <1>3, <2>1, <2>2 DEF IsAnswer, Moves
<1>6. CASE size > Context + lag
  <2>1. PICK h \in 0 .. lag : Delayed(result, samples, Context + h + 1, h, holds)
    <3>1. CASE lag = 0
      <4>1. result = samples /\ holds = 0
        BY <1>1, <1>2, <3>1 DEF Infers
      <4>2. \A i \in Context + 0 + 1 .. size : samples[i] = samples[Least(i - 0, size - 0)]
        BY <1>3 DEF Least
      <4>3. Delayed(result, samples, Context + 0 + 1, 0, holds)
        BY <1>2, <4>1, <4>2 DEF Delayed
      <4> QED
        BY <3>1, <4>3
    <3>2. CASE lag > 0
      BY <1>1, <1>2, <1>6, <3>2 DEF Infers, Outputs
    <3> QED
      BY <1>3, <3>1, <3>2
  <2>2. /\ \A i \in Context + h + 1 .. Len(result) :
             result[i] - w[i] \in -(lags.input + lags.output) .. 0
        /\ Moves(result, Context + h + 1, lags.input)
    <3>1. Len(samples) > Context + lags.output /\ h \in 0 .. lags.output
      BY <1>2, <1>6, <2>1
    <3> QED
      BY <1>4, <2>1, <3>1, DelayedAnswer
  <2>3. \A i \in Context + lag + 1 .. size : i \in Context + h + 1 .. size
    BY <1>3, <2>1
  <2>4. \A i \in Context + lag + 1 .. size - 1 : i \in Context + h + 1 .. size - 1
    BY <1>3, <2>1
  <2>5. ASSUME NEW i \in Context + lag + 1 .. size PROVE w[i] = w[Context + 1] + i - Context - 1
    <3>1. i \in Context + 1 .. Len(w)
      <4>1. size <= Len(made) /\ Len(made) = Len(w)
        BY <1>2 DEF Prefix, Made, SameLength
      <4>2. Len(w) \in Nat
        BY LenProperties
      <4> QED
        BY <1>3, <4>1, <4>2
    <3> QED
      BY <3>1 DEF IsWindow
  <2>6. \A i \in Context + lag + 1 .. size :
          result[i] - (w[Context + 1] + i - Context - 1) \in -(lags.input + lags.output) .. 0
    BY <1>3, <2>2, <2>3, <2>5
  <2>7. Moves(result, Context + lag + 1, lags.input)
    BY <1>3, <2>2, <2>4 DEF Moves
  <2> QED
    BY <1>1, <1>2, <1>3, <2>6, <2>7 DEF IsAnswer
<1> QED
  BY <1>5, <1>6

\* A new stream has the shape of one, and so has one that is of no use.
LEMMA NewStreamShape ==
  ASSUME NEW g PROVE StreamShape(NewStream(g)) /\ StreamShape(TangledStream(g))
<1>1. StreamShape(NewStream(g))
  BY DEF NewStream, NewResampler, StreamShape, InputShape
<1>2. /\ TangledStream(g).filter_input = <<>>
      /\ TangledStream(g).input_resampler = NewResampler
      /\ TangledStream(g).output_resampler = NewResampler
  BY DEF TangledStream, NewStream
<1> QED
  BY <1>1, <1>2 DEF NewResampler, StreamShape, InputShape

\* A request is served out of a stream of the worker process, or a new one.
LEMMA StreamOfIs ==
  ASSUME Inv, Shapes, NEW request \in requests
  PROVE  /\ StreamOf(request) \in Streams(Samples, lags) /\ StreamShape(StreamOf(request))
         /\ StreamOf(request).generation = request.generation
         /\ lags \in Lags /\ request.window \in Seq(Samples) /\ IsWindow(request.window)
         /\ request.generation \in Nat
<1>1. /\ lags \in Lags /\ server \in Streams(Samples, lags) /\ RequestInv(request)
      /\ StreamShape(server) /\ IsWindow(request.window)
  BY DEF Inv, Types, MonitorInv, ServerInv, RequestsInv, Shapes, RequestsShape
<1>2. request.window \in Seq(Samples) /\ request.generation \in Nat
  BY <1>1 DEF RequestInv, Requests
<1>3. CASE server.generation = request.generation
  BY <1>1, <1>2, <1>3 DEF StreamOf
<1>4. CASE server.generation # request.generation
  <2>1. StreamOf(request) = NewStream(request.generation)
    BY <1>4 DEF StreamOf
  <2> QED
    BY <1>1, <1>2, <2>1, NewStreamIsOne, NewStreamShape
<1> QED
  BY <1>3, <1>4

-----------------------------------------------------------------------------
\* The positions from one on.
Ahead(from, n) == [i \in 1 .. n |-> from + i - 1]

\* The samples from a position on are samples.
LEMMA AheadIs ==
  ASSUME NEW from \in Nat, NEW n \in Nat
  PROVE  /\ Ahead(from, n) \in Seq(Samples) /\ Len(Ahead(from, n)) = n
         /\ \A i \in 1 .. n : Ahead(from, n)[i] = from + i - 1
<1>1. Ahead(from, n) \in [1 .. n -> Samples]
  BY DEF Ahead, Samples, Own
<1>2. \A i \in 1 .. n : Ahead(from, n)[i] = from + i - 1
  BY DEF Ahead
<1> HIDE DEF Samples
<1> QED
  BY <1>1, <1>2, FunctionIsSequence

\* A history is as long as the context.
LEMMA HistoryIs ==
  ASSUME NEW a \in Assemblers(Samples)
  PROVE  History(a, Context) \in Seq(Samples) /\ Len(History(a, Context)) = Context
<1> DEFINE silence == [i \in 1 .. Context |-> Silence]
<1>1. silence \in [1 .. Context -> Samples]
  BY DEF Samples, Own
<1> HIDE DEF silence
<1>2. silence \in Seq(Samples) /\ Len(silence) = Context
  BY <1>1, SizesAreNat, FunctionIsSequence
<1>3. History(a, Context) = IF Len(a.history) = Context THEN a.history ELSE silence
  BY DEF History, silence
<1> QED
  BY <1>2, <1>3 DEF Assemblers

\* What is taken out of input for a hop.
Input(from, hop) == Ahead(from, hop + Lookahead)

\* The assembler after a window: it has the history of the next one, and its tail.
Leaves(stream, w, hop, a) ==
  stream.history = Slice(w, hop, Context) /\ stream.tail = a.tail

\* A window is the history and what follows it, and leaves the history of the next one.
LEMMA TakenIs ==
  ASSUME NEW a \in Assemblers(Samples), NEW hop \in Nat, NEW from \in Nat,
         NEW input, input = Input(from, hop),
         NEW taken, taken = window(a, input, hop, Context)
  PROVE  /\ taken.result = History(a, Context) \o input
         /\ taken.result \in Seq(Samples) /\ Len(taken.result) = Context + hop + Lookahead
         /\ taken.stream \in Assemblers(Samples)
         /\ Leaves(taken.stream, taken.result, hop, a)
<1>1. hop + Lookahead \in Nat /\ Silence \in Samples
  BY SizesAreNat, OwnAreSamples DEF Samples
<1>2. input \in Seq(Samples) /\ Len(input) = hop + Lookahead
  BY <1>1, AheadIs DEF Input
<1>3. /\ taken.result \in Seq(Samples) /\ Len(taken.result) = Context + hop + Lookahead
      /\ taken.stream \in Assemblers(Samples)
  BY <1>1, <1>2, WindowProperties
<1>4. PICK result : result = History(a, Context) \o input
  OBVIOUS
<1>5. taken = [result |-> result,
               stream |-> [a EXCEPT !.history = NextHistory(result, hop, Context)]]
  BY <1>4 DEF window
<1>6. a = [history |-> a.history, tail |-> a.tail]
  BY DEF Assemblers
<1>7. /\ taken.result = result /\ taken.stream.tail = a.tail
      /\ taken.stream.history = NextHistory(result, hop, Context)
  BY <1>5, <1>6
<1> QED
  BY <1>3, <1>4, <1>7 DEF NextHistory, Slice, Leaves

\* Its samples: the history first, and the positions then.
Spans(w, history, from) ==
  /\ \A i \in 1 .. Context : w[i] = history[i]
  /\ \A i \in 1 .. Len(w) - Context : w[Context + i] = from + i - 1

\* A sequence of so many samples.
Sized(s, n) == s \in Seq(Samples) /\ Len(s) = n

\* The window of a hop has them.
LEMMA RowSpans ==
  ASSUME NEW history, Sized(history, Context), NEW from \in Nat, NEW n \in Nat,
         NEW w, w = history \o Ahead(from, n)
  PROVE  Sized(w, Context + n) /\ Spans(w, history, from)
<1>0. history \in Seq(Samples) /\ Len(history) = Context
  BY DEF Sized
<1>1. /\ Ahead(from, n) \in Seq(Samples) /\ Len(Ahead(from, n)) = n
      /\ \A i \in 1 .. n : Ahead(from, n)[i] = from + i - 1
  BY AheadIs
<1>2. Context \in Nat
  BY SizesAreNat
<1> DEFINE ahead == Ahead(from, n)
<1> HIDE DEF ahead
<1>3. /\ w \in Seq(Samples) /\ Len(w) = Len(history) + Len(ahead)
      /\ \A i \in 1 .. Len(history) : w[i] = history[i]
      /\ \A i \in 1 .. Len(ahead) : w[Len(history) + i] = ahead[i]
  BY <1>0, <1>1, RowIs DEF ahead
<1>4. Len(w) = Context + n /\ Len(w) - Context = n
  BY <1>0, <1>1, <1>2, <1>3 DEF ahead
<1>5. \A i \in 1 .. Context : w[i] = history[i]
  BY <1>0, <1>3
<1>6. \A i \in 1 .. n : w[Context + i] = from + i - 1
  BY <1>0, <1>1, <1>3 DEF ahead
<1> QED
  BY <1>3, <1>4, <1>5, <1>6 DEF Spans, Sized

\* It is a window from its position on,
LEMMA SpansIsWindow ==
  ASSUME lags \in Lags, NEW w \in Seq(Samples), Len(w) >= Shared + Lookahead, NEW history,
         NEW from \in Nat, Spans(w, history, from)
  PROVE  IsWindow(w) /\ w[Context + 1] = from
<1>1. /\ Context \in Nat /\ Lookahead \in Nat /\ Lookahead > 0 /\ Shared = Context + Lookahead
  BY SizesFit
<1>2. Len(w) \in Nat
  BY LenProperties
<1>3. \A i \in 1 .. Len(w) - Context : w[Context + i] = from + i - 1
  BY DEF Spans
<1>4. w[Context + 1] = from
  <2>1. 1 \in 1 .. Len(w) - Context
    BY <1>1, <1>2
  <2> QED
    BY <1>3, <2>1
<1>5. ASSUME NEW i \in Context + 1 .. Len(w) PROVE w[i] = from + i - Context - 1
  <2>1. PICK j : j = i - Context
    OBVIOUS
  <2>2. j \in 1 .. Len(w) - Context /\ Context + j = i
    BY <1>1, <1>2, <2>1
  <2>3. w[i] = from + j - 1
    BY <1>3, <2>2
  <2> QED
    BY <1>1, <2>1, <2>3
<1> QED
  BY <1>4, <1>5 DEF IsWindow

\* begins with the history and the positions that come first,
LEMMA RowBegins ==
  ASSUME lags \in Lags, NEW w \in Seq(Samples), Len(w) >= Shared,
         NEW history, Sized(history, Context), NEW from \in Nat, Spans(w, history, from)
  PROVE  First(w, Shared) = history \o Ahead(from, Lookahead)
<1>1. /\ Context \in Nat /\ Lookahead \in Nat /\ Shared \in Nat /\ Shared = Context + Lookahead
  BY SizesFit
<1>2. Len(w) \in Nat
  BY LenProperties
<1>3. PICK row : row = history \o Ahead(from, Lookahead)
  OBVIOUS
<1>4. row \in Seq(Samples) /\ Len(row) = Shared /\ Spans(row, history, from)
  <2>1. Sized(row, Context + Lookahead) /\ Spans(row, history, from)
    BY <1>1, <1>3, RowSpans
  <2> QED
    BY <1>1, <2>1 DEF Sized
<1>5. PICK begin : begin = First(w, Shared)
  OBVIOUS
<1>6. /\ begin \in Seq(Samples) /\ Len(begin) = Shared
      /\ \A i \in 1 .. Shared : begin[i] = w[i]
  BY <1>1, <1>5, FirstIs
<1>7. ASSUME NEW i \in 1 .. Shared PROVE row[i] = w[i]
  <2>1. CASE i <= Context
    <3>1. i \in 1 .. Context
      BY <1>1, <2>1
    <3> QED
      BY <1>4, <3>1 DEF Spans
  <2>2. CASE i > Context
    <3>1. PICK j : j = i - Context
      OBVIOUS
    <3>2. j \in 1 .. Len(w) - Context /\ j \in 1 .. Len(row) - Context /\ Context + j = i
      BY <1>1, <1>2, <1>4, <2>2, <3>1
    <3> QED
      BY <1>4, <3>2 DEF Spans
  <2> QED
    BY <1>1, <2>1, <2>2
<1>8. begin = row
  BY <1>4, <1>6, <1>7, SameSamples
<1> QED
  BY <1>3, <1>5, <1>8

\* and ends with what the next window begins with.
LEMMA RowEnds ==
  ASSUME lags \in Lags, NEW hop \in Nat, NEW w, Sized(w, Shared + hop),
         NEW history, NEW from \in Nat, Spans(w, history, from)
  PROVE  Final(w, Shared) = Slice(w, hop, Context) \o Ahead(from + hop, Lookahead)
<1>1. /\ Context \in Nat /\ Lookahead \in Nat /\ Shared \in Nat /\ Shared = Context + Lookahead
      /\ from + hop \in Nat
  BY SizesFit
<1>2. PICK kept : kept = Slice(w, hop, Context)
  OBVIOUS
<1>0. w \in Seq(Samples) /\ Len(w) = Shared + hop
  BY DEF Sized
<1>3. /\ kept \in Seq(Samples) /\ Len(kept) = Context
      /\ \A i \in 1 .. Context : kept[i] = w[hop + i]
  <2>1. w \in Seq(Samples) /\ hop + Context <= Len(w)
    BY <1>0, <1>1
  <2> QED
    BY <1>1, <1>2, <2>1, SliceIs
<1>4. PICK row : row = kept \o Ahead(from + hop, Lookahead)
  OBVIOUS
<1>5. row \in Seq(Samples) /\ Len(row) = Shared /\ Spans(row, kept, from + hop)
  <2>1. Sized(kept, Context)
    BY <1>3 DEF Sized
  <2>2. Sized(row, Context + Lookahead) /\ Spans(row, kept, from + hop)
    BY <1>1, <1>4, <2>1, RowSpans
  <2> QED
    BY <1>1, <2>2 DEF Sized
<1>6. PICK end : end = Final(w, Shared)
  OBVIOUS
<1>7. /\ end \in Seq(Samples) /\ Len(end) = Shared
      /\ \A i \in 1 .. Shared : end[i] = w[hop + i]
  <2>1. Len(w) - Shared = hop /\ Shared <= Len(w)
    BY <1>0, <1>1
  <2>2. /\ end \in Seq(Samples) /\ Len(end) = Shared
        /\ \A i \in 1 .. Shared : end[i] = w[Len(w) - Shared + i]
    BY <1>0, <1>1, <1>6, <2>1, FinalIs
  <2> QED
    BY <2>1, <2>2
<1>8. ASSUME NEW i \in 1 .. Shared PROVE row[i] = end[i]
  <2>1. CASE i <= Context
    <3>1. i \in 1 .. Context
      BY <1>1, <2>1
    <3> QED
      BY <1>3, <1>5, <1>7, <3>1 DEF Spans
  <2>2. CASE i > Context
    <3>1. PICK j : j = i - Context
      OBVIOUS
    <3>2. j \in 1 .. Len(row) - Context /\ Context + j = i
      BY <1>1, <1>5, <2>2, <3>1
    <3>3. row[i] = from + hop + j - 1
      BY <1>1, <1>5, <3>2 DEF Spans
    <3>4. PICK k : k = hop + j
      OBVIOUS
    <3>5. k \in 1 .. Len(w) - Context /\ Context + k = hop + i
      BY <1>0, <1>1, <2>2, <3>1, <3>4
    <3>6. w[hop + i] = from + k - 1
      BY <3>5 DEF Spans
    <3> QED
      <4>1. from + hop + j - 1 = from + k - 1
        BY <1>1, <3>1, <3>4
      <4> QED
        BY <1>7, <3>3, <3>6, <4>1
  <2> QED
    BY <1>1, <2>1, <2>2
<1>9. end = row
  BY <1>5, <1>7, <1>8, SameSamples
<1> QED
  BY <1>2, <1>4, <1>6, <1>9
-----------------------------------------------------------------------------
\* What a capture does: the window of a hop and its look-ahead is requested.
CapturesWindow(w) ==
  /\ Sized(w, Shared + captured'.hop)
  /\ Spans(w, History(AssemblerAtCapture, Context), front)
  /\ Leaves(assembler', w, captured'.hop, AssemblerAtCapture)
  /\ requests' = requests \cup {[number |-> captured'.number, generation |-> generation,
                                 window |-> w, overtaken |-> FALSE, tangled |-> FALSE]}

\* And what it leaves alone.
LEMMA CapturedIs ==
  ASSUME Inv, Capture
  PROVE  /\ thread = "ready" /\ thread' = "waiting" /\ discontinuity' = FALSE
         /\ captured'.number = captured.number + 1 /\ captured.number \in Nat
         /\ captured'.generation = generation /\ captured'.first = front
         /\ captured'.hop \in Nat \ {0} /\ captured'.hop >= Lookahead
         /\ front \in Nat /\ front' = front + captured'.hop
         /\ assembler' \in Assemblers(Samples)
         /\ AssemblerAtCapture \in Assemblers(Samples)
         /\ lags \in Lags /\ lags' = lags /\ generation' = generation /\ server' = server
         /\ converted' = converted /\ block' = block /\ disturbed' = disturbed
         /\ \E w : CapturesWindow(w)
<1> DEFINE hop   == Hop(duration)
           input == [i \in 1 .. hop + Lookahead |-> front + i - 1]
           next  == [number |-> captured.number + 1, generation |-> generation,
                     first |-> front, hop |-> hop]
<1>0. PICK taken : taken = window(AssemblerAtCapture, input, hop, Context)
  OBVIOUS
<1>1. /\ thread = "ready" /\ hop > 0 /\ front' = front + hop /\ discontinuity' = FALSE
      /\ assembler' = taken.stream /\ captured' = next /\ thread' = "waiting"
      /\ requests' = requests \cup {[number |-> next.number, generation |-> generation,
                                     window |-> taken.result, overtaken |-> FALSE,
                                     tangled |-> FALSE]}
      /\ UNCHANGED <<lags, generation, duration, converted, server, ghostVars>>
  BY <1>0 DEF Capture
<1>2. /\ front \in Nat /\ lags \in Lags /\ duration \in Durations
      /\ captured.number \in Nat /\ assembler \in Assemblers(Samples)
  BY DEF Inv, Types, MonitorInv, ThreadInv
<1>3. hop \in Nat \ {0} /\ hop >= Lookahead /\ Lookahead \in Nat
  BY <1>1, <1>2, SizesAreNat, BlocksAssumption
<1> HIDE DEF hop
<1>4. AssemblerAtCapture \in Assemblers(Samples)
  BY <1>2, NoStreamIsOne DEF AssemblerAtCapture
<1>5. input = Input(front, hop)
  BY DEF Ahead, Input
<1> HIDE DEF input
<1>6. /\ taken.result = History(AssemblerAtCapture, Context) \o input
      /\ taken.stream \in Assemblers(Samples)
      /\ Leaves(taken.stream, taken.result, hop, AssemblerAtCapture)
  <2>1. hop \in Nat /\ front \in Nat
    BY <1>2, <1>3
  <2> QED
    BY <1>0, <1>4, <1>5, <2>1, TakenIs
<1>7. captured'.hop = hop /\ captured'.number = captured.number + 1
      /\ captured'.generation = generation /\ captured'.first = front
  BY <1>1
<1>8. Sized(taken.result, Shared + hop)
      /\ Spans(taken.result, History(AssemblerAtCapture, Context), front)
  <2>1. Sized(History(AssemblerAtCapture, Context), Context)
    BY <1>4, HistoryIs DEF Sized
  <2>2. PICK n \in Nat : n = hop + Lookahead
    BY <1>3
  <2>3. /\ Sized(taken.result, Context + n)
        /\ Spans(taken.result, History(AssemblerAtCapture, Context), front)
    BY <1>2, <1>5, <1>6, <2>1, <2>2, RowSpans DEF Input
  <2>4. Context + n = Shared + hop
    BY <1>2, <1>3, <2>2, SizesFit
  <2> QED
    BY <2>3, <2>4
<1>9. CapturesWindow(taken.result)
  BY <1>1, <1>6, <1>7, <1>8 DEF CapturesWindow
<1> QED
  BY <1>1, <1>2, <1>3, <1>4, <1>6, <1>7, <1>9 DEF ghostVars
-----------------------------------------------------------------------------
\* At the start there is nothing.
LEMMA ShapesInit == Init => Shapes
<1> SUFFICES ASSUME Init PROVE Shapes
  OBVIOUS
<1>1. /\ lags \in Lags /\ generation = 1 /\ discontinuity = TRUE /\ thread = "ready"
      /\ captured.generation = 0 /\ requests = {} /\ server = NewStream(0)
  BY DEF Init, NoCapture, Forgotten
<1>2. FlightShape /\ RequestsShape /\ TailShape /\ AnswerShape
  BY <1>1 DEF FlightShape, RequestsShape, TailShape, AnswerShape
<1>3. StreamShape(server)
  BY <1>1, NewStreamShape
<1> QED
  BY <1>2, <1>3 DEF Shapes

\* A discontinuity: nothing of the new generation is on its way.
LEMMA DiscontinueShapes ==
  ASSUME Inv, Shapes, Discontinue PROVE Shapes'
<1>1. /\ generation' = generation + 1 /\ discontinuity' = TRUE /\ lags' = lags
      /\ thread' = thread /\ assembler' = assembler /\ captured' = captured
      /\ converted' = converted /\ requests' = requests /\ server' = server
  BY DEF Discontinue, threadVars, serverVars
<1>2. generation \in Nat /\ captured.generation \in Nat /\ captured.generation <= generation
  BY DEF Inv, Types, MonitorInv, ThreadInv
<1>3. captured.generation # generation + 1
  BY <1>2
<1>4. FlightShape'
  BY <1>1, <1>3 DEF Shapes, FlightShape
<1>5. RequestsShape'
  BY <1>1 DEF Shapes, RequestsShape
<1>6. StreamShape(server)'
  BY <1>1 DEF Shapes, StreamShape
<1>7. TailShape'
  BY <1>1 DEF Shapes, TailShape, Near
<1>8. AnswerShape'
  BY <1>1 DEF Shapes, AnswerShape, IsAnswer
<1> QED
  BY <1>4, <1>5, <1>6, <1>7, <1>8 DEF Shapes

\* What a step leaves of the requests is for windows, if it only drops and marks some.
LEMMA RemainingShapes ==
  ASSUME Shapes, captured' = captured, \A left \in requests' : Remain(left)
  PROVE  RequestsShape'
<1> SUFFICES ASSUME NEW left \in requests'
             PROVE  /\ IsWindow(left.window)
                    /\ left.number = captured'.number
                         => left.window[Context + 1] = captured'.first
  BY DEF RequestsShape, IsWindow
<1>1. PICK request \in requests : SameRequest(left, request)
  BY DEF Remain
<1>2. /\ IsWindow(request.window)
      /\ request.number = captured.number => request.window[Context + 1] = captured.first
  BY DEF Shapes, RequestsShape
<1> QED
  BY <1>1, <1>2 DEF SameRequest

\* Without its stream, the worker process has a new one.
LEMMA ForgetShapes ==
  ASSUME Inv, Shapes, Forget PROVE Shapes'
<1>1. /\ server' = NewStream(0) /\ lags' = lags /\ front' = front /\ generation' = generation
      /\ discontinuity' = discontinuity /\ thread' = thread /\ assembler' = assembler
      /\ captured' = captured /\ converted' = converted
  BY DEF Forget, Forgotten, monitorVars, threadVars
<1>2. FlightShape' /\ TailShape' /\ AnswerShape'
  BY <1>1 DEF Shapes, FlightShape, TailShape, Near, AnswerShape, IsAnswer
<1>3. StreamShape(server)'
  <2>1. StreamShape(NewStream(0))
    BY NewStreamShape
  <2> QED
    BY <1>1, <2>1 DEF StreamShape
<1>4. RequestsShape'
  BY <1>1, ForgetRemains, RemainingShapes
<1> QED
  BY <1>2, <1>3, <1>4 DEF Shapes

\* A failure takes the tail with it.
LEMMA ConversionFailsShapes ==
  ASSUME Inv, Shapes, ConversionFails PROVE Shapes'
<1>1. /\ assembler' = NoStream /\ converted' = <<>> /\ thread' = "ready"
      /\ captured' = captured /\ lags' = lags /\ front' = front /\ generation' = generation
      /\ discontinuity' = discontinuity /\ requests' = requests /\ server' = server
  BY DEF ConversionFails, AssemblerAfterFailure, monitorVars, serverVars
<1>2. FlightShape' /\ RequestsShape' /\ AnswerShape'
  BY <1>1 DEF Shapes, FlightShape, RequestsShape, AnswerShape
<1>3. StreamShape(server)'
  BY <1>1 DEF Shapes, StreamShape
<1>4. TailShape'
  <2>1. assembler'.tail = <<>> /\ Len(<<>>) = 0
    BY <1>1, EmptySeq DEF NoStream
  <2>2. Len(assembler'.tail) = 0
    BY <2>1
  <2>3. 1 .. Len(assembler'.tail) = {}
    BY <2>2
  <2> QED
    BY <2>3 DEF TailShape
<1> QED
  BY <1>2, <1>3, <1>4 DEF Shapes

\* A step that changes nothing.
LEMMA StutterShapes ==
  ASSUME Shapes, UNCHANGED vars PROVE Shapes'
<1>1. /\ lags' = lags /\ front' = front /\ generation' = generation
      /\ discontinuity' = discontinuity /\ thread' = thread /\ assembler' = assembler
      /\ captured' = captured /\ converted' = converted
      /\ requests' = requests /\ server' = server
  BY DEF vars, monitorVars, threadVars, serverVars
<1> QED
  BY <1>1 DEF Shapes, FlightShape, RequestsShape, StreamShape, TailShape, Near,
              AnswerShape, IsAnswer

\* A captured window is one, and the tail of the block before it is its neighbour.
LEMMA CaptureShapes ==
  ASSUME Inv, Shapes, Capture PROVE Shapes'
<1>1. /\ thread = "ready" /\ thread' = "waiting" /\ discontinuity' = FALSE
      /\ captured'.number = captured.number + 1 /\ captured.number \in Nat
      /\ captured'.generation = generation /\ captured'.first = front
      /\ captured'.hop \in Nat \ {0} /\ captured'.hop >= Lookahead
      /\ front \in Nat /\ front' = front + captured'.hop
      /\ lags \in Lags /\ lags' = lags /\ generation' = generation /\ server' = server
  BY CapturedIs
<1>2. PICK w : CapturesWindow(w)
  BY CapturedIs
<1>3. Lookahead \in Nat /\ Shared \in Nat
  BY <1>1, SizesFit
<1>4. FlightShape'
  BY <1>1, <1>3 DEF FlightShape
<1>5. IsWindow(w) /\ w[Context + 1] = front
  <2>1. /\ w \in Seq(Samples) /\ Len(w) = Shared + captured'.hop
        /\ Spans(w, History(AssemblerAtCapture, Context), front)
    BY <1>2 DEF CapturesWindow, Sized
  <2>2. Len(w) >= Shared + Lookahead
    BY <1>1, <1>3, <2>1
  <2> QED
    BY <1>1, <2>1, <2>2, SpansIsWindow
<1>6. RequestsShape'
  <2> SUFFICES ASSUME NEW request \in requests'
               PROVE  /\ IsWindow(request.window)
                      /\ request.number = captured'.number
                           => request.window[Context + 1] = captured'.first
    BY DEF RequestsShape, IsWindow
  <2>1. CASE request \in requests
    <3>1. IsWindow(request.window) /\ request.number \in Nat /\ request.number <= captured.number
      BY <2>1 DEF Shapes, RequestsShape, Inv, Types, RequestsInv, RequestInv, Requests
    <3>2. request.number # captured'.number
      BY <1>1, <3>1
    <3> QED
      BY <3>1, <3>2
  <2>2. CASE request \notin requests
    <3>1. request.window = w
      BY <1>2, <2>2 DEF CapturesWindow
    <3> QED
      BY <1>1, <1>5, <3>1
  <2> QED
    BY <2>1, <2>2
<1>7. StreamShape(server)'
  BY <1>1 DEF Shapes, StreamShape
<1>8. TailShape'
  <2>1. assembler'.tail = AssemblerAtCapture.tail
    BY <1>2 DEF CapturesWindow, Leaves
  <2> SUFFICES ASSUME NEW i \in 1 .. Len(AssemblerAtCapture.tail)
               PROVE  Near(AssemblerAtCapture.tail[i], front + i - 1)
    BY <1>1, <2>1 DEF TailShape, Near
  <2>2. CASE discontinuity
    <3>1. AssemblerAtCapture.tail = <<>> /\ Len(<<>>) = 0
      BY <2>2, EmptySeq DEF AssemblerAtCapture, NoStream
    <3>2. Len(AssemblerAtCapture.tail) = 0
      BY <3>1
    <3> QED
      BY <3>2
  <2>3. CASE ~discontinuity
    BY <1>1, <2>3 DEF AssemblerAtCapture, Shapes, TailShape
  <2> QED
    BY <2>2, <2>3
<1>9. AnswerShape'
  BY <1>1 DEF AnswerShape
<1> QED
  BY <1>4, <1>6, <1>7, <1>8, <1>9 DEF Shapes

\* What serving a request makes of its window, and of a stream of its generation, up to
\* the inference and after it.
PreparedFor(request, kept, prepared) ==
  kept \in 0 .. lags.input /\ prepared = Prepared(StreamOf(request), request.window, kept)

InferredFor(request, prepared, short, holds, inferred) ==
  /\ short \in Shortfalls /\ holds \in 0 .. lags.output
  /\ inferred = Inferred(StreamOf(request), prepared, short, holds)

\* It fails at once, or after it was prepared, or it answers.
LEMMA ServeCases ==
  ASSUME NEW request \in requests, Serve(request)
  PROVE  \/ server' = server /\ Answer(request, <<>>)
         \/ \E kept, prepared :
              /\ PreparedFor(request, kept, prepared)
              /\ server' = prepared.stream /\ Answer(request, <<>>)
         \/ \E kept, prepared, short, holds, inferred :
              /\ PreparedFor(request, kept, prepared)
              /\ InferredFor(request, prepared, short, holds, inferred)
              /\ server' = inferred.stream /\ Answer(request, inferred.result)
<1> DEFINE prepared(kept) == Prepared(StreamOf(request), request.window, kept)
           inferred(kept, short, holds) ==
             Inferred(StreamOf(request), prepared(kept), short, holds)
<1>1. CASE UNCHANGED server /\ Answer(request, <<>>)
  BY <1>1
<1>2. CASE \E kept \in 0 .. lags.input :
             server' = prepared(kept).stream /\ Answer(request, <<>>)
  BY <1>2, Zenon DEF PreparedFor
<1>3. CASE \E kept \in 0 .. lags.input, holds \in 0 .. lags.output, short \in Shortfalls :
             /\ server' = inferred(kept, short, holds).stream
             /\ Answer(request, inferred(kept, short, holds).result)
  BY <1>3, Zenon DEF PreparedFor, InferredFor
<1> QED
  BY <1>1, <1>2, <1>3, Zenon DEF Serve

\* Both the streams it may leave have their shape, and what it answers with is an answer.
LEMMA ServedIs ==
  ASSUME Inv, Shapes, NEW request \in requests, NEW kept, NEW prepared,
         PreparedFor(request, kept, prepared)
  PROVE  /\ StreamShape(prepared.stream)
         /\ \A short, holds, inferred :
              InferredFor(request, prepared, short, holds, inferred) =>
                /\ StreamShape(inferred.stream)
                /\ IsAnswer(inferred.result, request.window[Context + 1])
<1>1. PICK stream, w : stream = StreamOf(request) /\ w = request.window
  OBVIOUS
<1>2. /\ stream \in Streams(Samples, lags) /\ StreamShape(stream)
      /\ lags \in Lags /\ w \in Seq(Samples) /\ IsWindow(w)
  BY <1>1, StreamOfIs
<1>3. kept \in 0 .. lags.input /\ prepared = Prepared(stream, w, kept)
  BY <1>1 DEF PreparedFor
<1>4. /\ prepared.stream \in Streams(Samples, lags)
      /\ prepared.stream.generation = stream.generation
      /\ prepared.stream.tangled = stream.tangled
      /\ prepared.stream.filter_input = prepared.result
      /\ prepared.result \in Seq(Samples) /\ Len(prepared.result) >= Shared
      /\ Made(prepared.result, w, kept, lags.input)
      /\ StreamShape(prepared.stream)
  BY <1>2, <1>3, PreparedIs
<1>5. ASSUME NEW short, NEW holds, NEW inferred,
             InferredFor(request, prepared, short, holds, inferred)
      PROVE  StreamShape(inferred.stream) /\ IsAnswer(inferred.result, w[Context + 1])
  <2>1. /\ short \in Nat /\ holds \in 0 .. lags.output
        /\ inferred = Inferred(stream, prepared, short, holds)
    BY <1>1, <1>5, VoiceStreamAssumption DEF InferredFor
  <2>2. /\ StreamShape(inferred.stream)
        /\ \E samples \in Seq(Samples) :
             Prefix(samples, prepared.result) /\ Infers(inferred, stream, samples, holds)
    BY <1>2, <1>4, <2>1, InferredIs
  <2>3. PICK samples \in Seq(Samples) :
          Prefix(samples, prepared.result) /\ Infers(inferred, stream, samples, holds)
    BY <2>2
  <2>4. IsAnswer(inferred.result, w[Context + 1])
    BY <1>2, <1>4, <2>1, <2>3, AnswerIs
  <2> QED
    BY <2>2, <2>4
<1> QED
  BY <1>1, <1>4, <1>5

\* A step of the worker process leaves a stream in shape, and gives its answer, if that is
\* awaited.
LEMMA AnsweredShapes ==
  ASSUME Inv, Shapes, NEW request \in requests, NEW result, Answer(request, result),
         IsAnswer(result, request.window[Context + 1]), StreamShape(server'), RequestsShape',
         lags' = lags, front' = front, generation' = generation,
         discontinuity' = discontinuity, assembler' = assembler, captured' = captured
  PROVE  Shapes'
<1>1. \/ converted' = converted /\ thread' = thread
      \/ Awaited(request) /\ thread' = "answered" /\ converted' = result
  BY DEF Answer
<1>2. thread' = thread \/ (thread = "waiting" /\ thread' = "answered")
  BY <1>1 DEF Awaited
<1>3. FlightShape'
  BY <1>2 DEF Shapes, FlightShape
<1>4. StreamShape(server)'
  BY DEF StreamShape
<1>5. TailShape'
  BY <1>2 DEF Shapes, TailShape, Near
<1>6. AnswerShape'
  <2>1. CASE converted' = converted /\ thread' = thread
    BY <2>1 DEF Shapes, AnswerShape, IsAnswer
  <2>2. CASE Awaited(request) /\ converted' = result
    <3>1. request.window[Context + 1] = captured.first
      BY <2>2 DEF Awaited, Shapes, RequestsShape
    <3>2. IsAnswer(result, captured.first)
      BY <3>1
    <3> QED
      BY <2>2, <3>2 DEF AnswerShape, IsAnswer
  <2> QED
    BY <1>1, <2>1, <2>2
<1> QED
  BY <1>3, <1>4, <1>5, <1>6 DEF Shapes

\* Of nothing nothing is known.
LEMMA NothingIsAnswer ==
  ASSUME NEW first PROVE IsAnswer(<<>>, first)
<1>1. Len(<<>>) = 0
  BY EmptySeq
<1> QED
  BY <1>1 DEF IsAnswer

\* A window that is served moves the stream on, and may answer.
LEMMA ServeShapes ==
  ASSUME Inv, Shapes, NEW request \in requests, Serve(request) PROVE Shapes'
<1>1. /\ requests' = requests \ {request}
      /\ lags' = lags /\ front' = front /\ generation' = generation
      /\ discontinuity' = discontinuity /\ assembler' = assembler /\ captured' = captured
  BY DEF Serve, monitorVars
<1>2. RequestsShape'
  BY <1>1 DEF Shapes, RequestsShape
<1>3. StreamShape(server)
  BY DEF Shapes
<1>4. PICK result :
        /\ Answer(request, result) /\ IsAnswer(result, request.window[Context + 1])
        /\ StreamShape(server')
  <2>1. CASE server' = server /\ Answer(request, <<>>)
    BY <1>3, <2>1, NothingIsAnswer
  <2>2. CASE \E kept, prepared :
               /\ PreparedFor(request, kept, prepared)
               /\ server' = prepared.stream /\ Answer(request, <<>>)
    BY <2>2, ServedIs, NothingIsAnswer
  <2>3. CASE \E kept, prepared, short, holds, inferred :
               /\ PreparedFor(request, kept, prepared)
               /\ InferredFor(request, prepared, short, holds, inferred)
               /\ server' = inferred.stream /\ Answer(request, inferred.result)
    <3>1. PICK kept, prepared, short, holds, inferred :
            /\ PreparedFor(request, kept, prepared)
            /\ InferredFor(request, prepared, short, holds, inferred)
            /\ server' = inferred.stream /\ Answer(request, inferred.result)
      BY <2>3
    <3>2. /\ StreamShape(inferred.stream)
          /\ IsAnswer(inferred.result, request.window[Context + 1])
      BY <3>1, ServedIs
    <3> QED
      BY <3>1, <3>2
  <2> QED
    BY <2>1, <2>2, <2>3, ServeCases
<1> QED
  BY <1>1, <1>2, <1>4, AnsweredShapes

\* Two conversions at once leave a stream that has its shape, and nothing to know.
LEMMA TangleShapes ==
  ASSUME Inv, Shapes, NEW request \in requests, Tangle(request) PROVE Shapes'
<1> DEFINE mixed == [i \in DOMAIN request.window |-> Mixed]
<1>1. /\ server' \in {server, TangledStream(request.generation)}
      /\ lags' = lags /\ front' = front /\ generation' = generation
      /\ discontinuity' = discontinuity /\ assembler' = assembler /\ captured' = captured
  BY DEF Tangle, monitorVars
<1>2. RequestsShape'
  BY <1>1, TangleRemains, RemainingShapes
<1>3. StreamShape(server')
  <2>1. StreamShape(server) /\ StreamShape(TangledStream(request.generation))
    BY NewStreamShape DEF Shapes
  <2> QED
    BY <1>1, <2>1
<1>4. IsAnswer(mixed, request.window[Context + 1])
  <2>1. PICK n \in Nat : n = Len(request.window) /\ DOMAIN request.window = 1 .. n
    BY LenProperties DEF Inv, Types, RequestsInv, RequestInv, Requests
  <2>2. mixed = [i \in 1 .. n |-> Mixed]
    BY <2>1
  <2>3. mixed \in [1 .. n -> {Mixed}] /\ \A i \in 1 .. n : mixed[i] = Mixed
    BY <2>2
  <2> HIDE DEF mixed
  <2>4. Len(mixed) = n
    BY <2>3, FunctionIsSequence
  <2> QED
    BY <2>3, <2>4 DEF IsAnswer
<1>5. Answer(request, mixed) \/ Answer(request, <<>>)
  BY DEF Tangle
<1> HIDE DEF mixed
<1>6. CASE Answer(request, mixed)
  BY <1>1, <1>2, <1>3, <1>4, <1>6, AnsweredShapes
<1>7. CASE Answer(request, <<>>)
  BY <1>1, <1>2, <1>3, <1>7, NothingIsAnswer, AnsweredShapes
<1> QED
  BY <1>5, <1>6, <1>7

\* What a stitch does, whether or not its block is heard.
Stitching(offset) ==
  /\ offset \in Offsets(assembler.tail, converted, Context, Overlap, Search)
  /\ assembler' = Stitched(offset).stream

\* It needs an answer that is long enough, and finds an offset in it.
LEMMA StitchedIs ==
  ASSUME Inv, Shapes, DropBlock \/ AppendBlock
  PROVE  /\ thread = "answered" /\ thread' = "ready"
         /\ Stitches(converted, captured.hop, Context, Overlap, Search)
         /\ converted \in Seq(Samples) /\ converted # <<>> /\ converted' = <<>>
         /\ Len(converted) >= Context + captured.hop + Overlap + Search
         /\ captured.hop \in Nat \ {0} /\ captured.hop >= Lookahead
         /\ captured' = captured /\ lags \in Lags /\ lags' = lags /\ front' = front
         /\ generation' = generation /\ discontinuity' = discontinuity
         /\ requests' = requests /\ server' = server /\ disturbed' = disturbed
         /\ \E offset \in 0 .. Search :
              /\ Stitching(offset)
              /\ assembler'.tail = NextTail(converted, captured.hop, Context, Overlap, offset)
              /\ assembler'.history = assembler.history
              /\ IF generation = captured.generation
                 THEN block' = Stitched(offset).result ELSE block' = block
<1>1. /\ thread = "answered" /\ thread' = "ready"
      /\ Stitches(converted, captured.hop, Context, Overlap, Search)
      /\ converted' = <<>> /\ lags' = lags /\ front' = front /\ generation' = generation
      /\ discontinuity' = discontinuity /\ captured' = captured /\ disturbed' = disturbed
      /\ requests' = requests /\ server' = server
  BY DEF DropBlock, AppendBlock, CanStitch, serverVars
<1>2. /\ converted \in Seq(Samples) /\ assembler \in Assemblers(Samples) /\ lags \in Lags
      /\ captured.hop \in Nat
  BY DEF Inv, Types, MonitorInv, ThreadInv
<1>3. captured.hop \in Nat \ {0} /\ captured.hop >= Lookahead
  <2>1. captured.hop >= Lookahead
    BY <1>1 DEF Shapes, FlightShape
  <2> QED
    BY <1>2, <2>1, SizesFit
<1>4. Len(converted) >= Context + captured.hop + Overlap + Search /\ converted # <<>>
  <2>1. Len(converted) >= Context + captured.hop + Overlap + Search
    BY <1>1 DEF Stitches
  <2>2. Len(converted) \in Nat /\ Len(converted) # 0
    BY <1>2, <1>3, <2>1, SizesAreNat, LenProperties
  <2> QED
    BY <2>1, <2>2, EmptySeq
<1>5. PICK heard \in BOOLEAN :
        Stitch(heard) /\ heard = (generation = captured.generation)
  <2>1. CASE DropBlock
    <3>1. Stitch(FALSE) /\ FALSE = (generation = captured.generation)
      BY <2>1 DEF DropBlock
    <3> QED
      BY <3>1
  <2>2. CASE AppendBlock
    <3>1. Stitch(TRUE) /\ TRUE = (generation = captured.generation)
      BY <2>2 DEF AppendBlock
    <3> QED
      BY <3>1
  <2> QED
    BY <2>1, <2>2
<1>6. PICK offset \in Offsets(assembler.tail, converted, Context, Overlap, Search) :
        /\ assembler' = Stitched(offset).stream
        /\ block' = IF heard THEN Stitched(offset).result ELSE block
  BY <1>5 DEF Stitch
<1>7. offset \in 0 .. Search
  BY OffsetInRange
<1>8. /\ assembler'.tail = NextTail(converted, captured.hop, Context, Overlap, offset)
      /\ assembler'.history = assembler.history
  <2>1. PICK next : next = NextTail(converted, captured.hop, Context, Overlap, offset)
    OBVIOUS
  <2>2. assembler' = [assembler EXCEPT !.tail = next]
    BY <1>6, <2>1 DEF Stitched, stitch
  <2>3. assembler = [history |-> assembler.history, tail |-> assembler.tail]
    BY <1>2 DEF Assemblers
  <2> QED
    BY <2>1, <2>2, <2>3
<1> QED
  BY <1>1, <1>2, <1>3, <1>4, <1>5, <1>6, <1>7, <1>8 DEF Stitching

\* The samples of the tail that is left lie behind the block, in what is converted.
LEMMA NextTailIs ==
  ASSUME lags \in Lags, NEW hop \in Nat, NEW offset \in 0 .. Search, NEW s \in Seq(Samples),
         Len(s) >= Context + hop + Overlap + Search, NEW tail,
         tail = NextTail(s, hop, Context, Overlap, offset)
  PROVE  /\ tail \in Seq(Samples) /\ Len(tail) = Overlap
         /\ \A i \in 1 .. Overlap : tail[i] = s[Context + offset + hop + i]
<1>1. /\ Context \in Nat /\ Overlap \in Nat /\ Search \in Nat /\ Overlap + Search <= Lookahead
      /\ Lookahead \in Nat
  BY SizesFit
<1>2. PICK from : from = Context + offset + hop
  OBVIOUS
<1>3. from \in Nat /\ from + Overlap <= Len(s)
  BY <1>1, <1>2, LenProperties
<1>4. tail = Slice(s, from, Overlap)
  BY <1>2 DEF NextTail
<1>5. PICK n \in Nat : n = Overlap
  BY <1>1
<1>6. /\ tail \in Seq(Samples) /\ Len(tail) = n
      /\ \A i \in 1 .. n : tail[i] = s[from + i]
  BY <1>3, <1>4, <1>5, SliceIs
<1> QED
  BY <1>2, <1>5, <1>6

\* The tail that a stitch leaves is the neighbour of what is still in input.
LEMMA StitchShapes ==
  ASSUME Inv, Shapes, DropBlock \/ AppendBlock PROVE Shapes'
<1>1. /\ thread = "answered" /\ thread' = "ready" /\ converted' = <<>>
      /\ converted \in Seq(Samples) /\ converted # <<>>
      /\ Len(converted) >= Context + captured.hop + Overlap + Search
      /\ captured.hop \in Nat \ {0} /\ captured.hop >= Lookahead
      /\ captured' = captured /\ lags \in Lags /\ lags' = lags /\ front' = front
      /\ generation' = generation /\ discontinuity' = discontinuity
      /\ requests' = requests /\ server' = server
  BY StitchedIs
<1>2. PICK offset \in 0 .. Search :
        assembler'.tail = NextTail(converted, captured.hop, Context, Overlap, offset)
  BY StitchedIs
<1>3. FlightShape' /\ RequestsShape' /\ AnswerShape'
  BY <1>1 DEF Shapes, FlightShape, RequestsShape, AnswerShape, IsAnswer
<1>4. StreamShape(server)'
  BY <1>1 DEF Shapes, StreamShape
<1>5. TailShape'
  <2>1. PICK tail : tail = assembler'.tail
    OBVIOUS
  <2>2. PICK hop \in Nat : hop = captured.hop
    BY <1>1
  <2>3. /\ tail \in Seq(Samples) /\ Len(tail) = Overlap
        /\ \A i \in 1 .. Overlap : tail[i] = converted[Context + offset + hop + i]
    BY <1>1, <1>2, <2>1, <2>2, NextTailIs
  <2> SUFFICES ASSUME ~discontinuity, NEW i \in 1 .. Overlap, tail[i] # Mixed
               PROVE  tail[i] - (front + i - 1) \in -(lags.input + lags.output) .. Search
    BY <1>1, <2>1, <2>3 DEF TailShape, Near
  <2>4. PICK first \in Nat : first = captured.first /\ front = first + hop
    BY <2>2 DEF Inv, Types, OwnSamples, ThreadIsOwn, ThreadInv, Shapes, FlightShape
  <2>5. /\ Context \in Nat /\ Overlap \in Nat /\ Search \in Nat /\ Lookahead \in Nat
        /\ lags.output \in Nat /\ lags.input \in Nat /\ Overlap + Search <= Lookahead
        /\ lags.output <= Search
    BY <1>1, SizesFit
  <2>6. PICK size \in Nat : size = Len(converted) /\ size >= Context + hop + Overlap + Search
    BY <1>1, <2>2, LenProperties
  <2>7. PICK k \in Nat : k = Context + offset + hop + i
    BY <2>5
  <2>8. k \in Context + lags.output + 1 .. size /\ k \in 1 .. size
    <3>1. hop >= lags.output /\ offset \in 0 .. Search /\ i \in 1 .. Overlap
      BY <1>1, <2>2, <2>5
    <3> QED
      BY <2>5, <2>6, <2>7, <3>1
  <2>9. tail[i] = converted[k]
    BY <2>3, <2>7
  <2>10. IsAnswer(converted, first)
    BY <1>1, <2>4 DEF Shapes, AnswerShape
  <2>11. converted[k] - (first + k - Context - 1) \in -(lags.input + lags.output) .. 0
    BY <2>6, <2>8, <2>9, <2>10 DEF IsAnswer
  <2>12. PICK p \in Int : p = converted[k]
    BY <1>1, <2>6, <2>8, SampleIsInt
  <2>13. PICK all \in Nat : all = lags.input + lags.output
    BY <2>5
  <2>14. p - (first + k - Context - 1) \in -all .. 0
    BY <2>11, <2>12, <2>13
  <2>15. p - (front + i - 1) \in -all .. Search
    BY <2>4, <2>5, <2>7, <2>14
  <2> QED
    BY <2>9, <2>12, <2>13, <2>15
<1> QED
  BY <1>3, <1>4, <1>5 DEF Shapes

\* What is on its way has its shape in every reachable state.
THEOREM StreamIsInShape == Spec => []Shapes
<1>1. ASSUME Inv, Shapes, [Next]_vars PROVE Shapes'
  <2>1. CASE Discontinue
    BY <1>1, <2>1, DiscontinueShapes
  <2>2. CASE Capture
    BY <1>1, <2>2, CaptureShapes
  <2>3. CASE \E request \in requests : Serve(request)
    BY <1>1, <2>3, ServeShapes
  <2>8. CASE \E request \in requests : Tangle(request)
    BY <1>1, <2>8, TangleShapes
  <2>4. CASE Forget
    BY <1>1, <2>4, ForgetShapes
  <2>5. CASE ConversionFails
    BY <1>1, <2>5, ConversionFailsShapes
  <2>6. CASE DropBlock \/ AppendBlock
    BY <1>1, <2>6, StitchShapes
  <2>7. CASE UNCHANGED vars
    BY <1>1, <2>7, StutterShapes
  <2> QED
    BY <1>1, <2>1, <2>2, <2>3, <2>4, <2>5, <2>6, <2>7, <2>8 DEF Next
<1> QED
  BY ShapesInit, <1>1, StreamInvariant, PTL DEF Spec

\* Whatever failed, was given up or came late: the tail that is faded into a block is
\* the audio right before it, up to the search and to what the resamplers lag.
THEOREM TailIsTheNeighbour == Spec => []TailAdjoins
<1>1. Inv /\ Shapes => TailAdjoins
  <2> SUFFICES ASSUME Inv, Shapes, thread = "answered", NEW i \in DOMAIN assembler.tail,
                      assembler.tail[i] # Mixed
               PROVE  assembler.tail[i] - (captured.first + i - 1)
                        \in -(lags.input + lags.output) .. Search
    BY DEF TailAdjoins
  <2>1. assembler.tail \in Seq(Samples)
    BY DEF Inv, Types, ThreadInv, Assemblers
  <2>2. i \in 1 .. Len(assembler.tail)
    BY <2>1, LenProperties
  <2> QED
    BY <2>2 DEF Shapes, TailShape, Near
<1> QED
  BY <1>1, StreamInvariant, StreamIsInShape, PTL

\* A sample of a block that is heard alone is one of what was converted.
LEMMA HeardIsConverted ==
  ASSUME Inv, lags \in Lags,
         Len(converted) >= Context + captured.hop + Overlap + Search,
         NEW offset \in 0 .. Search, NEW heard, heard = Stitched(offset).result
  PROVE  /\ DOMAIN heard = 1 .. captured.hop
         /\ \A i \in 1 .. captured.hop :
              heard[i] # Mixed => heard[i] = converted[Context + offset + i]
<1>1. /\ Context \in Nat /\ Overlap \in Nat /\ Search \in Nat
  BY SizesFit
<1>2. captured.hop \in Nat /\ converted \in Seq(Samples)
  BY DEF Inv, Types, ThreadInv
<1>3. PICK hop \in Nat, from \in Nat : hop = captured.hop /\ from = Context + offset
  BY <1>1, <1>2
<1>4. from + hop <= Len(converted)
  <2>1. PICK l \in Nat : l = Len(converted) /\ l >= Context + hop + Overlap + Search
    BY <1>2, <1>3, LenProperties
  <2>2. from + hop <= l
    BY <1>1, <1>3, <2>1
  <2> QED
    BY <2>1, <2>2
<1>5. PICK own : own = Slice(converted, from, hop)
  OBVIOUS
<1>6. \A i \in 1 .. hop : own[i] = converted[from + i]
  BY <1>2, <1>4, <1>5, SliceIs
<1>7. PICK tail : tail = assembler.tail
  OBVIOUS
<1>8. heard = [i \in 1 .. hop |->
                 IF i <= Overlap
                 THEN Faded(IF tail = <<>> THEN Silence ELSE tail[i], own[i]) ELSE own[i]]
  BY <1>3, <1>5, <1>7, Zenon DEF Stitched, stitch
<1>9. ASSUME NEW i \in 1 .. hop, heard[i] # Mixed PROVE heard[i] = own[i]
  BY <1>8, <1>9 DEF Faded
<1> QED
  BY <1>3, <1>6, <1>8, <1>9

\* The voice stays where it belongs, whatever fails.
THEOREM VoiceIsInPlace == Spec => VoiceStaysInPlace
<1>1. ASSUME Inv, Shapes, [Next]_vars PROVE InPlace
  <2> SUFFICES ASSUME AppendBlock
               PROVE  \A i \in DOMAIN block' :
                        i > lags.output /\ block'[i] # Mixed =>
                          block'[i] - (captured.first + i - 1)
                            \in -(lags.input + lags.output) .. Search
    BY DEF InPlace
  <2>1. /\ thread = "answered" /\ converted \in Seq(Samples) /\ lags \in Lags
        /\ Len(converted) >= Context + captured.hop + Overlap + Search
    BY <1>1, StitchedIs
  <2>2. PICK offset \in 0 .. Search : block' = Stitched(offset).result
    BY <1>1, StitchedIs DEF AppendBlock
  <2>3. captured.first \in Nat /\ captured.hop \in Nat
    BY <1>1 DEF Inv, Types, OwnSamples, ThreadIsOwn, ThreadInv
  <2>4. /\ Context \in Nat /\ Overlap \in Nat /\ Search \in Nat
        /\ lags.output \in Nat /\ lags.input \in Nat
    BY <2>1, SizesFit
  <2>5. PICK heard : heard = Stitched(offset).result
    OBVIOUS
  <2>6. /\ DOMAIN heard = 1 .. captured.hop
        /\ \A i \in 1 .. captured.hop :
             heard[i] # Mixed => heard[i] = converted[Context + offset + i]
    BY <1>1, <2>1, <2>5, HeardIsConverted
  <2>7. PICK hop \in Nat, lag \in Nat, all \in Nat, first \in Nat :
          /\ hop = captured.hop /\ lag = lags.output /\ all = lags.input + lags.output
          /\ first = captured.first
    BY <2>3, <2>4
  <2>8. ASSUME NEW i \in 1 .. hop, i > lag, heard[i] # Mixed
        PROVE  heard[i] - (first + i - 1) \in -all .. Search
    <3>1. PICK k \in Nat : k = Context + offset + i
      BY <2>4
    <3>2. PICK l \in Nat : l = Len(converted) /\ l >= Context + hop + Overlap + Search
      BY <2>1, <2>7, LenProperties
    <3>3. k \in Context + lag + 1 .. l /\ k \in 1 .. l
      BY <2>4, <2>8, <3>1, <3>2
    <3>4. heard[i] = converted[k]
      BY <2>6, <2>7, <2>8, <3>1
    <3>5. PICK p \in Int : p = converted[k]
      BY <2>1, <3>2, <3>3, SampleIsInt
    <3>6. IsAnswer(converted, first)
      BY <1>1, <2>1, <2>7 DEF Shapes, AnswerShape
    <3>7. converted[k] - (first + k - Context - 1) \in -(lags.input + lags.output) .. 0
      BY <2>7, <2>8, <3>2, <3>3, <3>4, <3>6 DEF IsAnswer
    <3>8. p - (first + k - Context - 1) \in -all .. 0
      BY <2>7, <3>5, <3>7
    <3>9. p - (first + i - 1) \in -all .. Search
      BY <2>4, <3>1, <3>8
    <3> QED
      BY <3>4, <3>5, <3>9
  <2> QED
    BY <2>2, <2>5, <2>6, <2>7, <2>8
<1> QED
  BY <1>1, StreamInvariant, StreamIsInShape, PTL DEF Spec, VoiceStaysInPlace
-----------------------------------------------------------------------------
\* From one sample to the next.
Goes(before, after) == after - before \in 0 .. 1 + lags.input

\* What the next window begins with.
Upcoming == History(assembler, Context) \o Ahead(front, Lookahead)

\* The conversion thread waits for this request, if it waits.
Awaits(request) == request.number = captured.number

\* What was converted is long enough for a block.
LongEnough(s, hop) == Len(s) >= Context + hop + Overlap + Search

\* The stream of the worker process recognises a window that begins with w, and its
\* output resampler goes on from the same windows, whose results may have lacked an end.
Knows(stream, w) ==
  /\ Len(stream.filter_input) >= Shared
  /\ lags.input = 0 => Final(stream.filter_input, Shared) = w
  /\ lags.input > 0 =>
       /\ Final(stream.input_resampler.previous_input, Shared) = w
       /\ stream.input_resampler.previous_input # <<>>
       /\ stream.input_resampler.previous_output = stream.filter_input
  /\ lags.output > 0 =>
       LET r == stream.output_resampler
       IN  /\ Prefix(r.previous_input, stream.filter_input)
           /\ Len(r.previous_input) >= Len(stream.filter_input) - Lookahead + Overlap + Search
           /\ Ends(r.held, r.previous_input)

\* The end of what the filter saw last, and where in it the block that was heard ended.
SharedEnd(stream) == Final(stream.filter_input, Shared)

\* The tail is what follows it there, which the next block may join.
HeardUpTo(stream) ==
  /\ assembler.tail = Slice(SharedEnd(stream), Context, Overlap)
  /\ block[Len(block)] = SharedEnd(stream)[Context]
  /\ Goes(SharedEnd(stream)[Context], SharedEnd(stream)[Context + 1])

\* The last window that was captured is of this generation.
Current == captured.generation = generation

\* Before the first window of a generation, nothing is left of it and nothing is heard.
OldStreams ==
  /\ server.generation = generation => Current
  /\ \A request \in requests : request.generation = generation => Current
  /\ block # <<>> => Current

\* Undisturbed, both sides know the end of the same window: between two of them,
ReadyWell ==
  thread = "ready" /\ ~disturbed /\ Current =>
    block # <<>> /\ server.generation = generation /\ Knows(server, Upcoming)
      /\ HeardUpTo(server)

\* before the worker process has served the next one,
WaitingWell ==
  thread = "waiting" /\ ~disturbed /\ Current =>
    \A request \in requests : Awaits(request) =>
      /\ Final(request.window, Shared) = Upcoming
      /\ block = <<>> => server.generation # generation /\ assembler.tail = <<>>
      /\ block # <<>> => /\ server.generation = generation
                         /\ Knows(server, First(request.window, Shared))
                         /\ HeardUpTo(server)

\* An answer is a stream from the offset on, and what follows the block in it is what
\* follows it in the end of what the filter saw last.
Joins(answer, stream, offset) ==
  /\ Moves(answer, Context + offset + 1, lags.input)
  /\ \A i \in 0 .. Overlap :
        answer[Context + offset + captured.hop + i] = SharedEnd(stream)[Context + i]

\* The tail is found at the offset and nowhere before, and the block that is heard
\* goes on there.
Adjoins(answer, offset) ==
  /\ Slice(answer, Context + offset, Overlap) = assembler.tail
  /\ \A shift \in 0 .. offset - 1 : answer[Context + shift + 1] # assembler.tail[1]
  /\ Goes(block[Len(block)], answer[Context + offset + 1])

\* The offset is what the output resampler held back before this window.
Fits(answer, stream, offset) ==
  /\ Joins(answer, stream, offset)
  /\ block = <<>> => assembler.tail = <<>> /\ offset = 0
  /\ block # <<>> => Adjoins(answer, offset)

\* and after it has: no filter started anew, and an answer that is long enough joins
\* what was heard.
AnsweredWell ==
  thread = "answered" /\ converted # <<>> /\ ~disturbed /\ Current =>
    /\ block # <<>> => server.continued
    /\ LongEnough(converted, captured.hop) =>
         /\ server.generation = generation /\ Knows(server, Upcoming)
         /\ \E offset \in 0 .. Search : Fits(converted, server, offset)

\* What every state has that nothing disturbed.
Wellness == OldStreams /\ ReadyWell /\ WaitingWell /\ AnsweredWell
-----------------------------------------------------------------------------
\* At the start there is no window of the generation.
LEMMA WellInit == Init => Wellness
<1> SUFFICES ASSUME Init PROVE Wellness
  OBVIOUS
<1>1. /\ generation = 1 /\ thread = "ready" /\ captured.generation = 0 /\ requests = {}
      /\ server.generation = 0 /\ block = <<>>
  BY DEF Init, NoCapture, Forgotten, NewStream
<1> QED
  BY <1>1 DEF Wellness, OldStreams, ReadyWell, WaitingWell, AnsweredWell, Current

\* Nor is there after a discontinuity.
LEMMA DiscontinueWell ==
  ASSUME Inv, Discontinue PROVE Wellness'
<1>1. /\ generation' = generation + 1 /\ block' = <<>> /\ captured' = captured
      /\ requests' = requests /\ server' = server
  BY DEF Discontinue, threadVars, serverVars
<1>2. /\ generation \in Nat /\ captured.generation \in Nat /\ captured.generation <= generation
      /\ server.generation \in Nat /\ server.generation <= generation
      /\ \A request \in requests : request.generation \in Nat /\ request.generation <= generation
  BY DEF Inv, Types, MonitorInv, ThreadInv, ServerInv, Streams, RequestsInv, RequestInv,
         Requests
<1>3. /\ captured.generation # generation + 1 /\ server.generation # generation + 1
      /\ \A request \in requests : request.generation # generation + 1
  BY <1>2
<1>4. ~Current'
  BY <1>1, <1>3 DEF Current
<1>5. OldStreams'
  BY <1>1, <1>3 DEF OldStreams
<1> QED
  BY <1>4, <1>5 DEF Wellness, ReadyWell, WaitingWell, AnsweredWell

\* What disturbs a stream leaves only old streams of an old generation.
LEMMA DisturbedWell ==
  ASSUME Wellness, disturbed' = TRUE, captured' = captured, generation' = generation,
         block' = block,
         server'.generation = generation => Current,
         \A left \in requests' : Remain(left)
  PROVE  Wellness'
<1>1. OldStreams'
  <2>1. ASSUME NEW left \in requests', left.generation = generation PROVE Current
    <3>1. PICK request \in requests : SameRequest(left, request)
      BY <2>1 DEF Remain
    <3> QED
      BY <2>1, <3>1 DEF SameRequest, Wellness, OldStreams
  <2> QED
    BY <2>1 DEF Wellness, OldStreams, Current
<1> QED
  BY <1>1 DEF Wellness, ReadyWell, WaitingWell, AnsweredWell

\* Without its stream a stream is disturbed,
LEMMA ForgetWell ==
  ASSUME Inv, Wellness, Forget PROVE Wellness'
<1>1. /\ disturbed' = TRUE /\ captured' = captured /\ generation' = generation
      /\ block' = block /\ server' = NewStream(0)
  BY DEF Forget, Forgotten, monitorVars, threadVars
<1>2. server'.generation # generation
  BY <1>1 DEF NewStream, Inv, Types, MonitorInv
<1> QED
  BY <1>1, <1>2, ForgetRemains, DisturbedWell

\* and after a failure,
LEMMA ConversionFailsWell ==
  ASSUME Inv, Wellness, ConversionFails PROVE Wellness'
<1>1. /\ disturbed' = TRUE /\ captured' = captured /\ generation' = generation
      /\ requests' = requests /\ block' = block /\ server' = server
  BY DEF ConversionFails, monitorVars, serverVars
<1>2. OldStreams'
  BY <1>1 DEF Wellness, OldStreams, Current
<1> QED
  BY <1>1, <1>2 DEF Wellness, ReadyWell, WaitingWell, AnsweredWell

\* and by two conversions at once.
LEMMA TangleWell ==
  ASSUME Inv, Wellness, NEW request \in requests, Tangle(request) PROVE Wellness'
<1>1. /\ disturbed' = TRUE /\ captured' = captured /\ generation' = generation
      /\ block' = block /\ server' \in {server, TangledStream(request.generation)}
  BY DEF Tangle, monitorVars
<1>2. server'.generation \in {server.generation, request.generation}
  BY <1>1 DEF TangledStream, NewStream
<1>3. server'.generation = generation => Current
  BY <1>2 DEF Wellness, OldStreams
<1> QED
  BY <1>1, <1>3, TangleRemains, DisturbedWell

\* A step that changes nothing.
LEMMA StutterWell ==
  ASSUME Wellness, UNCHANGED vars PROVE Wellness'
<1>1. /\ lags' = lags /\ front' = front /\ generation' = generation
      /\ thread' = thread /\ assembler' = assembler /\ captured' = captured
      /\ converted' = converted /\ requests' = requests /\ server' = server
      /\ block' = block /\ disturbed' = disturbed
  BY DEF vars, monitorVars, threadVars, serverVars, ghostVars
<1>2. /\ Current' = Current /\ Upcoming' = Upcoming
      /\ Knows(server, Upcoming)' = Knows(server, Upcoming)
      /\ HeardUpTo(server)' = HeardUpTo(server)
  BY <1>1 DEF Current, Upcoming, Knows, HeardUpTo, SharedEnd, Goes
<1>3. OldStreams' /\ ReadyWell'
  BY <1>1, <1>2 DEF Wellness, OldStreams, ReadyWell
<1>4. WaitingWell'
  BY <1>1, <1>2 DEF Wellness, WaitingWell, Awaits, Knows
<1>5. \A offset : Fits(converted, server, offset)' = Fits(converted, server, offset)
  BY <1>1 DEF Fits, Joins, Adjoins, SharedEnd, Goes
<1>6. AnsweredWell'
  BY <1>1, <1>2, <1>5 DEF Wellness, AnsweredWell
<1> QED
  BY <1>3, <1>4, <1>6 DEF Wellness

\* The window that is captured goes on from what the stream of the worker process saw
\* last, or is the first of its generation.
LEMMA CaptureWell ==
  ASSUME Inv, Shapes, Wellness, Capture PROVE Wellness'
<1>1. /\ thread = "ready" /\ thread' = "waiting"
      /\ captured'.number = captured.number + 1 /\ captured.number \in Nat
      /\ captured'.generation = generation /\ captured'.hop \in Nat
      /\ front \in Nat /\ front' = front + captured'.hop
      /\ assembler' \in Assemblers(Samples) /\ AssemblerAtCapture \in Assemblers(Samples)
      /\ lags \in Lags /\ lags' = lags /\ generation' = generation /\ server' = server
      /\ block' = block /\ disturbed' = disturbed
  BY CapturedIs
<1>2. PICK w : CapturesWindow(w)
  BY CapturedIs
<1>3. Current' /\ OldStreams'
  BY <1>1 DEF Current, OldStreams
<1>4. Context \in Nat /\ Lookahead \in Nat /\ Shared \in Nat /\ Shared = Context + Lookahead
  BY <1>1, SizesFit
<1>5. PICK hop \in Nat : hop = captured'.hop
  BY <1>1
<1>6. /\ Sized(w, Shared + hop) /\ Spans(w, History(AssemblerAtCapture, Context), front)
      /\ Leaves(assembler', w, hop, AssemblerAtCapture)
      /\ requests' = requests \cup {[number |-> captured'.number, generation |-> generation,
                                     window |-> w, overtaken |-> FALSE, tangled |-> FALSE]}
  BY <1>2, <1>5 DEF CapturesWindow
<1>7. w \in Seq(Samples) /\ Len(w) >= Shared /\ hop + Context <= Len(w)
  <2>1. w \in Seq(Samples) /\ Len(w) = Shared + hop
    BY <1>6 DEF Sized
  <2> QED
    BY <1>4, <2>1
<1>8. Final(w, Shared) = Upcoming'
  <2>1. Final(w, Shared) = Slice(w, hop, Context) \o Ahead(front + hop, Lookahead)
    BY <1>1, <1>6, RowEnds
  <2>2. assembler'.history = Slice(w, hop, Context)
    BY <1>6 DEF Leaves
  <2>3. Len(Slice(w, hop, Context)) = Context
    BY <1>4, <1>7, SliceIs
  <2>4. History(assembler', Context) = Slice(w, hop, Context)
    BY <2>2, <2>3 DEF History
  <2> QED
    BY <1>1, <1>5, <2>1, <2>4 DEF Upcoming
<1>9. ASSUME NEW request \in requests', request.number = captured'.number
      PROVE  request.window = w
  <2>1. request \notin requests
    <3>1. \A other \in requests : other.number \in Nat /\ other.number <= captured.number
      BY DEF Inv, Types, RequestsInv, RequestInv, Requests
    <3> QED
      BY <1>1, <1>9, <3>1
  <2> QED
    BY <1>6, <2>1
<1>10. ASSUME ~disturbed, block = <<>>
       PROVE  server.generation # generation /\ assembler'.tail = <<>>
  <2>1. ~Current
    BY <1>1, <1>10 DEF Wellness, ReadyWell
  <2>2. discontinuity
    BY <2>1 DEF Current, Inv, OwnSamples, ThreadIsOwn
  <2>3. AssemblerAtCapture.tail = <<>>
    BY <2>2 DEF AssemblerAtCapture, NoStream
  <2> QED
    BY <1>6, <2>1, <2>3 DEF Wellness, OldStreams, Leaves
<1>11. ASSUME ~disturbed, block # <<>>
       PROVE  /\ server.generation = generation /\ Knows(server, First(w, Shared))
              /\ HeardUpTo(server)'
  <2>1. Current
    BY <1>11 DEF Wellness, OldStreams
  <2>2. server.generation = generation /\ Knows(server, Upcoming) /\ HeardUpTo(server)
    BY <1>1, <1>11, <2>1 DEF Wellness, ReadyWell
  <2>3. AssemblerAtCapture = assembler
    BY <2>1 DEF Current, AssemblerAtCapture, Shapes, FlightShape
  <2>4. First(w, Shared) = Upcoming
    <3>1. Sized(History(assembler, Context), Context)
      BY <1>1, <2>3, HistoryIs DEF Sized
    <3>2. First(w, Shared) = History(assembler, Context) \o Ahead(front, Lookahead)
      BY <1>1, <1>6, <1>7, <2>3, <3>1, RowBegins
    <3> QED
      BY <3>2 DEF Upcoming
  <2>5. HeardUpTo(server)'
    <3>1. assembler'.tail = assembler.tail
      BY <1>6, <2>3 DEF Leaves
    <3> QED
      BY <1>1, <2>2, <3>1 DEF HeardUpTo, SharedEnd, Goes
  <2> QED
    BY <2>2, <2>4, <2>5
<1>12. WaitingWell'
  <2> SUFFICES ASSUME ~disturbed, NEW request \in requests', request.number = captured'.number
               PROVE  /\ Final(request.window, Shared) = Upcoming'
                      /\ block = <<>> => server.generation # generation /\ assembler'.tail = <<>>
                      /\ block # <<>> => /\ server.generation = generation
                                         /\ Knows(server, First(request.window, Shared))'
                                         /\ HeardUpTo(server)'
    BY <1>1 DEF WaitingWell, Awaits
  <2>1. request.window = w
    BY <1>9
  <2>2. Knows(server, First(w, Shared)) => Knows(server, First(request.window, Shared))'
    BY <1>1, <2>1 DEF Knows
  <2> QED
    BY <1>8, <1>10, <1>11, <2>1, <2>2
<1> QED
  BY <1>1, <1>3, <1>12 DEF Wellness, ReadyWell, AnsweredWell
-----------------------------------------------------------------------------
\* The end of what the filter saw, counted from the beginning of that.
LEMMA SharedEndIs ==
  ASSUME lags \in Lags, NEW hop \in Nat, NEW stream, Sized(stream.filter_input, Shared + hop)
  PROVE  \A k \in 1 .. Shared : SharedEnd(stream)[k] = stream.filter_input[hop + k]
<1>1. PICK s : s = stream.filter_input
  OBVIOUS
<1>2. s \in Seq(Samples) /\ Len(s) = Shared + hop
  BY <1>1 DEF Sized
<1>3. Shared \in Nat
  BY SizesFit
<1>4. Shared <= Len(s) /\ Len(s) - Shared = hop
  BY <1>2, <1>3
<1>5. \A k \in 1 .. Shared : Final(s, Shared)[k] = s[Len(s) - Shared + k]
  BY <1>2, <1>3, <1>4, FinalIs
<1> QED
  BY <1>1, <1>4, <1>5 DEF SharedEnd


\* What is long enough reaches to the search behind the tail that follows its block.
LEMMA LongIs ==
  ASSUME lags \in Lags, NEW hop \in Nat, NEW s \in Seq(Samples), LongEnough(s, hop)
  PROVE  Len(s) \in Nat /\ Len(s) >= Context + hop + Overlap + Search
BY LenProperties DEF LongEnough

\* Up to there a result is what it was made of, but for what was held back before it.
LEMMA ExactlyMade ==
  ASSUME lags \in Lags, NEW hop \in Nat, NEW made, NEW samples \in Seq(Samples),
         Prefix(samples, made), LongEnough(samples, hop),
         NEW h \in 0 .. lags.output, NEW holds \in 0 .. lags.output, NEW answer,
         Delayed(answer, samples, Context + h + 1, h, holds), NEW j \in 1 .. hop + Overlap
  PROVE  answer[Context + h + j] = made[Context + j]
<1>1. /\ Context \in Nat /\ Overlap \in Nat /\ Search \in Nat
      /\ lags.output \in Nat /\ lags.output <= Search
  BY SizesFit
<1>2. PICK l \in Nat : l = Len(samples) /\ l >= Context + hop + Overlap + Search
  BY LongIs
<1>3. PICK k \in Nat : k = Context + h + j
  BY <1>1
<1>4. k \in Context + h + 1 .. l
  BY <1>1, <1>2, <1>3
<1>5. Least(k - h, l - holds) = Context + j
  BY <1>1, <1>2, <1>3 DEF Least
<1>6. answer[k] = samples[Context + j]
  BY <1>2, <1>4, <1>5 DEF Delayed
<1>7. Context + j \in 1 .. l
  BY <1>1, <1>2
<1>8. samples[Context + j] = made[Context + j]
  BY <1>2, <1>7 DEF Prefix
<1> QED
  BY <1>3, <1>6, <1>8

\* So an answer joins what the filter saw at what was held back.
LEMMA DelayedJoins ==
  ASSUME lags \in Lags, captured.hop \in Nat \ {0}, NEW stream,
         Sized(stream.filter_input, Shared + captured.hop), NEW samples \in Seq(Samples),
         Prefix(samples, stream.filter_input), LongEnough(samples, captured.hop),
         NEW h \in 0 .. lags.output, NEW holds \in 0 .. lags.output, NEW answer,
         Delayed(answer, samples, Context + h + 1, h, holds),
         Moves(answer, Context + h + 1, lags.input)
  PROVE  Joins(answer, stream, h)
<1>1. PICK made : made = stream.filter_input
  OBVIOUS
<1>2. PICK hop \in Nat \ {0} : hop = captured.hop
  OBVIOUS
<1>3. /\ Prefix(samples, made) /\ LongEnough(samples, hop) /\ hop \in Nat
      /\ Sized(stream.filter_input, Shared + hop)
  BY <1>1, <1>2
<1>4. /\ Context \in Nat \ {0} /\ Lookahead \in Nat /\ Overlap \in Nat
      /\ Overlap <= Lookahead /\ Shared = Context + Lookahead
  <2>1. /\ Context \in Nat /\ Lookahead \in Nat /\ Overlap \in Nat /\ Search \in Nat
        /\ Overlap >= 2 /\ Overlap <= Context /\ Overlap + Search <= Lookahead
        /\ Shared = Context + Lookahead
    BY SizesFit
  <2> QED
    BY <2>1
<1>5. ASSUME NEW i \in 0 .. Overlap
      PROVE  answer[Context + h + hop + i] = SharedEnd(stream)[Context + i]
  <2>1. PICK j : j = hop + i
    OBVIOUS
  <2>2. j \in 1 .. hop + Overlap
    BY <1>4, <2>1
  <2>3. answer[Context + h + j] = made[Context + j]
    BY <1>3, <2>2, ExactlyMade
  <2>4. PICK k : k = Context + i
    OBVIOUS
  <2>5. k \in 1 .. Shared
    BY <1>4, <2>4
  <2>6. SharedEnd(stream)[k] = stream.filter_input[hop + k]
    BY <1>3, <2>5, SharedEndIs
  <2>7. hop + k = Context + j /\ Context + h + j = Context + h + hop + i
    BY <1>4, <2>1, <2>4
  <2> QED
    BY <1>1, <2>3, <2>4, <2>6, <2>7
<1> QED
  BY <1>2, <1>5 DEF Joins

\* What was held back, the end of a result that may have lacked some, is repeated in the
\* place of the samples right before the tail.
Fills(answer, stream) ==
  LET r == stream.output_resampler
  IN  /\ \A i \in 1 .. Len(r.held) : answer[Context + i] = r.held[i]
      /\ Ends(r.held, r.previous_input)
      /\ Prefix(r.previous_input, stream.filter_input)
      /\ Len(r.previous_input) >= Len(stream.filter_input) - Lookahead + Overlap + Search

\* So the tail is not found there: what was held back is later than where it begins.
LEMMA FilledBefore ==
  ASSUME lags \in Lags, NEW w \in Seq(Samples), IsWindow(w),
         NEW prepared \in Seq(Samples), NEW kept, Made(prepared, w, kept, lags.input),
         NEW stream, stream.filter_input \in Seq(Samples), Len(stream.filter_input) >= Shared,
         Final(stream.filter_input, Shared) = First(prepared, Shared),
         stream.output_resampler.previous_input \in Seq(Samples),
         NEW h \in 0 .. lags.output, Len(stream.output_resampler.held) = h,
         NEW answer, Fills(answer, stream), NEW shift \in 0 .. h - 1
  PROVE  answer[Context + shift + 1] # prepared[Context + 1]
<1>1. /\ Context \in Nat /\ Lookahead \in Nat /\ Overlap \in Nat /\ Search \in Nat
      /\ lags.input \in Nat /\ lags.output \in Nat /\ Shared \in Nat
      /\ lags.input + lags.output < Overlap + Search /\ Overlap + Search <= Lookahead
      /\ Shared = Context + Lookahead
  BY SizesFit
<1>2. PICK s \in Seq(Samples), v \in Seq(Samples), held \in {stream.output_resampler.held} :
        /\ s = stream.filter_input /\ v = stream.output_resampler.previous_input
        /\ held = stream.output_resampler.held
  OBVIOUS
<1>3. PICK lead \in Nat, size \in Nat, l \in Nat, n \in Nat :
        /\ lead = lags.input /\ size = Len(w) /\ l = Len(s) /\ n = Len(v)
  BY <1>1, LenProperties
<1>4. /\ size >= Shared /\ Len(prepared) = size
      /\ \A i \in 1 .. size : w[i] \in Int
      /\ \A i, j \in Context + 1 .. size : w[i] - w[j] = i - j
      /\ \A i \in 1 .. size : prepared[i] - w[i] \in -lead .. 0
  BY <1>3, WindowIs DEF Made, SameLength, Behind
<1>5. l >= Shared /\ \A i \in 1 .. Shared : s[l - Shared + i] = prepared[i]
  <2>1. Len(prepared) >= Shared /\ Len(s) >= Shared
    BY <1>2, <1>4
  <2>2. Final(s, Shared) = First(prepared, Shared)
    BY <1>2
  <2>3. \A i \in 1 .. Shared : s[Len(s) - Shared + i] = prepared[i]
    BY <2>1, <2>2, SharedIs
  <2> QED
    BY <1>3, <2>1, <2>3
<1>6. /\ \A i \in 1 .. h : answer[Context + i] = held[i]
      /\ \A i \in 1 .. h : held[i] = v[n - h + i]
      /\ n <= l /\ \A i \in 1 .. n : v[i] = s[i]
      /\ n >= l - Lookahead + Overlap + Search
  <2>1. Len(held) = h /\ Ends(held, v) /\ Prefix(v, s)
        /\ Len(v) >= Len(s) - Lookahead + Overlap + Search
        /\ \A i \in 1 .. Len(held) : answer[Context + i] = held[i]
    BY <1>2 DEF Fills
  <2> QED
    BY <1>3, <2>1 DEF Ends, Prefix
<1>7. PICK i : i = shift + 1
  OBVIOUS
<1>8. i \in 1 .. h /\ Context + shift + 1 = Context + i /\ lead + h < Overlap + Search
  BY <1>1, <1>3, <1>7
<1>9. PICK m \in Int : m = n - h + i
  BY <1>8
<1>10. PICK k \in Int : k = m - (l - Shared)
  BY <1>1, <1>9
<1>11. m <= n /\ m >= l - Lookahead + lead + 2
  <2>1. n >= l - Lookahead + Overlap + Search /\ i <= h /\ i >= 1 /\ h \in Nat /\ i \in Nat
    BY <1>1, <1>6, <1>8
  <2>2. PICK os \in Nat, la \in Nat : os = Overlap + Search /\ la = Lookahead
    BY <1>1
  <2>3. l - Lookahead + Overlap + Search = l - la + os
    BY <1>1, <2>2
  <2>4. n >= l - la + os /\ os >= lead + h + 1
    BY <1>8, <2>1, <2>2, <2>3
  <2> QED
    BY <1>9, <2>1, <2>2, <2>4
<1>12. k \in 1 .. Shared /\ k - (Context + 1) > lead /\ m \in 1 .. n /\ m = l - Shared + k
  <2>1. n <= l /\ l >= Shared
    BY <1>5, <1>6
  <2>2. m = l - Shared + k /\ m >= l - Lookahead + lead + 2 /\ m <= l
    BY <1>1, <1>10, <1>11, <2>1
  <2>3. k >= Context + lead + 2 /\ k <= Shared
    BY <1>1, <2>2
  <2>4. m >= 1
    BY <1>1, <2>1, <2>2
  <2> QED
    BY <1>1, <1>11, <2>2, <2>3, <2>4
<1>13. /\ k \in Context + 1 .. size /\ k \in 1 .. size
       /\ Context + 1 \in Context + 1 .. size /\ Context + 1 \in 1 .. size
  BY <1>1, <1>4, <1>12
<1>14. answer[Context + shift + 1] = prepared[k]
  <2>1. answer[Context + i] = v[m]
    BY <1>6, <1>8, <1>9
  <2>2. v[m] = s[m]
    BY <1>6, <1>12
  <2>3. s[m] = prepared[k]
    BY <1>5, <1>12
  <2> QED
    BY <1>8, <2>1, <2>2, <2>3
<1>15. PICK a \in Int, b \in Int : a = w[k] /\ b = w[Context + 1]
  BY <1>4, <1>13
<1>16. a - b = k - (Context + 1)
  BY <1>4, <1>13, <1>15
<1>17. PICK p \in Int, q \in Int : p = prepared[k] /\ q = prepared[Context + 1]
  <2>1. k \in 1 .. Len(prepared) /\ Context + 1 \in 1 .. Len(prepared)
    BY <1>4, <1>13
  <2> QED
    BY <2>1, SampleIsInt
<1>18. p - a \in -lead .. 0 /\ q - b \in -lead .. 0
  BY <1>4, <1>13, <1>15, <1>17
<1>19. p # q
  BY <1>1, <1>12, <1>16, <1>18
<1> QED
  BY <1>14, <1>17, <1>19

\* An answer that goes on adjoins the block that is heard.
LEMMA DelayedAdjoins ==
  ASSUME lags \in Lags, NEW hop \in Nat, NEW w \in Seq(Samples), IsWindow(w),
         NEW prepared \in Seq(Samples), NEW kept, Made(prepared, w, kept, lags.input),
         NEW stream, stream.filter_input \in Seq(Samples), Len(stream.filter_input) >= Shared,
         Final(stream.filter_input, Shared) = First(prepared, Shared), HeardUpTo(stream),
         stream.output_resampler.previous_input \in Seq(Samples),
         NEW samples \in Seq(Samples), Prefix(samples, prepared), LongEnough(samples, hop),
         NEW h \in 0 .. lags.output, NEW holds \in 0 .. lags.output,
         NEW answer \in Seq(Samples), SameLength(answer, samples),
         Delayed(answer, samples, Context + h + 1, h, holds),
         h > 0 => Len(stream.output_resampler.held) = h /\ Fills(answer, stream)
  PROVE  Adjoins(answer, h)
<1>1. /\ Context \in Nat \ {0} /\ Lookahead \in Nat /\ Overlap \in Nat \ {0} /\ Shared \in Nat
      /\ Search \in Nat /\ lags.output <= Search /\ lags.output \in Nat
      /\ Shared = Context + Lookahead /\ Overlap <= Lookahead
  <2>1. /\ Context \in Nat /\ Lookahead \in Nat /\ Overlap \in Nat /\ Search \in Nat
        /\ Overlap >= 2 /\ Overlap <= Context /\ Overlap + Search <= Lookahead
        /\ Shared = Context + Lookahead /\ Shared \in Nat
        /\ lags.output <= Search /\ lags.output \in Nat
    BY SizesFit
  <2> QED
    BY <2>1
<1>2. ASSUME NEW j \in 1 .. Overlap
      PROVE  answer[Context + h + j] = prepared[Context + j]
  <2>1. j \in 1 .. hop + Overlap
    BY <1>1
  <2> QED
    BY <2>1, ExactlyMade
<1>3. PICK begin : begin = First(prepared, Shared)
  OBVIOUS
<1>4. Len(prepared) >= Shared
  BY WindowIs DEF Made, SameLength
<1>5. /\ begin \in Seq(Samples) /\ Len(begin) = Shared
      /\ \A i \in 1 .. Shared : begin[i] = prepared[i]
  BY <1>1, <1>3, <1>4, FirstIs
<1>6. /\ assembler.tail = Slice(begin, Context, Overlap)
      /\ block[Len(block)] = begin[Context]
      /\ Goes(begin[Context], begin[Context + 1])
  BY <1>3 DEF HeardUpTo, SharedEnd
<1>7. PICK tail : tail = assembler.tail
  OBVIOUS
<1>8. /\ tail \in Seq(Samples) /\ Len(tail) = Overlap
      /\ \A i \in 1 .. Overlap : tail[i] = prepared[Context + i]
  <2>1. Context + Overlap <= Shared /\ \A i \in 1 .. Overlap : Context + i \in 1 .. Shared
    BY <1>1
  <2>2. /\ tail \in Seq(Samples) /\ Len(tail) = Overlap
        /\ \A i \in 1 .. Overlap : tail[i] = begin[Context + i]
    <3>1. begin \in Seq(Samples) /\ Context + Overlap <= Len(begin)
      BY <1>5, <2>1
    <3>2. tail = Slice(begin, Context, Overlap) /\ Context \in Nat /\ Overlap \in Nat
      BY <1>1, <1>6, <1>7
    <3> QED
      BY <3>1, <3>2, SliceIs
  <2> QED
    BY <1>5, <2>1, <2>2
<1>9. PICK own : own = Slice(answer, Context + h, Overlap)
  OBVIOUS
<1>10. own = tail
  <2>1. PICK from \in Nat : from = Context + h
    BY <1>1
  <2>2. from + Overlap <= Len(answer)
    <3>1. PICK l \in Nat : l = Len(samples) /\ l >= Context + hop + Overlap + Search
      BY LongIs
    <3>2. from + Overlap <= l
      BY <1>1, <2>1, <3>1
    <3> QED
      BY <3>1, <3>2 DEF SameLength
  <2>3. /\ own \in Seq(Samples) /\ Len(own) = Overlap
        /\ \A i \in 1 .. Overlap : own[i] = answer[from + i]
    <3>1. own = Slice(answer, from, Overlap) /\ Overlap \in Nat
      BY <1>1, <1>9, <2>1
    <3> QED
      BY <2>2, <3>1, SliceIs
  <2>4. \A i \in 1 .. Overlap : own[i] = tail[i]
    BY <1>2, <1>8, <2>1, <2>3
  <2> QED
    BY <1>8, <2>3, <2>4, SameSamples
<1>11. ASSUME NEW shift \in 0 .. h - 1 PROVE answer[Context + shift + 1] # tail[1]
  <2>1. h > 0
    OBVIOUS
  <2>2. Len(stream.output_resampler.held) = h /\ Fills(answer, stream)
    BY <2>1
  <2>3. answer[Context + shift + 1] # prepared[Context + 1]
    BY <2>2, FilledBefore
  <2>4. tail[1] = prepared[Context + 1]
    BY <1>1, <1>8
  <2> QED
    BY <2>3, <2>4
<1>12. Goes(block[Len(block)], answer[Context + h + 1])
  <2>1. 1 \in 1 .. Overlap /\ Context + 1 \in 1 .. Shared
    BY <1>1
  <2>2. answer[Context + h + 1] = begin[Context + 1]
    BY <1>2, <1>5, <2>1
  <2> QED
    BY <1>6, <2>2
<1> QED
  BY <1>7, <1>9, <1>10, <1>11, <1>12 DEF Adjoins

\* The input resampler keeps the window and what it made of it.
Keeps(r, w, result) ==
  IF lags.input = 0 THEN result = w
  ELSE r.previous_input = w /\ r.previous_output = result

\* A stream that knows what a window begins with goes on with it, and has it in mind
\* then; one that does not has it in mind, too.
LEMMA PreparedGoesOn ==
  ASSUME lags \in Lags, NEW stream \in Streams(Samples, lags), StreamShape(stream),
         NEW w \in Seq(Samples), IsWindow(w), NEW kept \in 0 .. lags.input,
         NEW prepared, prepared = Prepared(stream, w, kept)
  PROVE  /\ Keeps(prepared.stream.input_resampler, w, prepared.result)
         /\ Knows(stream, First(w, Shared)) =>
              /\ Final(stream.filter_input, Shared) = First(prepared.result, Shared)
              /\ prepared.stream.continued
<1>1. PICK r, done : /\ r = stream.input_resampler
                     /\ done = resample(r, w, Rate, lags.input, kept, 0)
  OBVIOUS
<1>2. r \in Resamplers(Samples, lags.input) /\ stream.filter_input \in Seq(Samples)
  BY <1>1 DEF Streams
<1>3. lags.input > 0 => InputShape(r, lags.input)
  BY <1>1 DEF StreamShape
<1>4. /\ done.result \in Seq(Samples) /\ Len(done.result) = Len(w)
      /\ lags.input = 0 => done.result = w
      /\ lags.input > 0 =>
           /\ done.resampler.previous_input = w
           /\ done.resampler.previous_output = done.result
           /\ r.previous_input # <<>> /\ Final(r.previous_input, Shared) = First(w, Shared)
                => First(done.result, Shared) = Final(r.previous_output, Shared)
  BY <1>1, <1>2, <1>3, InputStage DEF Remembers
<1>5. /\ prepared.result = done.result
      /\ prepared.stream.input_resampler = done.resampler
      /\ prepared.stream.continued
           = FilterContinues(stream.filter_input, done.result, Rate)
  BY <1>1, Zenon DEF Prepared, Streams
<1>6. lags.input \in Nat /\ Shared \in Nat /\ Shared > 0
  BY SizesFit
<1>7. Keeps(prepared.stream.input_resampler, w, prepared.result)
  BY <1>4, <1>5, <1>6 DEF Keeps
<1>8. ASSUME Knows(stream, First(w, Shared))
      PROVE  /\ Final(stream.filter_input, Shared) = First(done.result, Shared)
             /\ FilterContinues(stream.filter_input, done.result, Rate)
  <2>1. PICK s : s = stream.filter_input
    OBVIOUS
  <2>2. Final(s, Shared) = First(done.result, Shared)
    <3>1. CASE lags.input = 0
      BY <1>4, <1>8, <2>1, <3>1 DEF Knows
    <3>2. CASE lags.input > 0
      BY <1>1, <1>4, <1>8, <2>1, <3>2 DEF Knows
    <3> QED
      BY <1>6, <3>1, <3>2
  <2>3. s \in Seq(Samples) /\ Len(s) >= Shared /\ Len(done.result) >= Shared
    BY <1>2, <1>4, <1>8, <2>1, WindowIs DEF Knows
  <2>4. DetectedOverlap(s, done.result, Rate) = Shared
    BY <1>4, <2>2, <2>3, DetectedIsShared
  <2> QED
    BY <1>6, <2>1, <2>2, <2>4 DEF FilterContinues
<1> QED
  BY <1>5, <1>7, <1>8

\* What an output resampler has in mind of what the filter saw, if that lacked no more
\* than a block can do without.
HasInMind(r, made) ==
  /\ Prefix(r.previous_input, made)
  /\ Len(r.previous_input) >= Len(made) - Lookahead + Overlap + Search
  /\ Ends(r.held, r.previous_input)

\* What a stream makes of the samples of the model, if they are enough for a block: it
\* has them in mind, and the answer goes on where the stream was.
LEMMA OutputGoesOn ==
  ASSUME lags \in Lags, captured.hop \in Nat \ {0},
         NEW stream \in Streams(Samples, lags),
         NEW w \in Seq(Samples), IsWindow(w), Sized(w, Shared + captured.hop),
         NEW made \in Seq(Samples), NEW kept, Made(made, w, kept, lags.input),
         NEW samples \in Seq(Samples), Prefix(samples, made), NEW holds \in 0 .. lags.output,
         NEW inferred, Infers(inferred, stream, samples, holds),
         inferred.stream.filter_input = made, LongEnough(inferred.result, captured.hop)
  PROVE  /\ lags.output > 0 => HasInMind(inferred.stream.output_resampler, made)
         /\ stream.output_resampler.previous_input = <<>>
              => Joins(inferred.result, inferred.stream, 0)
         /\ /\ Knows(stream, First(w, Shared)) /\ HeardUpTo(stream)
            /\ Final(stream.filter_input, Shared) = First(made, Shared)
            => \E h \in 0 .. Search : /\ Joins(inferred.result, inferred.stream, h)
                                      /\ Adjoins(inferred.result, h)
<1>1. PICK answer, hop : answer = inferred.result /\ hop = captured.hop
  OBVIOUS
<1>2. PICK r, next : /\ r = stream.output_resampler
                     /\ next = inferred.stream.output_resampler
  OBVIOUS
<1>3. answer \in Seq(Samples) /\ SameLength(answer, samples) /\ hop \in Nat \ {0}
      /\ hop \in Nat
  BY <1>1 DEF Infers
<1>4. LongEnough(samples, hop)
  BY <1>1, <1>3 DEF LongEnough, SameLength
<1>5. /\ Context \in Nat /\ Lookahead \in Nat /\ Overlap \in Nat /\ Search \in Nat
      /\ lags.output \in Nat /\ lags.output <= Search /\ Overlap >= 2
      /\ Overlap + Search <= Lookahead /\ Shared \in Nat /\ Shared = Context + Lookahead
  BY SizesFit
<1>6. Len(samples) > Context + lags.output
  <2>1. PICK l \in Nat : l = Len(samples) /\ l >= Context + hop + Overlap + Search
    BY <1>3, <1>4, LongIs
  <2> QED
    BY <1>3, <1>5, <2>1
<1>7. lags.output > 0 => Outputs(answer, next, r, samples, holds)
  BY <1>1, <1>2, <1>6 DEF Infers
<1>8. lags.output = 0 => answer = samples
  BY <1>1 DEF Infers
<1>9. Sized(made, Shared + hop)
  BY <1>1 DEF Made, SameLength, Sized
<1>10. ASSUME NEW h \in 0 .. lags.output, NEW after \in 0 .. lags.output,
              Delayed(answer, samples, Context + h + 1, h, after)
       PROVE  Joins(answer, inferred.stream, h)
  <2>1. Moves(answer, Context + h + 1, lags.input)
    BY <1>3, <1>6, <1>10, DelayedAnswer
  <2>2. /\ Sized(inferred.stream.filter_input, Shared + captured.hop)
        /\ Prefix(samples, inferred.stream.filter_input) /\ LongEnough(samples, captured.hop)
    BY <1>1, <1>4, <1>9
  <2> QED
    BY <1>10, <2>1, <2>2, DelayedJoins
<1>11. lags.output = 0 => Delayed(answer, samples, Context + 0 + 1, 0, 0)
  <2> SUFFICES ASSUME lags.output = 0 PROVE Delayed(samples, samples, Context + 0 + 1, 0, 0)
    BY <1>8
  <2>1. PICK l \in Nat : l = Len(samples)
    BY LenProperties
  <2>2. \A i \in Context + 0 + 1 .. l : Least(i - 0, l - 0) = i
    BY <1>5, <2>1 DEF Least
  <2> QED
    BY <2>1, <2>2 DEF Delayed
<1>12. ASSUME lags.output > 0 PROVE HasInMind(next, made)
  <2>1. next.previous_input = samples /\ Ends(next.held, samples)
    BY <1>7, <1>12 DEF Outputs
  <2>2. Len(samples) >= Len(made) - Lookahead + Overlap + Search
    <3>1. PICK l \in Nat : l = Len(samples) /\ l >= Context + hop + Overlap + Search
      BY <1>3, <1>4, LongIs
    <3>2. PICK n \in Nat : n = Len(made) /\ n = Shared + hop
      BY <1>9, LenProperties DEF Sized
    <3>3. l >= n - Lookahead + Overlap + Search
      BY <1>3, <1>5, <3>1, <3>2
    <3> QED
      BY <3>1, <3>2, <3>3
  <2> QED
    BY <2>1, <2>2 DEF HasInMind
<1>13. ASSUME r.previous_input = <<>> PROVE Joins(answer, inferred.stream, 0)
  <2>1. CASE lags.output > 0
    <3>1. Delayed(answer, samples, 1, 0, holds)
      BY <1>7, <1>13, <2>1 DEF Outputs
    <3>2. Delayed(answer, samples, Context + 0 + 1, 0, holds)
      <4>1. 1 \in Int /\ Context + 0 + 1 \in Int /\ 1 <= Context + 0 + 1 /\ Len(samples) \in Nat
        BY <1>5, LenProperties
      <4> QED
        BY <3>1, <4>1, DelayedLater
    <3>3. 0 \in 0 .. lags.output
      BY <1>5
    <3> QED
      BY <1>10, <3>2, <3>3
  <2>2. CASE lags.output = 0
    <3>1. 0 \in 0 .. lags.output
      BY <1>5
    <3> QED
      BY <1>10, <1>11, <2>2, <3>1
  <2> QED
    BY <1>5, <2>1, <2>2
<1>14. ASSUME Knows(stream, First(w, Shared)), HeardUpTo(stream),
              Final(stream.filter_input, Shared) = First(made, Shared)
       PROVE  \E h \in 0 .. Search : Joins(answer, inferred.stream, h) /\ Adjoins(answer, h)
  <2>1. /\ stream.filter_input \in Seq(Samples) /\ Len(stream.filter_input) >= Shared
        /\ r \in Resamplers(Samples, lags.output)
    BY <1>2, <1>14 DEF Streams, Knows
  <2>2. stream.output_resampler.previous_input \in Seq(Samples)
    BY <1>2, <2>1 DEF Resamplers
  <2>3. CASE lags.output > 0
    <3>1. PICK h : h = Len(r.held)
      OBVIOUS
    <3>2. h \in 0 .. lags.output /\ h \in 0 .. Search
      <4>1. h \in Nat /\ h <= lags.output
        BY <2>1, <3>1, LenProperties DEF Resamplers
      <4> QED
        BY <1>5, <4>1
    <3>3. HasInMind(r, stream.filter_input)
      BY <1>2, <1>14, <2>3 DEF Knows, HasInMind
    <3>4. Len(r.previous_input) >= Context
      <4>1. PICK n \in Nat, l \in Nat : n = Len(stream.filter_input) /\ l = Len(r.previous_input)
        BY <1>2, <2>1, <2>2, LenProperties
      <4>2. l >= n - Lookahead + Overlap + Search /\ n >= Shared
        BY <2>1, <3>3, <4>1 DEF HasInMind
      <4>3. l >= Context
        BY <1>5, <4>2
      <4> QED
        BY <4>1, <4>3
    <3>5. /\ Delayed(answer, samples, Context + h + 1, h, holds)
          /\ \A i \in 1 .. Len(r.held) : answer[Context + i] = r.held[i]
      BY <1>7, <2>3, <3>1, <3>4 DEF Outputs
    <3>6. Len(stream.output_resampler.held) = h /\ Fills(answer, stream)
      BY <1>2, <3>1, <3>3, <3>5 DEF Fills, HasInMind
    <3>7. Adjoins(answer, h)
      BY <1>3, <1>4, <1>14, <2>1, <2>2, <3>2, <3>5, <3>6, DelayedAdjoins
    <3>8. Joins(answer, inferred.stream, h)
      BY <1>10, <3>2, <3>5
    <3> QED
      BY <3>2, <3>7, <3>8
  <2>4. CASE lags.output = 0
    <3>1. PICK h : h = 0
      OBVIOUS
    <3>2. h \in 0 .. lags.output /\ h \in 0 .. Search /\ ~(h > 0)
      BY <1>5, <3>1
    <3>3. Delayed(answer, samples, Context + h + 1, h, h)
      BY <1>11, <2>4, <3>1
    <3>4. Adjoins(answer, h)
      BY <1>3, <1>4, <1>14, <2>1, <2>2, <3>2, <3>3, DelayedAdjoins
    <3>5. Joins(answer, inferred.stream, h)
      BY <1>10, <3>2, <3>3
    <3> QED
      BY <3>2, <3>4, <3>5
  <2> QED
    BY <1>5, <2>3, <2>4
<1> QED
  BY <1>1, <1>2, <1>12, <1>13, <1>14

\* An answer, by what the stream knew before its window.
LEMMA AnswerGoesOn ==
  ASSUME lags \in Lags, captured.hop \in Nat \ {0},
         NEW stream \in Streams(Samples, lags), StreamShape(stream),
         NEW w \in Seq(Samples), IsWindow(w), Sized(w, Shared + captured.hop),
         NEW kept \in 0 .. lags.input, NEW prepared, prepared = Prepared(stream, w, kept),
         NEW short \in Nat, NEW holds \in 0 .. lags.output,
         NEW inferred, inferred = Inferred(stream, prepared, short, holds)
  PROVE  /\ Knows(stream, First(w, Shared)) => inferred.stream.continued
         /\ LongEnough(inferred.result, captured.hop) =>
              /\ Knows(inferred.stream, Final(w, Shared))
              /\ stream.output_resampler.previous_input = <<>>
                   => Joins(inferred.result, inferred.stream, 0)
              /\ Knows(stream, First(w, Shared)) /\ HeardUpTo(stream) =>
                   \E h \in 0 .. Search : /\ Joins(inferred.result, inferred.stream, h)
                                          /\ Adjoins(inferred.result, h)
<1>1. /\ prepared.stream \in Streams(Samples, lags)
      /\ prepared.stream.generation = stream.generation
      /\ prepared.stream.tangled = stream.tangled
      /\ prepared.stream.filter_input = prepared.result
      /\ prepared.result \in Seq(Samples) /\ Len(prepared.result) >= Shared
      /\ Made(prepared.result, w, kept, lags.input)
      /\ StreamShape(prepared.stream)
  BY PreparedIs
<1>2. /\ Keeps(prepared.stream.input_resampler, w, prepared.result)
      /\ Knows(stream, First(w, Shared)) =>
           /\ Final(stream.filter_input, Shared) = First(prepared.result, Shared)
           /\ prepared.stream.continued
  BY PreparedGoesOn
<1>3. /\ inferred.stream.input_resampler = prepared.stream.input_resampler
      /\ inferred.stream.filter_input = prepared.result
      /\ inferred.stream.continued = prepared.stream.continued
      /\ \E samples \in Seq(Samples) :
           Prefix(samples, prepared.result) /\ Infers(inferred, stream, samples, holds)
  <2>1. /\ inferred.stream.input_resampler = prepared.stream.input_resampler
        /\ inferred.stream.filter_input = prepared.stream.filter_input
        /\ inferred.stream.continued = prepared.stream.continued
    BY <1>1, Zenon DEF Inferred, Streams
  <2>2. \E samples \in Seq(Samples) :
          Prefix(samples, prepared.result) /\ Infers(inferred, stream, samples, holds)
    BY <1>1, InferredIs
  <2> QED
    BY <1>1, <2>1, <2>2
<1>4. PICK samples \in Seq(Samples) :
        Prefix(samples, prepared.result) /\ Infers(inferred, stream, samples, holds)
  BY <1>3
<1>5. ASSUME LongEnough(inferred.result, captured.hop)
      PROVE  /\ Knows(inferred.stream, Final(w, Shared))
             /\ stream.output_resampler.previous_input = <<>>
                  => Joins(inferred.result, inferred.stream, 0)
             /\ Knows(stream, First(w, Shared)) /\ HeardUpTo(stream) =>
                  \E h \in 0 .. Search : /\ Joins(inferred.result, inferred.stream, h)
                                         /\ Adjoins(inferred.result, h)
  <2>1. PICK made : made = prepared.result
    OBVIOUS
  <2>2. /\ made \in Seq(Samples) /\ Made(made, w, kept, lags.input)
        /\ Prefix(samples, made) /\ inferred.stream.filter_input = made
    BY <1>1, <1>3, <1>4, <2>1
  <2>3. /\ lags.output > 0 => HasInMind(inferred.stream.output_resampler, made)
        /\ stream.output_resampler.previous_input = <<>>
             => Joins(inferred.result, inferred.stream, 0)
        /\ /\ Knows(stream, First(w, Shared)) /\ HeardUpTo(stream)
           /\ Final(stream.filter_input, Shared) = First(made, Shared)
           => \E h \in 0 .. Search : /\ Joins(inferred.result, inferred.stream, h)
                                     /\ Adjoins(inferred.result, h)
    BY <1>4, <1>5, <2>2, OutputGoesOn
  <2>4. Knows(inferred.stream, Final(w, Shared))
    <3>1. w # <<>>
      <4>1. Shared \in Nat /\ Shared > 0
        BY SizesFit
      <4> QED
        BY <4>1, WindowIs, EmptySeq
    <3>2. /\ lags.input = 0 => made = w
          /\ lags.input > 0 => /\ inferred.stream.input_resampler.previous_input = w
                               /\ inferred.stream.input_resampler.previous_output = made
      BY <1>2, <1>3, <2>1 DEF Keeps
    <3>3. Len(made) >= Shared
      BY <1>1, <2>1
    <3> QED
      BY <2>2, <2>3, <3>1, <3>2, <3>3 DEF Knows, HasInMind
  <2> QED
    BY <1>2, <2>1, <2>3, <2>4
<1> QED
  BY <1>2, <1>3, <1>5

\* The streams that serving a request may leave are of its generation.
LEMMA ServedGeneration ==
  ASSUME Inv, Shapes, NEW request \in requests, NEW kept, NEW prepared,
         PreparedFor(request, kept, prepared)
  PROVE  /\ prepared.stream.generation = request.generation
         /\ \A short, holds, inferred :
              InferredFor(request, prepared, short, holds, inferred) =>
                inferred.stream.generation = request.generation
<1>1. PICK stream, w : stream = StreamOf(request) /\ w = request.window
  OBVIOUS
<1>2. /\ stream \in Streams(Samples, lags) /\ stream.generation = request.generation
      /\ lags \in Lags /\ w \in Seq(Samples)
  BY <1>1, StreamOfIs
<1>3. kept \in 0 .. lags.input /\ prepared = Prepared(stream, w, kept)
  BY <1>1 DEF PreparedFor
<1>4. Silence \in Samples
  BY DEF Samples, Own
<1>5. /\ prepared.stream.generation = stream.generation
      /\ \A holds \in 0 .. lags.output, short \in Shortfalls :
           Inferred(stream, prepared, short, holds).stream.generation = stream.generation
  BY <1>2, <1>3, <1>4, ServedProperties
<1>6. ASSUME NEW short, NEW holds, NEW inferred,
             InferredFor(request, prepared, short, holds, inferred)
      PROVE  inferred.stream.generation = request.generation
  <2>1. /\ short \in Shortfalls /\ holds \in 0 .. lags.output
        /\ inferred = Inferred(stream, prepared, short, holds)
    BY <1>1, <1>6 DEF InferredFor
  <2> QED
    BY <1>2, <1>5, <2>1
<1> QED
  BY <1>2, <1>5, <1>6

\* And it leaves one of them.
LEMMA ServedGenerations ==
  ASSUME Inv, Shapes, NEW request \in requests, Serve(request)
  PROVE  server'.generation \in {server.generation, request.generation}
<1>1. CASE server' = server
  BY <1>1
<1>2. CASE \E kept, prepared : /\ PreparedFor(request, kept, prepared)
                               /\ server' = prepared.stream
  BY <1>2, ServedGeneration
<1>3. CASE \E kept, prepared, short, holds, inferred :
             /\ PreparedFor(request, kept, prepared)
             /\ InferredFor(request, prepared, short, holds, inferred)
             /\ server' = inferred.stream
  BY <1>3, ServedGeneration
<1> QED
  BY <1>1, <1>2, <1>3, ServeCases

\* The window that is awaited has the size of its block.
LEMMA AwaitedIsSized ==
  ASSUME Inv, Shapes, NEW request \in requests, Awaits(request), thread = "waiting"
  PROVE  captured.hop \in Nat \ {0} /\ Sized(request.window, Shared + captured.hop)
<1>1. PICK hop \in Nat : hop = captured.hop
  BY DEF Inv, Types, ThreadInv
<1>2. lags \in Lags /\ request.window \in Seq(Samples)
  BY StreamOfIs
<1>3. /\ Lookahead \in Nat /\ Context \in Nat /\ Shared = Context + Lookahead
      /\ Lookahead >= Overlap + Search /\ Overlap >= 2 /\ Overlap \in Nat /\ Search \in Nat
  BY <1>2, SizesFit
<1>4. hop >= Lookahead
  BY <1>1 DEF Shapes, FlightShape
<1>5. Len(request.window) = window_frames(Rate, hop)
  BY <1>1 DEF Inv, Types, RequestsInv, RequestInv, Awaits
<1>6. window_frames(Rate, hop) = Shared + hop
  BY <1>3, WindowFrames
<1> QED
  BY <1>1, <1>2, <1>3, <1>4, <1>5, <1>6 DEF Sized

\* The request that is awaited is answered out of the stream that knows it, or is the
\* first of its stream.
LEMMA AwaitedGoesOn ==
  ASSUME Inv, Shapes, Wellness, NEW request \in requests, Awaits(request), thread = "waiting",
         ~disturbed, Current,
         NEW kept, NEW prepared, PreparedFor(request, kept, prepared),
         NEW short, NEW holds, NEW inferred,
         InferredFor(request, prepared, short, holds, inferred)
  PROVE  /\ block # <<>> => inferred.stream.continued
         /\ LongEnough(inferred.result, captured.hop) =>
              /\ Knows(inferred.stream, Upcoming)
              /\ \E offset \in 0 .. Search : Fits(inferred.result, inferred.stream, offset)
<1>1. PICK stream, w : stream = StreamOf(request) /\ w = request.window
  OBVIOUS
<1>2. /\ stream \in Streams(Samples, lags) /\ StreamShape(stream)
      /\ lags \in Lags /\ w \in Seq(Samples) /\ IsWindow(w)
  BY <1>1, StreamOfIs
<1>3. /\ kept \in 0 .. lags.input /\ prepared = Prepared(stream, w, kept)
      /\ short \in Nat /\ holds \in 0 .. lags.output
      /\ inferred = Inferred(stream, prepared, short, holds)
  BY <1>1, VoiceStreamAssumption DEF PreparedFor, InferredFor
<1>4. request.generation = generation
  BY DEF Inv, Types, RequestsInv, RequestInv, Awaits, Current
<1>5. /\ Final(w, Shared) = Upcoming
      /\ block = <<>> => server.generation # generation /\ assembler.tail = <<>>
      /\ block # <<>> => /\ server.generation = generation
                         /\ Knows(server, First(w, Shared))
                         /\ HeardUpTo(server)
  BY <1>1 DEF Wellness, WaitingWell
<1>6. captured.hop \in Nat \ {0} /\ Sized(w, Shared + captured.hop)
  BY <1>1, AwaitedIsSized
<1>7. /\ Knows(stream, First(w, Shared)) => inferred.stream.continued
      /\ LongEnough(inferred.result, captured.hop) =>
           /\ Knows(inferred.stream, Final(w, Shared))
           /\ stream.output_resampler.previous_input = <<>>
                => Joins(inferred.result, inferred.stream, 0)
           /\ Knows(stream, First(w, Shared)) /\ HeardUpTo(stream) =>
                \E h \in 0 .. Search : /\ Joins(inferred.result, inferred.stream, h)
                                       /\ Adjoins(inferred.result, h)
  BY <1>2, <1>3, <1>6, AnswerGoesOn
<1>8. CASE block = <<>>
  <2>1. stream = NewStream(request.generation)
    BY <1>1, <1>4, <1>5, <1>8 DEF StreamOf
  <2>2. stream.output_resampler.previous_input = <<>>
    BY <2>1 DEF NewStream, NewResampler
  <2>3. 0 \in 0 .. Search
    BY <1>2, SizesFit
  <2> QED
    BY <1>5, <1>7, <1>8, <2>2, <2>3 DEF Fits
<1>9. CASE block # <<>>
  <2>1. stream = server
    BY <1>1, <1>4, <1>5, <1>9 DEF StreamOf
  <2> QED
    BY <1>5, <1>7, <1>9, <2>1 DEF Fits
<1> QED
  BY <1>8, <1>9

\* A request that is served: any other one disturbs.
LEMMA ServeWell ==
  ASSUME Inv, Shapes, Wellness, NEW request \in requests, Serve(request) PROVE Wellness'
<1>1. /\ requests' = requests \ {request}
      /\ disturbed' = (disturbed \/ ~Awaited(request))
      /\ lags' = lags /\ front' = front /\ generation' = generation /\ block' = block
      /\ assembler' = assembler /\ captured' = captured
  BY DEF Serve, monitorVars
<1>2. OldStreams'
  <2>1. server'.generation \in {server.generation, request.generation}
    BY ServedGenerations
  <2> QED
    BY <1>1, <2>1 DEF Wellness, OldStreams, Current
<1>3. CASE disturbed'
  BY <1>2, <1>3 DEF Wellness, ReadyWell, WaitingWell, AnsweredWell
<1>4. CASE ~disturbed'
  <2>1. ~disturbed /\ Awaited(request) /\ thread = "waiting" /\ Awaits(request)
    BY <1>1, <1>4 DEF Awaited, Awaits
  <2>2. \A result : Answer(request, result) => thread' = "answered" /\ converted' = result
    BY <2>1 DEF Answer
  <2>3. CASE Answer(request, <<>>)
    BY <1>2, <2>2, <2>3 DEF Wellness, ReadyWell, WaitingWell, AnsweredWell
  <2>4. CASE \E kept, prepared, short, holds, inferred :
               /\ PreparedFor(request, kept, prepared)
               /\ InferredFor(request, prepared, short, holds, inferred)
               /\ server' = inferred.stream /\ Answer(request, inferred.result)
    <3>1. PICK kept, prepared, short, holds, inferred :
            /\ PreparedFor(request, kept, prepared)
            /\ InferredFor(request, prepared, short, holds, inferred)
            /\ server' = inferred.stream /\ Answer(request, inferred.result)
      BY <2>4
    <3>2. thread' = "answered" /\ converted' = inferred.result
      BY <2>2, <3>1
    <3> SUFFICES ASSUME Current' PROVE AnsweredWell'
      BY <1>2, <3>2 DEF Wellness, ReadyWell, WaitingWell, AnsweredWell
    <3>3. Current
      BY <1>1 DEF Current
    <3>4. /\ block # <<>> => inferred.stream.continued
          /\ LongEnough(inferred.result, captured.hop) =>
               /\ Knows(inferred.stream, Upcoming)
               /\ \E offset \in 0 .. Search : Fits(inferred.result, inferred.stream, offset)
      BY <2>1, <3>1, <3>3, AwaitedGoesOn
    <3>5. ASSUME LongEnough(inferred.result, captured.hop)
          PROVE  /\ server'.generation = generation' /\ Knows(server, Upcoming)'
                 /\ \E offset \in 0 .. Search : Fits(converted, server, offset)'
      <4>1. Knows(server, Upcoming)'
        BY <1>1, <3>1, <3>4, <3>5 DEF Knows, Upcoming
      <4>2. PICK offset \in 0 .. Search : Fits(inferred.result, inferred.stream, offset)
        BY <3>4, <3>5
      <4>3. Fits(converted, server, offset)'
        BY <1>1, <3>1, <3>2, <4>2 DEF Fits, Joins, Adjoins, SharedEnd, Goes
      <4>4. server'.generation = generation'
        <5>1. request.generation = generation
          BY <2>1, <3>3 DEF Inv, Types, RequestsInv, RequestInv, Awaits, Current
        <5>2. inferred.stream.generation = request.generation
          BY <3>1, ServedGeneration
        <5> QED
          BY <1>1, <3>1, <5>1, <5>2
      <4> QED
        BY <4>1, <4>3, <4>4
    <3>6. LongEnough(converted, captured.hop)' => LongEnough(inferred.result, captured.hop)
      BY <1>1, <3>2 DEF LongEnough
    <3>7. block' # <<>> => server'.continued
      BY <1>1, <3>1, <3>4
    <3> QED
      BY <3>5, <3>6, <3>7 DEF AnsweredWell
  <2> QED
    BY <2>3, <2>4, ServeCases
<1> QED
  BY <1>3, <1>4
-----------------------------------------------------------------------------
\* From a sample on, a block is what was converted.
Plays(heard, from, offset) ==
  \A i \in from .. captured.hop : heard[i] = converted[Context + offset + i]

\* It is behind the cross-fade, and everywhere if there is nothing to fade or it is faded
\* into itself.
LEMMA BlockPlays ==
  ASSUME Inv, lags \in Lags,
         Stitches(converted, captured.hop, Context, Overlap, Search),
         LongEnough(converted, captured.hop),
         NEW offset \in 0 .. Search, NEW heard, heard = Stitched(offset).result
  PROVE  /\ heard \in Seq(Samples) /\ Len(heard) = captured.hop
         /\ Plays(heard, Overlap + 1, offset)
         /\ assembler.tail \in {<<>>, Slice(converted, Context + offset, Overlap)}
              => Plays(heard, 1, offset)
<1>1. /\ Context \in Nat /\ Lookahead \in Nat /\ Overlap \in Nat /\ Search \in Nat
      /\ Overlap + Search <= Lookahead /\ Overlap >= 2
  BY SizesFit
<1>2. /\ assembler \in Assemblers(Samples) /\ captured.hop \in Nat /\ converted \in Seq(Samples)
  BY DEF Inv, Types, ThreadInv
<1>3. PICK hop \in Nat, from \in Nat : hop = captured.hop /\ from = Context + offset
  BY <1>1, <1>2
<1>4. /\ from + hop <= Len(converted) /\ from + Overlap <= Len(converted)
  <2>1. PICK l \in Nat : l = Len(converted) /\ l >= Context + hop + Overlap + Search
    BY <1>2, <1>3, LongIs
  <2> QED
    BY <1>1, <1>3, <2>1
<1>5. PICK own : own = Slice(converted, from, hop)
  OBVIOUS
<1>6. \A i \in 1 .. hop : own[i] = converted[from + i]
  BY <1>2, <1>4, <1>5, SliceIs
<1>7. PICK tail : tail = assembler.tail
  OBVIOUS
<1>8. heard = [i \in 1 .. hop |->
                 IF i <= Overlap
                 THEN Faded(IF tail = <<>> THEN Silence ELSE tail[i], own[i]) ELSE own[i]]
  BY <1>3, <1>5, <1>7, Zenon DEF Stitched, stitch
<1>9. heard \in Seq(Samples)
  <2>1. Silence \in Samples /\ Mixed \in Samples
    BY DEF Samples, Own
  <2> QED
    BY <1>2, <2>1, StitchProperties DEF Stitched
<1>10. Len(heard) = captured.hop
  BY <1>3, <1>8
<1>11. Plays(heard, Overlap + 1, offset)
  <2> SUFFICES ASSUME NEW i \in Overlap + 1 .. hop PROVE heard[i] = converted[from + i]
    BY <1>3 DEF Plays
  <2>1. i \in 1 .. hop /\ ~(i <= Overlap)
    BY <1>1
  <2> QED
    BY <1>6, <1>8, <2>1
<1>12. ASSUME tail \in {<<>>, Slice(converted, from, Overlap)}
       PROVE  Plays(heard, 1, offset)
  <2> SUFFICES ASSUME NEW i \in 1 .. hop PROVE heard[i] = converted[from + i]
    BY <1>3 DEF Plays
  <2>1. own[i] = converted[from + i]
    BY <1>6
  <2>2. CASE ~(i <= Overlap)
    BY <1>8, <2>1, <2>2
  <2>3. CASE i <= Overlap /\ tail = <<>>
    BY <1>8, <2>1, <2>3 DEF Faded
  <2>4. CASE i <= Overlap /\ tail # <<>>
    <3>1. tail = Slice(converted, from, Overlap) /\ i \in 1 .. Overlap
      BY <1>12, <2>4
    <3>2. tail[i] = converted[from + i]
      BY <1>1, <1>2, <1>4, <3>1, SliceIs
    <3> QED
      BY <1>8, <2>1, <2>4, <3>2 DEF Faded
  <2> QED
    BY <2>2, <2>3, <2>4
<1> QED
  BY <1>3, <1>7, <1>9, <1>10, <1>11, <1>12

\* Then it runs as that does.
LEMMA BlockRuns ==
  ASSUME lags \in Lags, captured.hop \in Nat, converted \in Seq(Samples),
         LongEnough(converted, captured.hop), NEW offset \in 0 .. Search,
         NEW heard \in Seq(Samples), Len(heard) = captured.hop,
         NEW from \in Nat \ {0}, Plays(heard, from, offset),
         Moves(converted, Context + offset + from, lags.input)
  PROVE  Moves(heard, from, lags.input)
<1>1. /\ Context \in Nat /\ Lookahead \in Nat /\ Overlap \in Nat /\ Search \in Nat
      /\ Overlap + Search <= Lookahead /\ Overlap >= 2
  BY SizesFit
<1>2. PICK hop \in Nat, l \in Nat, before \in Nat :
        hop = captured.hop /\ l = Len(converted) /\ before = Context + offset
  BY <1>1, LenProperties
<1>3. l >= Context + hop + Overlap + Search
  BY <1>2, LongIs
<1>4. ASSUME NEW i \in from .. hop - 1 PROVE Goes(heard[i], heard[i + 1])
  <2>1. i \in from .. hop /\ i + 1 \in from .. hop
    OBVIOUS
  <2>2. heard[i] = converted[before + i] /\ heard[i + 1] = converted[before + (i + 1)]
    BY <1>2, <2>1 DEF Plays
  <2>3. PICK j \in Nat : j = before + i
    OBVIOUS
  <2>4. j \in before + from .. l - 1 /\ before + (i + 1) = j + 1
    <3>1. before <= Context + Search /\ i >= from /\ i <= hop - 1 /\ i \in Int
      BY <1>1, <1>2
    <3>2. j <= Context + Search + hop - 1
      BY <1>1, <2>3, <3>1
    <3>3. j <= l - 1 /\ j >= before + from
      BY <1>1, <1>3, <2>3, <3>1, <3>2
    <3> QED
      BY <1>1, <2>3, <3>1, <3>3
  <2>5. Goes(converted[j], converted[j + 1])
    BY <1>2, <2>4 DEF Moves, Goes
  <2> QED
    BY <2>2, <2>3, <2>4, <2>5
<1>5. Len(heard) - 1 = hop - 1
  BY <1>2
<1> QED
  BY <1>4, <1>5 DEF Moves, Goes

\* As long as nothing disturbs a stream, the search finds the tail where the resampler
\* held it back, and nowhere before.
LEMMA OffsetIsFound ==
  ASSUME Inv, lags \in Lags, LongEnough(converted, captured.hop),
         NEW found \in 0 .. Search, Adjoins(converted, found),
         NEW offset, offset \in Offsets(assembler.tail, converted, Context, Overlap, Search)
  PROVE  offset = found
<1>1. /\ Context \in Nat \ {0} /\ Overlap \in Nat /\ Search \in Nat /\ Overlap >= 2
  <2>1. Context \in Nat /\ Overlap \in Nat /\ Search \in Nat /\ Overlap >= 2
        /\ Overlap <= Context
    BY SizesFit
  <2> QED
    BY <2>1
<1>2. PICK tail : tail = assembler.tail
  OBVIOUS
<1>3. /\ Slice(converted, Context + found, Overlap) = tail
      /\ \A shift \in 0 .. found - 1 : converted[Context + shift + 1] # tail[1]
  BY <1>2 DEF Adjoins
<1>4. PICK exact : exact = {shift \in 0 .. Search :
                              Slice(converted, Context + shift, Overlap) = tail}
  OBVIOUS
<1>5. found \in exact
  BY <1>3, <1>4
<1>6. converted \in Seq(Samples) /\ captured.hop \in Nat
  BY DEF Inv, Types, ThreadInv
<1>7. ASSUME NEW shift \in 0 .. Search
      PROVE  /\ Len(Slice(converted, Context + shift, Overlap)) = Overlap
             /\ Slice(converted, Context + shift, Overlap)[1] = converted[Context + shift + 1]
  <2>1. PICK from \in Nat : from = Context + shift
    BY <1>1
  <2>2. from + Overlap <= Len(converted)
    <3>1. PICK l \in Nat, hop \in Nat : /\ l = Len(converted) /\ hop = captured.hop
                                        /\ l >= Context + hop + Overlap + Search
      BY <1>6, LongIs
    <3> QED
      BY <1>1, <2>1, <3>1
  <2>3. 1 \in 1 .. Overlap
    BY <1>1
  <2>4. PICK own : own = Slice(converted, from, Overlap)
    OBVIOUS
  <2>5. Len(own) = Overlap /\ \A i \in 1 .. Overlap : own[i] = converted[from + i]
    <3>1. converted \in Seq(Samples) /\ Overlap \in Nat
      BY <1>1, <1>6
    <3> QED
      BY <2>2, <2>4, <3>1, SliceIs
  <2>6. own[1] = converted[from + 1]
    BY <2>3, <2>5
  <2> QED
    BY <2>1, <2>4, <2>5, <2>6
<1>8. Len(tail) = Overlap
  BY <1>3, <1>7
<1>9. offset \in exact /\ \A other \in exact : offset <= other
  BY <1>2, <1>4, <1>5, <1>8 DEF Offsets
<1>10. offset \in 0 .. Search /\ offset <= found
  BY <1>4, <1>5, <1>9
<1>11. CASE offset < found
  <2>1. offset \in 0 .. found - 1
    BY <1>10, <1>11
  <2>2. converted[Context + offset + 1] = tail[1]
    BY <1>4, <1>7, <1>9, <1>10
  <2> QED
    BY <1>3, <2>1, <2>2
<1> QED
  BY <1>10, <1>11

\* So the block goes on there.
LEMMA OffsetIsExact ==
  ASSUME Inv, Wellness, lags \in Lags, thread = "answered", converted # <<>>, ~disturbed,
         Current, LongEnough(converted, captured.hop),
         NEW offset, offset \in Offsets(assembler.tail, converted, Context, Overlap, Search)
  PROVE  /\ server.generation = generation /\ Knows(server, Upcoming)
         /\ assembler.tail \in {<<>>, Slice(converted, Context + offset, Overlap)}
         /\ Joins(converted, server, offset)
         /\ block # <<>> => Goes(block[Len(block)], converted[Context + offset + 1])
<1>1. server.generation = generation /\ Knows(server, Upcoming)
  BY DEF Wellness, AnsweredWell
<1>2. PICK found \in 0 .. Search : Fits(converted, server, found)
  BY DEF Wellness, AnsweredWell
<1>3. CASE block = <<>>
  <2>1. assembler.tail = <<>> /\ found = 0 /\ Joins(converted, server, found)
    BY <1>2, <1>3 DEF Fits
  <2>2. Len(assembler.tail) # Overlap
    BY <2>1, SizesFit, EmptySeq
  <2>3. offset = 0
    BY <2>2 DEF Offsets
  <2> QED
    BY <1>1, <1>3, <2>1, <2>3
<1>4. CASE block # <<>>
  <2>1. Joins(converted, server, found) /\ Adjoins(converted, found)
    BY <1>2, <1>4 DEF Fits
  <2>2. offset = found
    BY <2>1, OffsetIsFound
  <2>3. /\ Slice(converted, Context + found, Overlap) = assembler.tail
        /\ Goes(block[Len(block)], converted[Context + found + 1])
    BY <2>1 DEF Adjoins
  <2> QED
    BY <1>1, <2>1, <2>2, <2>3
<1> QED
  BY <1>3, <1>4

\* A stitched block goes on, and leaves what the next one goes on from.
LEMMA StitchWell ==
  ASSUME Inv, Shapes, Wellness, DropBlock \/ AppendBlock PROVE Wellness'
<1>1. /\ thread = "answered" /\ thread' = "ready"
      /\ Stitches(converted, captured.hop, Context, Overlap, Search)
      /\ converted \in Seq(Samples) /\ converted # <<>>
      /\ LongEnough(converted, captured.hop)
      /\ captured.hop \in Nat \ {0}
      /\ captured' = captured /\ lags \in Lags /\ lags' = lags /\ front' = front
      /\ generation' = generation /\ requests' = requests /\ server' = server
      /\ disturbed' = disturbed
  BY StitchedIs DEF LongEnough
<1>2. PICK offset \in 0 .. Search :
        /\ Stitching(offset)
        /\ assembler'.tail = NextTail(converted, captured.hop, Context, Overlap, offset)
        /\ assembler'.history = assembler.history
        /\ IF generation = captured.generation
           THEN block' = Stitched(offset).result ELSE block' = block
  BY StitchedIs
<1>3. Current' = Current
  BY <1>1 DEF Current
<1>4. OldStreams'
  BY <1>1, <1>2, <1>3 DEF Wellness, OldStreams, Current
<1>5. CASE disturbed \/ ~Current
  BY <1>1, <1>3, <1>4, <1>5 DEF Wellness, ReadyWell, WaitingWell, AnsweredWell
<1>6. CASE ~disturbed /\ Current
  <2>2. /\ server.generation = generation /\ Knows(server, Upcoming)
        /\ assembler.tail \in {<<>>, Slice(converted, Context + offset, Overlap)}
        /\ Joins(converted, server, offset)
    BY <1>1, <1>2, <1>6, OffsetIsExact DEF Stitching
  <2>3. PICK heard : heard = Stitched(offset).result
    OBVIOUS
  <2>4. block' = heard /\ heard \in Seq(Samples) /\ Len(heard) = captured.hop
        /\ Plays(heard, 1, offset)
    BY <1>1, <1>2, <1>6, <2>2, <2>3, BlockPlays DEF Current
  <2>5. PICK hop \in Nat \ {0}, end \in {SharedEnd(server)} :
          hop = captured.hop /\ end = SharedEnd(server)
    BY <1>1
  <2>6. /\ Context \in Nat \ {0} /\ Lookahead \in Nat /\ Overlap \in Nat /\ Search \in Nat
        /\ Overlap + Search <= Lookahead /\ Overlap >= 2 /\ Shared \in Nat
        /\ Shared = Context + Lookahead
    BY <1>1, SizesFit
  <2>7. /\ \A i \in 0 .. Overlap : converted[Context + offset + hop + i] = end[Context + i]
        /\ Moves(converted, Context + offset + 1, lags.input)
    BY <2>2, <2>5 DEF Joins
  <2>8. end[Context] = heard[Len(heard)]
    <3>1. heard[hop] = converted[Context + offset + hop]
      BY <2>4, <2>5 DEF Plays
    <3>2. converted[Context + offset + hop + 0] = end[Context + 0]
      BY <2>6, <2>7
    <3>3. Context + offset + hop + 0 = Context + offset + hop /\ Context + 0 = Context
      BY <2>6
    <3> QED
      BY <2>4, <2>5, <3>1, <3>2, <3>3
  <2>9. Goes(end[Context], end[Context + 1])
    <3>1. PICK j \in Nat : j = Context + offset + hop
      BY <2>6
    <3>2. j \in Context + offset + 1 .. Len(converted) - 1
      <4>1. PICK l \in Nat : l >= Context + hop + Overlap + Search /\ l = Len(converted)
        BY <1>1, <2>5, LongIs
      <4>2. j \in Context + offset + 1 .. l - 1
        BY <2>6, <3>1, <4>1
      <4> QED
        BY <4>1, <4>2
    <3>3. Goes(converted[j], converted[j + 1])
      BY <2>7, <3>2 DEF Moves, Goes
    <3>4. 0 \in 0 .. Overlap /\ 1 \in 0 .. Overlap /\ j + 0 = j /\ Context + 0 = Context
      BY <2>6
    <3>5. converted[j + 0] = end[Context + 0] /\ converted[j + 1] = end[Context + 1]
      BY <2>7, <3>1, <3>4
    <3> QED
      BY <3>3, <3>4, <3>5
  <2>10. assembler'.tail = Slice(end, Context, Overlap)
    <3>1. PICK tail : tail = assembler'.tail
      OBVIOUS
    <3>2. /\ tail \in Seq(Samples) /\ Len(tail) = Overlap
          /\ \A i \in 1 .. Overlap : tail[i] = converted[Context + offset + hop + i]
      <4>1. hop \in Nat /\ Len(converted) >= Context + hop + Overlap + Search
            /\ tail = NextTail(converted, hop, Context, Overlap, offset)
        BY <1>1, <1>2, <2>5, <3>1 DEF LongEnough
      <4> QED
        BY <1>1, <4>1, NextTailIs
    <3>3. end \in Seq(Samples) /\ Len(end) = Shared
      <4>1. server.filter_input \in Seq(Samples) /\ Len(server.filter_input) >= Shared
        BY <2>2 DEF Inv, Types, ServerInv, Streams, Knows
      <4> QED
        BY <2>5, <2>6, <4>1, FinalIs DEF SharedEnd
    <3>4. PICK slice : slice = Slice(end, Context, Overlap)
      OBVIOUS
    <3>5. /\ slice \in Seq(Samples) /\ Len(slice) = Overlap
          /\ \A i \in 1 .. Overlap : slice[i] = end[Context + i]
      <4>1. Context + Overlap <= Shared
        BY <2>6
      <4>2. Context + Overlap <= Len(end)
        BY <3>3, <4>1
      <4> QED
        BY <2>6, <3>3, <3>4, <4>2, SliceIs
    <3>6. \A i \in 1 .. Overlap : tail[i] = slice[i]
      <4>1. \A i \in 1 .. Overlap : i \in 0 .. Overlap
        OBVIOUS
      <4> QED
        BY <2>7, <3>2, <3>5, <4>1
    <3>7. tail = slice
      BY <3>2, <3>5, <3>6, SameSamples
    <3> QED
      BY <3>1, <3>4, <3>7
  <2>11. block' # <<>>
    BY <2>4, <2>5, EmptySeq
  <2>12. HeardUpTo(server)'
    BY <1>1, <2>4, <2>5, <2>8, <2>9, <2>10 DEF HeardUpTo, SharedEnd, Goes
  <2>13. Knows(server, Upcoming)'
    BY <1>1, <1>2, <2>2 DEF Knows, Upcoming, History
  <2>14. ReadyWell'
    BY <1>1, <2>2, <2>11, <2>12, <2>13 DEF ReadyWell
  <2> QED
    BY <1>1, <1>4, <2>14 DEF Wellness, WaitingWell, AnsweredWell
<1> QED
  BY <1>5, <1>6

\* What is undisturbed is well in every reachable state: the worker process knows the
\* window that comes next, whatever the resamplers held back before it, and the answer it
\* gives, if that is long enough, goes on where the block before it ended.
THEOREM StreamIsWell == Spec => []Wellness
<1>1. ASSUME Inv, Shapes, Wellness, [Next]_vars PROVE Wellness'
  <2>1. CASE Discontinue
    BY <1>1, <2>1, DiscontinueWell
  <2>2. CASE Capture
    BY <1>1, <2>2, CaptureWell
  <2>3. CASE \E request \in requests : Serve(request)
    BY <1>1, <2>3, ServeWell
  <2>4. CASE \E request \in requests : Tangle(request)
    BY <1>1, <2>4, TangleWell
  <2>5. CASE Forget
    BY <1>1, <2>5, ForgetWell
  <2>6. CASE ConversionFails
    BY <1>1, <2>6, ConversionFailsWell
  <2>7. CASE DropBlock \/ AppendBlock
    BY <1>1, <2>7, StitchWell
  <2>8. CASE UNCHANGED vars
    BY <1>1, <2>8, StutterWell
  <2> QED
    BY <1>1, <2>1, <2>2, <2>3, <2>4, <2>5, <2>6, <2>7, <2>8 DEF Next
<1> QED
  BY WellInit, <1>1, StreamInvariant, StreamIsInShape, PTL DEF Spec

\* While nothing disturbs a stream, no filter of the worker process starts anew.
THEOREM FiltersContinue == Spec => []WindowsContinue
<1>1. Inv /\ Wellness => WindowsContinue
  <2> SUFFICES ASSUME Inv, Wellness, thread = "answered", converted # <<>>, block # <<>>,
                      ~disturbed
               PROVE  server.continued
    BY DEF WindowsContinue
  <2>1. Current
    BY DEF Wellness, OldStreams
  <2> QED
    BY <2>1 DEF Wellness, AnsweredWell
<1> QED
  BY <1>1, StreamInvariant, StreamIsWell, PTL

\* A block of an answer that two conversions at once have made is all mixed.
LEMMA BlockIsMixed ==
  ASSUME Inv, lags \in Lags, LongEnough(converted, captured.hop),
         NEW offset \in 0 .. Search, NEW heard, heard = Stitched(offset).result,
         \A i \in 1 .. Len(converted) : converted[i] = Mixed
  PROVE  \A i \in DOMAIN heard : heard[i] = Mixed
<1>1. /\ DOMAIN heard = 1 .. captured.hop
      /\ \A i \in 1 .. captured.hop :
           heard[i] # Mixed => heard[i] = converted[Context + offset + i]
  BY HeardIsConverted DEF LongEnough
<1>2. Context \in Nat /\ Overlap \in Nat /\ Search \in Nat
  BY SizesFit
<1>3. converted \in Seq(Samples) /\ captured.hop \in Nat
  BY DEF Inv, Types, ThreadInv
<1>4. PICK l \in Nat, hop \in Nat : /\ l = Len(converted) /\ hop = captured.hop
                                    /\ l >= Context + hop + Overlap + Search
  BY <1>3, LongIs
<1>5. ASSUME NEW i \in 1 .. hop PROVE converted[Context + offset + i] = Mixed
  <2>1. PICK k \in Nat : k = Context + offset + i
    BY <1>2
  <2>2. k \in 1 .. l
    BY <1>2, <1>4, <2>1
  <2> QED
    BY <1>4, <2>1, <2>2
<1> QED
  BY <1>1, <1>4, <1>5

\* The block that is appended is one that HeardStream promises.
LEMMA AppendIsPlay ==
  ASSUME Inv, Shapes, Wellness, AppendBlock PROVE Heard!Play
<1>1. /\ thread = "answered" /\ Stitches(converted, captured.hop, Context, Overlap, Search)
      /\ converted \in Seq(Samples) /\ converted # <<>>
      /\ LongEnough(converted, captured.hop)
      /\ captured.hop \in Nat \ {0} /\ lags \in Lags /\ disturbed' = disturbed
  BY StitchedIs DEF LongEnough
<1>2. Current
  BY DEF AppendBlock, Current
<1>3. PICK offset \in 0 .. Search :
        Stitching(offset) /\ block' = Stitched(offset).result
  BY <1>2, StitchedIs DEF Current
<1>4. PICK heard : heard = Stitched(offset).result
  OBVIOUS
<1>5. /\ heard \in Seq(Samples) /\ Len(heard) = captured.hop
      /\ Plays(heard, Overlap + 1, offset)
      /\ assembler.tail \in {<<>>, Slice(converted, Context + offset, Overlap)}
           => Plays(heard, 1, offset)
  BY <1>1, <1>4, BlockPlays
<1>6. captured.hop \in Nat /\ heard # <<>> /\ block' = heard
  BY <1>1, <1>3, <1>4, <1>5, EmptySeq
<1>7. CASE disturbed
  <2>1. IsAnswer(converted, captured.first)
    BY <1>1 DEF Shapes, AnswerShape
  <2>2. CASE \A i \in 1 .. Len(converted) : converted[i] = Mixed
    <3>1. \A i \in DOMAIN heard : heard[i] = Mixed
      BY <1>1, <1>4, <2>2, BlockIsMixed
    <3> QED
      BY <1>1, <1>6, <1>7, <3>1 DEF Heard!Play, Heard!Garble, Heard!Mixed, Mixed
  <2>3. CASE Moves(converted, Context + lags.output + 1, lags.input)
    <3>1. /\ Context \in Nat /\ Overlap \in Nat /\ Search \in Nat /\ Search <= Overlap
          /\ lags.output \in Nat /\ lags.output <= Search
      BY <1>1, SizesFit
    <3>2. Moves(converted, Context + offset + (Overlap + 1), lags.input)
      <4>1. \A i \in Context + offset + (Overlap + 1) .. Len(converted) - 1 :
              i \in Context + lags.output + 1 .. Len(converted) - 1
        BY <3>1
      <4> QED
        BY <2>3, <4>1 DEF Moves
    <3>3. Overlap + 1 \in Nat \ {0}
      BY <3>1
    <3>4. Moves(heard, Overlap + 1, lags.input)
      BY <1>1, <1>5, <1>6, <3>2, <3>3, BlockRuns
    <3> QED
      BY <1>1, <1>6, <1>7, <3>4
         DEF Heard!Play, Heard!Stumble, Heard!Runs, Heard!Steps, Moves
  <2> QED
    BY <2>1, <2>2, <2>3 DEF IsAnswer
<1>8. CASE ~disturbed
  <2>1. /\ assembler.tail \in {<<>>, Slice(converted, Context + offset, Overlap)}
        /\ Joins(converted, server, offset)
        /\ block # <<>> => Goes(block[Len(block)], converted[Context + offset + 1])
    BY <1>1, <1>2, <1>3, <1>8, OffsetIsExact DEF Stitching
  <2>2. Plays(heard, 1, offset) /\ Moves(converted, Context + offset + 1, lags.input)
    BY <1>5, <2>1 DEF Joins
  <2>3. Moves(heard, 1, lags.input)
    <3>1. 1 \in Nat \ {0}
      OBVIOUS
    <3> QED
      BY <1>1, <1>5, <1>6, <2>2, <3>1, BlockRuns
  <2>4. heard[1] = converted[Context + offset + 1]
    <3>1. 1 \in 1 .. captured.hop
      BY <1>1
    <3> QED
      BY <2>2, <3>1 DEF Plays
  <2> QED
    BY <1>1, <1>6, <2>1, <2>3, <2>4
       DEF Heard!Play, Heard!Start, Heard!Continue, Heard!Runs, Heard!Steps, Moves, Goes
<1> QED
  BY <1>7, <1>8

\* Every step of the stream is a step of the one that HeardStream promises, or none.
LEMMA StepIsHeard ==
  ASSUME Inv, Shapes, Wellness, [Next]_vars
  PROVE  [Heard!Next]_<<block, disturbed, lags.input>>
<1>1. disturbed \in BOOLEAN
  BY DEF Inv, Types, MonitorInv
<1>2. lags' = lags
  BY DEF Next, Discontinue, Capture, Serve, Tangle, Forget, ConversionFails, DropBlock,
         AppendBlock, CanStitch, vars
<1>3. CASE Discontinue
  BY <1>2, <1>3 DEF Discontinue, Heard!Next, Heard!Restart
<1>4. CASE Capture
  BY <1>2, <1>4 DEF Capture, ghostVars
<1>5. CASE \E request \in requests : Serve(request)
  <2>1. PICK request \in requests : Serve(request)
    BY <1>5
  <2>2. block' = block /\ disturbed' = (disturbed \/ ~Awaited(request))
    BY <2>1 DEF Serve
  <2>3. CASE disturbed'
    BY <1>2, <2>2, <2>3 DEF Heard!Next, Heard!Disturb
  <2>4. CASE ~disturbed'
    <3>1. disturbed' = FALSE /\ disturbed = FALSE
      BY <1>1, <2>2, <2>4, Zenon
    <3> QED
      BY <1>2, <2>2, <3>1
  <2> QED
    BY <2>3, <2>4
<1>6. CASE (\E request \in requests : Tangle(request)) \/ Forget \/ ConversionFails
  BY <1>2, <1>6 DEF Tangle, Forget, ConversionFails, Heard!Next, Heard!Disturb
<1>7. CASE DropBlock
  BY <1>2, <1>7 DEF DropBlock, CanStitch, Stitch
<1>8. CASE AppendBlock
  BY <1>2, <1>8, AppendIsPlay DEF Heard!Next
<1>9. CASE UNCHANGED vars
  BY <1>9 DEF vars, ghostVars
<1> QED
  BY <1>3, <1>4, <1>5, <1>6, <1>7, <1>8, <1>9 DEF Next

\* What is heard is what HeardStream promises: until a stream is disturbed it goes on
\* without a repetition or a mixture, skipping no more at once than the input resampler
\* may hold back; then it stumbles only under the cross-fade, unless two conversions at
\* once have made a block of which nothing is known.
THEOREM StreamIsHeardAsPromised == Spec => HeardAsPromised
<1>1. Inv /\ Init => Heard!Init
  BY SizesFit DEF Init, Heard!Init, Inv, Types, MonitorInv
<1>2. Inv /\ Shapes /\ Wellness /\ [Next]_vars
        => [Heard!Next]_<<block, disturbed, lags.input>>
  BY StepIsHeard
<1> QED
  BY <1>1, <1>2, StreamInvariant, StreamIsInShape, StreamIsWell, PTL
     DEF Spec, HeardAsPromised, Heard!Spec
=============================================================================
