------------------------- MODULE StreamTimingProofs -------------------------
(***************************************************************************)
(* Facts about the frame arithmetic, for every rate, duration and buffer.  *)
(***************************************************************************)
EXTENDS StreamTiming, TLAPS

\* A product of naturals is a natural, and grows with its second factor.
LEMMA ProductIsNat ==
  ASSUME NEW a \in Nat, NEW b \in Nat
  PROVE  a * b \in Nat
  OBVIOUS

\* Multiplication is monotone in its right operand.
LEMMA ProductMonotone ==
  ASSUME NEW a \in Nat, NEW b \in Nat, NEW c \in Nat, b <= c
  PROVE  a * b <= a * c
  OBVIOUS

\* Frames of a duration: a natural number that grows with the duration.
LEMMA FramesIsNat ==
  ASSUME NEW rate \in Nat, NEW ms \in Nat
  PROVE  frame_count_for_duration(rate, ms) \in Nat
<1>1. rate * ms \in Nat
  BY ProductIsNat
<1> QED
  BY <1>1 DEF frame_count_for_duration

\* A longer duration has at least as many frames.
LEMMA FramesMonotone ==
  ASSUME NEW rate \in Nat, NEW short \in Nat, NEW long \in Nat, short <= long
  PROVE  frame_count_for_duration(rate, short) <= frame_count_for_duration(rate, long)
<1>1. rate * short \in Nat /\ rate * long \in Nat /\ rate * short <= rate * long
  BY ProductIsNat, ProductMonotone
<1> QED
  BY <1>1 DEF frame_count_for_duration

\* The parts of a window are natural numbers.
LEMMA PartsAreNat ==
  ASSUME NEW rate \in Nat
  PROVE  /\ context_frames(rate) \in Nat
         /\ lookahead_frames(rate) \in Nat
         /\ overlap_frames(rate) \in Nat
         /\ search_frames(rate) \in Nat
         /\ frame_count_for_duration(rate, kStreamHistoryMs + kStreamLookaheadMs) \in Nat
<1>1. /\ kStreamHistoryMs \in Nat
      /\ kStreamLookaheadMs \in Nat
      /\ kStreamOverlapMs \in Nat
      /\ kStreamSearchMs \in Nat
      /\ kStreamHistoryMs + kStreamLookaheadMs \in Nat
  BY DEF kStreamHistoryMs, kStreamLookaheadMs, kStreamOverlapMs, kStreamSearchMs
<1>2. context_frames(rate) \in Nat
  BY <1>1, FramesIsNat DEF context_frames
<1>3. lookahead_frames(rate) \in Nat
  BY <1>1, FramesIsNat DEF lookahead_frames
<1>4. overlap_frames(rate) \in Nat
  BY <1>1, FramesIsNat DEF overlap_frames
<1>5. search_frames(rate) \in Nat
  BY <1>1, FramesIsNat DEF search_frames
<1>6. frame_count_for_duration(rate, kStreamHistoryMs + kStreamLookaheadMs) \in Nat
  BY <1>1, FramesIsNat
<1> QED
  BY <1>2, <1>3, <1>4, <1>5, <1>6

\* A hop is a natural number ...
LEMMA HopIsNat ==
  ASSUME NEW rate \in Nat, NEW ms \in Nat
  PROVE  conversion_frame_count(rate, ms) \in Nat
<1> DEFINE context  == frame_count_for_duration(rate, kStreamHistoryMs + kStreamLookaheadMs)
           capacity == MaxInputBytes \div kPcmBytes
           frames   == frame_count_for_duration(rate, ms)
<1>1. context \in Nat
  BY PartsAreNat
<1>2. capacity \in Nat
  BY MaxInputBytesAssumption DEF kPcmBytes
<1>3. frames \in Nat
  BY FramesIsNat
<1>4. conversion_frame_count(rate, ms) =
        IF ms <= 0 \/ capacity <= context THEN 0
        ELSE IF frames <= capacity - context THEN frames ELSE capacity - context
  BY DEF conversion_frame_count
<1> HIDE DEF context, capacity, frames
<1> QED
  BY <1>1, <1>2, <1>3, <1>4

\* ... that never shrinks when the block duration grows ...
LEMMA HopMonotone ==
  ASSUME NEW rate \in Nat, NEW short \in Nat, NEW long \in Nat, short <= long
  PROVE  conversion_frame_count(rate, short) <= conversion_frame_count(rate, long)
<1> DEFINE context  == frame_count_for_duration(rate, kStreamHistoryMs + kStreamLookaheadMs)
           capacity == MaxInputBytes \div kPcmBytes
           few      == frame_count_for_duration(rate, short)
           many     == frame_count_for_duration(rate, long)
<1>1. context \in Nat
  BY PartsAreNat
<1>2. capacity \in Nat
  BY MaxInputBytesAssumption DEF kPcmBytes
<1>3. few \in Nat /\ many \in Nat /\ few <= many
  BY FramesIsNat, FramesMonotone
<1>4. conversion_frame_count(rate, short) =
        IF short <= 0 \/ capacity <= context THEN 0
        ELSE IF few <= capacity - context THEN few ELSE capacity - context
  BY DEF conversion_frame_count
<1>5. conversion_frame_count(rate, long) =
        IF long <= 0 \/ capacity <= context THEN 0
        ELSE IF many <= capacity - context THEN many ELSE capacity - context
  BY DEF conversion_frame_count
<1> HIDE DEF context, capacity, few, many
<1> QED
  BY <1>1, <1>2, <1>3, <1>4, <1>5

\* ... and whose window fits the buffer of a request (the memcpy of Impl::run).
THEOREM WindowFits ==
  ASSUME NEW rate \in Nat, NEW ms \in Nat, conversion_frame_count(rate, ms) > 0
  PROVE  window_frames(rate, conversion_frame_count(rate, ms)) * kPcmBytes <= MaxInputBytes
<1> DEFINE context  == frame_count_for_duration(rate, kStreamHistoryMs + kStreamLookaheadMs)
           capacity == MaxInputBytes \div kPcmBytes
           frames   == frame_count_for_duration(rate, ms)
           hop      == conversion_frame_count(rate, ms)
<1>1. context_frames(rate) + lookahead_frames(rate) <= context
  <2>1. rate * kStreamHistoryMs \in Nat /\ rate * kStreamLookaheadMs \in Nat
    BY DEF kStreamHistoryMs, kStreamLookaheadMs, kStreamOverlapMs, kStreamSearchMs
  <2>2. rate * (kStreamHistoryMs + kStreamLookaheadMs)
          = rate * kStreamHistoryMs + rate * kStreamLookaheadMs
    BY DEF kStreamHistoryMs, kStreamLookaheadMs, kStreamOverlapMs, kStreamSearchMs
  <2> QED
    BY <2>1, <2>2 DEF context_frames, lookahead_frames, frame_count_for_duration
<1>2. context \in Nat /\ context_frames(rate) \in Nat /\ lookahead_frames(rate) \in Nat
  BY PartsAreNat
<1>3. capacity \in Nat /\ 2 * capacity <= MaxInputBytes
  BY MaxInputBytesAssumption DEF kPcmBytes
<1>4. frames \in Nat
  BY FramesIsNat
<1>5. hop = IF ms <= 0 \/ capacity <= context THEN 0
            ELSE IF frames <= capacity - context THEN frames ELSE capacity - context
  BY DEF conversion_frame_count
<1>6. hop \in Nat /\ hop + context <= capacity
  <2> HIDE DEF context, capacity, frames
  <2> QED
    BY <1>2, <1>3, <1>4, <1>5
<1>7. window_frames(rate, hop) = context_frames(rate) + hop + lookahead_frames(rate)
  BY DEF window_frames
<1> HIDE DEF context, capacity, frames, hop
<1>8. window_frames(rate, hop) * 2 <= MaxInputBytes
  BY <1>1, <1>2, <1>3, <1>6, <1>7, MaxInputBytesAssumption
<1> QED
  BY <1>8 DEF hop, kPcmBytes

\* What has to come back is less than what was sent by the slack of 20 ms, so
\* a model that rounds a window down by that much can still be stitched.
THEOREM StitchNeedsLess ==
  ASSUME NEW rate \in Nat, NEW hop \in Nat
  PROVE  stitch_frames(rate, hop) + frame_count_for_duration(rate, 20)
           <= window_frames(rate, hop)
<1>1. rate * 20 \in Nat /\ rate * kStreamOverlapMs \in Nat /\ rate * kStreamSearchMs \in Nat
  BY DEF kStreamOverlapMs, kStreamSearchMs
<1>2. rate * kStreamLookaheadMs = rate * kStreamOverlapMs + rate * kStreamSearchMs + rate * 20
  BY DEF kStreamLookaheadMs, kStreamOverlapMs, kStreamSearchMs
<1>3. /\ overlap_frames(rate) = (rate * kStreamOverlapMs) \div 1000
      /\ search_frames(rate) = (rate * kStreamSearchMs) \div 1000
      /\ lookahead_frames(rate) = (rate * kStreamLookaheadMs) \div 1000
      /\ frame_count_for_duration(rate, 20) = (rate * 20) \div 1000
  BY DEF overlap_frames, search_frames, lookahead_frames, frame_count_for_duration
<1>4. overlap_frames(rate) + search_frames(rate) + frame_count_for_duration(rate, 20)
        <= lookahead_frames(rate)
  BY <1>1, <1>2, <1>3
<1>5. context_frames(rate) \in Nat /\ overlap_frames(rate) \in Nat /\ search_frames(rate) \in Nat
  BY PartsAreNat
<1>6. lookahead_frames(rate) \in Nat /\ frame_count_for_duration(rate, 20) \in Nat
  BY PartsAreNat, FramesIsNat
<1> QED
  BY <1>4, <1>5, <1>6 DEF stitch_frames, window_frames
=============================================================================
