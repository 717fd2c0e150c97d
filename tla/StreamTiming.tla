---------------------------- MODULE StreamTiming ----------------------------
(***************************************************************************)
(* Frame arithmetic shared by the conversion thread, its callers and the   *)
(* stream assembler: how many frames a duration holds, how large one hop   *)
(* may be, and how a window is laid out around the hop:                    *)
(*                                                                         *)
(*      | history |          hop          |  overlap, search, slack  |     *)
(*        40 ms      conversion block               60 ms look-ahead       *)
(*                                                                         *)
(* Durations are in milliseconds and sizes in frames, as in the source;    *)
(* size_t is 64 bits wide and none of the products below reaches 2^64.     *)
(***************************************************************************)
EXTENDS Integers

CONSTANT
  MaxInputBytes   \* RVC_AUDIO_MAX_INPUT_BYTES, 768 * 1024 in the build

ASSUME MaxInputBytesAssumption == MaxInputBytes \in Nat

kStreamHistoryMs   == 40
kStreamOverlapMs   == 30
kStreamSearchMs    == 10
kStreamLookaheadMs == kStreamOverlapMs + kStreamSearchMs + 20

\* sizeof(int16_t): bytes of one mono PCM frame of a request.
kPcmBytes == 2

frame_count_for_duration(rate, ms) == (rate * ms) \div 1000

context_frames(rate)   == frame_count_for_duration(rate, kStreamHistoryMs)
lookahead_frames(rate) == frame_count_for_duration(rate, kStreamLookaheadMs)
overlap_frames(rate)   == frame_count_for_duration(rate, kStreamOverlapMs)
search_frames(rate)    == frame_count_for_duration(rate, kStreamSearchMs)

\* Mutant: the clamp leaves no room for the context.
conversion_frame_count_unclamped(rate, ms) ==
  LET capacity == MaxInputBytes \div kPcmBytes
      frames   == frame_count_for_duration(rate, ms)
  IN  IF ms <= 0 THEN 0 ELSE IF frames <= capacity THEN frames ELSE capacity

\* The hop: the block that one conversion consumes and produces, clamped so
\* that the hop with its context still fits in one request.
conversion_frame_count(rate, ms) ==
  LET context  == frame_count_for_duration(rate, kStreamHistoryMs + kStreamLookaheadMs)
      capacity == MaxInputBytes \div kPcmBytes
      frames   == frame_count_for_duration(rate, ms)
  IN  IF ms <= 0 \/ capacity <= context      THEN 0
      ELSE IF frames <= capacity - context THEN frames
      ELSE capacity - context

\* What one request carries (StreamAssembler::window), and what of it has to
\* come back (StreamAssembler::stitch).
window_frames(rate, hop) == context_frames(rate) + hop + lookahead_frames(rate)
stitch_frames(rate, hop) ==
  context_frames(rate) + hop + overlap_frames(rate) + search_frames(rate)
=============================================================================
