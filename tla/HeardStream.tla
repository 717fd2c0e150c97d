---------------------------- MODULE HeardStream ----------------------------
(***************************************************************************)
(* What a listener is promised, block by block. A sample is its position   *)
(* in the source's audio. A stream that is well goes on where it stopped,  *)
(* neither repeating nor mixing anything; a sample may be held, and some   *)
(* may be skipped, no more at once than the slack. A stream may start anew *)
(* later, under a fade. Once it is disturbed it may stumble at every seam, *)
(* but only as long as the cross-fade lasts, or have blocks of which       *)
(* nothing is known.                                                       *)
(***************************************************************************)
EXTENDS Integers, Sequences

CONSTANT Fade       \* how many samples the cross-fade between two blocks takes

VARIABLES
  block,            \* the block that was played last, or <<>> before a stream starts
  disturbed,
  slack             \* how many samples the stream may skip at once

\* A sample of which nothing is known.
Mixed == -1

\* From one sample to the next a stream moves on by one position, or holds, or skips.
Steps(before, after) == after - before \in 0 .. 1 + slack
Runs(s, first) == \A i \in first .. Len(s) - 1 : Steps(s[i], s[i + 1])

Init == block = <<>> /\ disturbed = FALSE /\ slack \in Nat

\* A block of a stream that just starts, of one that is well, and of one that
\* is disturbed.
Start    == block = <<>> /\ Runs(block', 1)
Continue == block # <<>> /\ Runs(block', 1) /\ Steps(block[Len(block)], block'[1])
Stumble  == disturbed /\ Runs(block', Fade + 1)
Garble   == disturbed /\ \A i \in DOMAIN block' : block'[i] = Mixed

Play == block' # <<>> /\ UNCHANGED disturbed /\ (Start \/ Continue \/ Stumble \/ Garble)

Disturb == disturbed' /\ UNCHANGED block

\* A new stream, which is well.
Restart == block' = <<>> /\ ~disturbed'

Next == (Play \/ Disturb \/ Restart) /\ UNCHANGED slack

Spec == Init /\ [][Next]_<<block, disturbed, slack>>
=============================================================================
