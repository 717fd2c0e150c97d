------------------------ MODULE MCConversionWorker ------------------------
(***************************************************************************)
(* Instances of ConversionWorker. Sizes are those of a real source: audio  *)
(* at 48 or 16 kHz, arriving 125 or 250 ms at a time instead of 20 ms, so  *)
(* that a block is a few callbacks rather than a dozen. 12000 frames at    *)
(* 16 kHz are three blocks at once: the input overflows.                   *)
(***************************************************************************)
EXTENDS ConversionWorker

Stereo == [rate |-> 48000, channels |-> 2]
Low    == [rate |-> 16000, channels |-> 1]

MCFormats   == {Stereo, Low}
MCCallbacks == {6000, 12000}

\* One set of options that grows twice, and one whose index path is too long.
MCOptions == {[initial |-> 250, maximum |-> 750, fits |-> TRUE],
              [initial |-> 500, maximum |-> 500, fits |-> FALSE]}

\* The smaller instance on which liveness is checked.
MCFormat == {Stereo}
MCCallback == {12000}
MCOption == {[initial |-> 250, maximum |-> 500, fits |-> TRUE]}
============================================================================
