------------------------ MODULE MCConversionPacing ------------------------
(***************************************************************************)
(* Instances of ConversionPacing: stereo at 48 kHz, a callback of 125 ms   *)
(* (of 500 ms where blocks are seconds long).                              *)
(***************************************************************************)
EXTENDS ConversionPacing

MCFormats     == {[rate |-> 48000, channels |-> 2]}
MCCallbacks   == {6000}
LongCallbacks == {24000}

\* The defaults of the filter, and a maximum beyond what a response may carry.
DefaultOptions == {[initial |-> 250, maximum |-> 1500, fits |-> TRUE]}
LargeOptions   == {[initial |-> 2000, maximum |-> 5000, fits |-> TRUE]}

\* Up to one and a half times the initial block, and two and a half times.
ModerateOverheads == {0, 1, 2, 3}
LargeOverhead     == {5}
NoOverhead        == {0}
============================================================================
